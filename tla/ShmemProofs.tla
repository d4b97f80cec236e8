----------------------------- MODULE ShmemProofs ----------------------------
(***************************************************************************)
(* The controller's table, its pages and the list of errors, for any       *)
(* prefixes, sockets, requests and limits, and any number of managers,     *)
(* calls and failures.                                                     *)
(***************************************************************************)
EXTENDS Shmem, FiniteSetTheorems, SequenceTheorems, WellFoundedInduction, TLAPS

(***************************************************************************)
(* The managers.                                                           *)
(***************************************************************************)
Ended == Over \union {"gone"}

ChildRec == [prefix : FilePrefixes \union {None}, up : BOOLEAN, flag : BOOLEAN,
             noticed : BOOLEAN, st : {"unborn"} \union Alive \union Ended]

ChildInv ==
    /\ child \in [Pids -> ChildRec]
    /\ \A k \in Pids : child[k].st \in Alive => child[k].prefix \in FilePrefixes

\* What ch[k] may be after a step other than a report of the callback.
AgedOne(ch, k) ==
    /\ ch[k].st \in Alive => ch[k].prefix \in FilePrefixes
    /\ ch[k].st = "notify" => child[k].st = "notify" /\ ch[k].prefix = child[k].prefix
    /\ child[k].st \in Ended => ch[k].st \in Ended

Aged(ch) == ch \in [Pids -> ChildRec] /\ \A k \in Pids : AgedOne(ch, k)

LEMMA AgedSame == ASSUME ChildInv PROVE Aged(child)
BY DEF ChildInv, Aged, AgedOne

LEMMA AgedCut ==
    ASSUME NEW ch, Aged(ch), NEW xs
    PROVE  Aged(Cut(ch, xs))
<1>1. PICK d : d = Cut(ch, xs)
    OBVIOUS
<1>2. \A k \in Pids : d[k] = ch[k] \/ (ch[k].st = "opened" /\ d[k] = [ch[k] EXCEPT !.st = "cut"])
    BY <1>1 DEF Cut
<1>3. \A k \in Pids : /\ d[k] \in ChildRec /\ d[k].prefix = ch[k].prefix
                      /\ d[k].st = ch[k].st \/ (ch[k].st = "opened" /\ d[k].st = "cut")
    <2> SUFFICES ASSUME NEW k \in Pids
                 PROVE  /\ d[k] \in ChildRec /\ d[k].prefix = ch[k].prefix
                        /\ d[k].st = ch[k].st \/ (ch[k].st = "opened" /\ d[k].st = "cut")
        OBVIOUS
    <2>1. PICK a : a = ch[k]
        OBVIOUS
    <2>2. a \in ChildRec
        BY <2>1 DEF Aged
    <2>3. CASE d[k] = a
        BY <2>1, <2>2, <2>3
    <2>4. CASE a.st = "opened" /\ d[k] = [a EXCEPT !.st = "cut"]
        BY <2>1, <2>2, <2>4 DEF ChildRec, Alive
    <2> QED
        BY <1>2, <2>1, <2>3, <2>4
<1>4. d \in [Pids -> ChildRec]
    BY <1>1, <1>3 DEF Cut
<1>5. ASSUME NEW k \in Pids PROVE AgedOne(d, k)
    <2>1. AgedOne(ch, k)
        BY DEF Aged
    <2> QED
        BY <1>3, <2>1 DEF AgedOne, Alive, Ended, Over
<1> QED
    BY <1>1, <1>4, <1>5 DEF Aged

\* A step of one manager.
LEMMA AgedStep ==
    ASSUME ChildInv, NEW k \in Pids, NEW s \in Alive \union Ended, s # "notify",
           child[k].st \in Alive
    PROVE  Aged(Became(k, s))
<1>1. PICK d : d = Became(k, s)
    OBVIOUS
<1>2. d \in [Pids -> ChildRec] /\ d[k].st = s /\ d[k].prefix = child[k].prefix
    BY <1>1 DEF Became, ChildInv, ChildRec
<1>3. \A j \in Pids : j # k => d[j] = child[j]
    BY <1>1 DEF Became, ChildInv
<1>4. ASSUME NEW j \in Pids PROVE AgedOne(d, j)
    BY <1>2, <1>3 DEF AgedOne, ChildInv, Alive, Ended, Over
<1> QED
    BY <1>1, <1>2, <1>4 DEF Aged

LEMMA AgedReaped == ASSUME ChildInv PROVE Aged(Reaped)
<1>1. PICK d : d = Reaped
    OBVIOUS
<1>2. ASSUME NEW k \in Pids
      PROVE  /\ d[k] \in ChildRec /\ d[k].prefix = child[k].prefix
             /\ d[k].st = child[k].st \/ (child[k].st \in Over /\ d[k].st = "gone")
    <2>1. PICK a : a = child[k]
        OBVIOUS
    <2>2. a \in ChildRec
        BY <2>1 DEF ChildInv
    <2>3. d[k] = a \/ (a.st \in Over /\ d[k] = [a EXCEPT !.st = "gone"])
        BY <1>1, <2>1 DEF Reaped
    <2>4. CASE d[k] = a
        BY <2>1, <2>2, <2>4
    <2>5. CASE a.st \in Over /\ d[k] = [a EXCEPT !.st = "gone"]
        BY <2>1, <2>2, <2>5 DEF ChildRec, Ended
    <2> QED
        BY <2>3, <2>4, <2>5
<1>3. d \in [Pids -> ChildRec]
    BY <1>1, <1>2 DEF Reaped
<1>4. ASSUME NEW k \in Pids PROVE AgedOne(d, k)
    BY <1>2 DEF AgedOne, ChildInv, Alive, Ended, Over
<1> QED
    BY <1>1, <1>3, <1>4 DEF Aged

LEMMA AgedSignalled == ASSUME ChildInv, NEW ks PROVE Aged(Signalled(ks))
<1>1. PICK d : d = Signalled(ks)
    OBVIOUS
<1>2. ASSUME NEW k \in Pids
      PROVE  d[k] \in ChildRec /\ d[k].prefix = child[k].prefix /\ d[k].st = child[k].st
    <2>1. PICK a : a = child[k]
        OBVIOUS
    <2>2. a \in ChildRec
        BY <2>1 DEF ChildInv
    <2>3. d[k] = a \/ d[k] = [a EXCEPT !.flag = TRUE]
        BY <1>1, <2>1 DEF Signalled
    <2>4. CASE d[k] = a
        BY <2>1, <2>2, <2>4
    <2>5. CASE d[k] = [a EXCEPT !.flag = TRUE]
        BY <2>1, <2>2, <2>5 DEF ChildRec
    <2> QED
        BY <2>3, <2>4, <2>5
<1>3. d \in [Pids -> ChildRec]
    BY <1>1, <1>2 DEF Signalled
<1>4. ASSUME NEW k \in Pids PROVE AgedOne(d, k)
    BY <1>2 DEF AgedOne, ChildInv
<1> QED
    BY <1>1, <1>3, <1>4 DEF Aged

\* A new manager, of prefix x.
Forked(ch, k, x) == [ch EXCEPT ![k].prefix = x, ![k].st = "forked"]

LEMMA AgedForked ==
    ASSUME NEW ch, Aged(ch), NEW k \in Pids, child[k].st = "unborn", NEW x \in FilePrefixes
    PROVE  Aged(Forked(ch, k, x))
<1>1. PICK d : d = Forked(ch, k, x)
    OBVIOUS
<1>2. ch \in [Pids -> ChildRec]
    BY DEF Aged
<1>3. /\ d \in [Pids -> ChildRec] /\ d[k].st = "forked" /\ d[k].prefix = x
      /\ \A j \in Pids : j # k => d[j] = ch[j]
    <2>1. PICK a : a = [ch[k] EXCEPT !.prefix = x, !.st = "forked"]
        OBVIOUS
    <2>2. a \in ChildRec /\ a.st = "forked" /\ a.prefix = x
        BY <1>2, <2>1 DEF ChildRec, Alive
    <2>3. d = [ch EXCEPT ![k] = a]
        BY <1>1, <1>2, <2>1 DEF Forked
    <2> QED
        BY <1>2, <2>2, <2>3
<1>4. ASSUME NEW j \in Pids PROVE AgedOne(d, j)
    <2>1. AgedOne(ch, j)
        BY DEF Aged
    <2> QED
        BY <1>3, <2>1 DEF AgedOne, Alive, Ended, Over
<1> QED
    BY <1>1, <1>3, <1>4 DEF Aged

LEMMA AgedNext == ASSUME Aged(child') PROVE ChildInv'
BY DEF Aged, AgedOne, ChildInv, ChildRec, Alive, Ended, Over

-----------------------------------------------------------------------------
(***************************************************************************)
(* The table.                                                              *)
(***************************************************************************)
\* An entry in use has a manager, and no other entry has its prefix.
TableOK(t) ==
    /\ t = [i \in Slots |-> t[i]]
    /\ \A i \in Slots : /\ t[i].pid \in Pids \union {0}
                        /\ t[i].prefix = None => t[i].pid = 0
    /\ \A i, j \in Slots : t[i].prefix = t[j].prefix => i = j \/ t[i].prefix = None

TableInv == TableOK(infos)

\* One request is under way at a time, and its answer is taken before the next.
TurnInv ==
    /\ app = [op |-> app.op, prefix |-> app.prefix, pages |-> app.pages, step |-> app.step]
    /\ app.step = 0 => cmd = NoCmd /\ res = NoAnswer
    /\ app.step # 0 => app.prefix \in FilePrefixes
    /\ cmd = NoCmd \/ res = NoAnswer
    /\ cmd # NoCmd => cmd.prefix \in FilePrefixes

\* While the controller waits for a manager to come up, the prefix is not in
\* the table and the entry it has found is still free.
WaitInv ==
    ctl.st = "wait" =>
        /\ cmd # NoCmd /\ cmd.prefix \notin Managed(infos)
        /\ ctl.pid \in Pids /\ ctl.index \in Slots /\ infos[ctl.index].prefix = None

EntriesInv == ChildInv /\ TurnInv /\ TableInv /\ WaitInv

\* The step takes no entry from a manager that goes on.
Ending ==
    \A i \in Slots :
        infos[i].pid /= 0 /\ infos'[i] /= infos[i] => child'[infos[i].pid].st \notin Alive

LEMMA EndedIsNotAlive == \A s \in Ended : s \notin Alive
BY DEF Ended, Over, Alive

LEMMA FreeEntry == Free.prefix = None /\ Free.pid = 0
BY DEF Free

LEMMA HealthyTable ==
    ASSUME TableInv, ChildInv, NEW g \in Garbage
    PROVE  /\ TableOK(Healthy(g))
           /\ \A i \in Slots :
                 \/ Healthy(g)[i] = infos[i]
                 \/ /\ Healthy(g)[i] = Free /\ infos[i].pid \in Pids
                    /\ child[infos[i].pid].st \in Ended
<1>1. PICK t : t = Healthy(g)
    OBVIOUS
<1>2. \A i \in Slots : infos[i].pid \in Pids \union {0} /\ (infos[i].prefix = None => infos[i].pid = 0)
    BY DEF TableInv, TableOK
<1>3. ASSUME NEW i \in Slots
      PROVE  \/ t[i] = infos[i]
             \/ /\ t[i] = Free /\ infos[i].pid \in Pids
                /\ child[infos[i].pid].st \in Ended
    <2>1. i \in Cleared(g) => StateOf(i) \in Ended
        BY DEF Cleared, Exited, Lost, Ended, Over
    <2>2. StateOf(i) \in Ended => infos[i].pid \in Pids /\ child[infos[i].pid].st \in Ended
        BY <1>2 DEF StateOf, Ended, Over
    <2> QED
        BY <1>1, <2>1, <2>2 DEF Healthy
<1>4. t = [i \in Slots |-> t[i]]
    BY <1>1 DEF Healthy
<1>5. \A i \in Slots : t[i] = infos[i] \/ t[i] = Free
    BY <1>3
<1>6. \A i \in Slots : /\ t[i].pid \in Pids \union {0}
                       /\ t[i].prefix = None => t[i].pid = 0
    BY <1>2, <1>5, FreeEntry
<1>7. \A i, j \in Slots : t[i].prefix = t[j].prefix => i = j \/ t[i].prefix = None
    BY <1>5, FreeEntry DEF TableInv, TableOK
<1> QED
    BY <1>1, <1>3, <1>4, <1>6, <1>7 DEF TableOK

\* An entry that the check clears was an ended manager's.
LEMMA HealthyEnding ==
    ASSUME TableInv, ChildInv, NEW g \in Garbage, infos' = Healthy(g), Aged(child')
    PROVE  TableInv' /\ Ending
<1>1. TableOK(Healthy(g))
    BY HealthyTable
<1>2. TableInv'
    BY <1>1 DEF TableInv, TableOK
<1>3. ASSUME NEW i \in Slots, infos[i].pid # 0, infos'[i] # infos[i]
      PROVE  child'[infos[i].pid].st \notin Alive
    <2>1. infos[i].pid \in Pids /\ child[infos[i].pid].st \in Ended
        BY <1>3, HealthyTable
    <2>2. child'[infos[i].pid].st \in Ended
        BY <2>1 DEF Aged, AgedOne
    <2> QED
        BY <2>2, EndedIsNotAlive
<1> QED
    BY <1>2, <1>3 DEF Ending

LEMMA SameTable == ASSUME TableInv, infos' = infos PROVE TableInv' /\ Ending
BY DEF TableInv, TableOK, Ending

LEMMA AnswerTurn ==
    ASSUME TurnInv, cmd # NoCmd, NEW c, NEW k, Answer(c, k), app' = app
    PROVE  TurnInv' /\ WaitInv'
<1>1. cmd' = NoCmd /\ ctl'.st = "serve" /\ app.step # 0
    BY DEF Answer, Serving, TurnInv
<1> QED
    BY <1>1 DEF TurnInv, WaitInv

LEMMA QuitTurn ==
    ASSUME TurnInv, cmd # NoCmd, Quit, app' = app
    PROVE  TurnInv' /\ WaitInv'
<1>1. ctl'.st = "quit"
    BY DEF Quit, Serving
<1>2. cmd' = NoCmd /\ app.step # 0
    BY DEF Quit, TurnInv
<1> QED
    BY <1>1, <1>2 DEF TurnInv, WaitInv

\* Whatever the controller does with a request it has been given.
LEMMA EntriesHealth ==
    ASSUME EntriesInv, cmd # NoCmd, NEW g \in Garbage, __fpga_shmem_check_health(g), app' = app,
           (\E c, k : Answer(c, k)) \/ Quit
    PROVE  EntriesInv' /\ Ending
<1>1. ChildInv /\ TurnInv /\ TableInv
    BY DEF EntriesInv
<1>2. infos' = Healthy(g) /\ child' = Cut(Reaped, Cleaned(g))
    BY DEF __fpga_shmem_check_health, __remove_hugedir
<1>3. Aged(child')
    BY <1>1, <1>2, AgedReaped, AgedCut
<1>4. TableInv' /\ Ending /\ ChildInv'
    BY <1>1, <1>2, <1>3, HealthyEnding, AgedNext
<1>5. TurnInv' /\ WaitInv'
    BY <1>1, AnswerTurn, QuitTurn
<1> QED
    BY <1>4, <1>5 DEF EntriesInv

LEMMA LeastOf ==
    ASSUME NEW S, \A x \in S : x \in Nat, S # {}
    PROVE  \E x \in S : \A y \in S : x <= y
<1>1. S \subseteq Nat
    OBVIOUS
<1>2. PICK x \in S : \A y \in S : ~ (<<y, x>> \in OpToRel(<, Nat))
    BY <1>1, NatLessThanWellFounded, WFMin
<1>3. ASSUME NEW y \in S PROVE x <= y
    <2>1. x \in Nat /\ y \in Nat
        BY <1>1
    <2>2. y < x => <<y, x>> \in OpToRel(<, Nat)
        BY <2>1 DEF OpToRel
    <2>3. ~ (y < x)
        BY <1>2, <2>2
    <2> QED
        BY <2>1, <2>3
<1> QED
    BY <1>3

LEMMA MinFree ==
    ASSUME NEW S, S \subseteq Slots, S # {}
    PROVE  Min(S) \in S
<1>1. \A x \in S : x \in Nat
    BY DEF Slots
<1>2. \E x \in S : \A y \in S : x <= y
    BY <1>1, LeastOf
<1> QED
    BY <1>2 DEF Min

LEMMA EntriesStartForks ==
    ASSUME EntriesInv, cmd # NoCmd, NEW g \in Garbage, NEW k \in Pids, StartForks(g, k)
    PROVE  EntriesInv' /\ Ending
<1>1. ChildInv /\ TurnInv /\ TableInv
    BY DEF EntriesInv
<1>2. PICK free : free = {i \in Slots : Healthy(g)[i].prefix = None}
    OBVIOUS
<1>3. /\ child[k].st = "unborn" /\ infos' = Healthy(g) /\ app' = app
      /\ child' = Cut(Forked(Reaped, k, cmd.prefix), Cleaned(g))
      /\ StartOK(Healthy(g))
    BY DEF StartForks, __remove_hugedir, Forked
<1>4. \/ Answer("NG", 0)
      \/ /\ free # {} /\ ctl' = [st |-> "wait", pid |-> k, index |-> Min(free)]
         /\ UNCHANGED <<cmd, res>>
    BY <1>2 DEF StartForks
<1>5. cmd.prefix \in FilePrefixes
    BY <1>1 DEF TurnInv
<1>6. Aged(child')
    BY <1>1, <1>3, <1>5, AgedReaped, AgedForked, AgedCut
<1>7. ChildInv' /\ TableInv' /\ Ending
    BY <1>1, <1>3, <1>6, HealthyEnding, AgedNext
<1>8. CASE Answer("NG", 0)
    BY <1>1, <1>3, <1>7, <1>8, AnswerTurn DEF EntriesInv
<1>9. CASE /\ free # {} /\ ctl' = [st |-> "wait", pid |-> k, index |-> Min(free)]
           /\ UNCHANGED <<cmd, res>>
    <2>1. Min(free) \in free
        BY <1>2, <1>9, MinFree
    <2>2. ctl'.pid = k /\ ctl'.index = Min(free)
        BY <1>9
    <2>3. ctl'.index \in Slots /\ infos'[ctl'.index].prefix = None
        BY <1>2, <1>3, <2>1, <2>2
    <2>4. cmd.prefix \notin Managed(infos')
        BY <1>3 DEF StartOK, __fpga_shmem_check_file_prefix
    <2>5. WaitInv'
        BY <1>9, <2>2, <2>3, <2>4 DEF WaitInv, Managed
    <2>6. TurnInv'
        BY <1>1, <1>3, <1>9 DEF TurnInv
    <2> QED
        BY <1>7, <2>5, <2>6 DEF EntriesInv
<1> QED
    BY <1>4, <1>8, <1>9

LEMMA EntriesParentReads ==
    ASSUME EntriesInv, cmd # NoCmd, NEW g \in Garbage, ParentReads(g)
    PROVE  EntriesInv' /\ Ending
<1>1. ChildInv /\ TurnInv /\ TableInv /\ WaitInv
    BY DEF EntriesInv
<1>2. PICK t : t = Healthy(g)
    OBVIOUS
<1>3. PICK e : e = [prefix |-> cmd.prefix, pid |-> ctl.pid, pages |-> cmd.pages]
    OBVIOUS
<1>4. PICK n : n = ctl.index
    OBVIOUS
<1>5. /\ infos' = [t EXCEPT ![n] = e] /\ ctl.st = "wait" /\ app' = app /\ Answer("OK", 0)
      /\ child' = Cut(Reaped, Cleaned(g) \union {cmd.prefix})
    BY <1>2, <1>3, <1>4 DEF ParentReads
<1>6. /\ cmd.prefix \notin Managed(infos) /\ ctl.pid \in Pids /\ n \in Slots
      /\ infos[n].prefix = None /\ cmd.prefix \in FilePrefixes /\ None \notin FilePrefixes
    BY <1>1, <1>4, <1>5, ShmemAssumption DEF WaitInv, TurnInv
<1>7. Aged(child')
    BY <1>1, <1>5, AgedReaped, AgedCut
<1>8. /\ TableOK(t)
      /\ \A i \in Slots : \/ t[i] = infos[i]
                          \/ /\ t[i] = Free /\ infos[i].pid \in Pids
                             /\ child[infos[i].pid].st \in Ended
    BY <1>1, <1>2, HealthyTable
<1>9. infos' = [i \in Slots |-> IF i = n THEN e ELSE t[i]]
    <2>1. t = [i \in Slots |-> t[i]]
        BY <1>8 DEF TableOK
    <2> QED
        BY <1>5, <1>6, <2>1
<1>10. e.prefix = cmd.prefix /\ e.pid = ctl.pid
    BY <1>3
<1>11. \A i \in Slots : infos'[i] = IF i = n THEN e ELSE t[i]
    BY <1>9
<1>12. infos' = [i \in Slots |-> infos'[i]]
    BY <1>9
<1>13. \A i \in Slots : t[i].prefix # cmd.prefix
    BY <1>6, <1>8, FreeEntry DEF Managed
<1>14. \A i \in Slots : /\ infos'[i].pid \in Pids \union {0}
                        /\ infos'[i].prefix = None => infos'[i].pid = 0
    BY <1>6, <1>8, <1>10, <1>11 DEF TableOK
<1>15. \A i, j \in Slots : infos'[i].prefix = infos'[j].prefix => i = j \/ infos'[i].prefix = None
    BY <1>8, <1>10, <1>11, <1>13 DEF TableOK
<1>16. TableInv'
    BY <1>12, <1>14, <1>15 DEF TableInv, TableOK
<1>17. Ending
    <2> SUFFICES ASSUME NEW i \in Slots, infos[i].pid # 0, infos'[i] # infos[i]
                 PROVE  child'[infos[i].pid].st \notin Alive
        BY DEF Ending
    <2>1. i # n
        BY <1>1, <1>6 DEF TableInv, TableOK
    <2>2. infos[i].pid \in Pids /\ child[infos[i].pid].st \in Ended
        BY <1>8, <1>11, <2>1
    <2>3. child'[infos[i].pid].st \in Ended
        BY <1>7, <2>2 DEF Aged, AgedOne
    <2> QED
        BY <2>3, EndedIsNotAlive
<1>18. ChildInv' /\ TurnInv' /\ WaitInv'
    BY <1>1, <1>5, <1>7, AgedNext, AnswerTurn
<1> QED
    BY <1>16, <1>17, <1>18 DEF EntriesInv

LEMMA EntriesRest ==
    ASSUME EntriesInv, cmd # NoCmd, ParentGivesUp \/ ParentTimeout \/ Stop \/ FinishAll
    PROVE  EntriesInv' /\ Ending
<1>1. ChildInv /\ TurnInv /\ TableInv
    BY DEF EntriesInv
<1>2. infos' = infos /\ app' = app
    BY DEF ParentGivesUp, ParentTimeout, Stop, FinishAll
<1>3. TableInv' /\ Ending
    BY <1>1, <1>2, SameTable
<1>4. Aged(child')
    <2>1. CASE ParentGivesUp
        BY <1>1, <2>1, AgedSame, AgedCut DEF ParentGivesUp
    <2>2. CASE ParentTimeout
        BY <1>1, <2>2, AgedSame DEF ParentTimeout
    <2>3. CASE Stop
        BY <1>1, <2>3, AgedSignalled DEF Stop
    <2>4. CASE FinishAll
        BY <1>1, <2>4, AgedSignalled DEF FinishAll
    <2> QED
        BY <2>1, <2>2, <2>3, <2>4
<1>5. \/ \E c, k : Answer(c, k)
      \/ Quit
      \/ ctl' = [Serving EXCEPT !.st = "finish"] /\ UNCHANGED <<cmd, res>>
    BY DEF ParentGivesUp, ParentTimeout, Stop, FinishAll
<1>6. TurnInv' /\ WaitInv'
    <2>1. CASE (\E c, k : Answer(c, k)) \/ Quit
        BY <1>1, <1>2, <2>1, AnswerTurn, QuitTurn
    <2>2. CASE ctl' = [Serving EXCEPT !.st = "finish"] /\ UNCHANGED <<cmd, res>>
        <3>1. ctl'.st = "finish"
            BY <2>2 DEF Serving
        <3> QED
            BY <1>1, <1>2, <2>2, <3>1 DEF TurnInv, WaitInv
    <2> QED
        BY <1>5, <2>1, <2>2
<1> QED
    BY <1>3, <1>4, <1>6, AgedNext DEF EntriesInv

LEMMA EntriesController ==
    ASSUME EntriesInv, Controller
    PROVE  EntriesInv' /\ Ending
<1>1. cmd # NoCmd
    BY DEF Controller
<1>2. ASSUME NEW g \in Garbage,
             StartRefused(g) \/ StartNoFork(g) \/ GetManagerPid(g) \/ FinishDone(g) \/ FinishTimeout(g)
      PROVE  EntriesInv' /\ Ending
    <2>1. __fpga_shmem_check_health(g) /\ app' = app
        BY <1>2 DEF StartRefused, StartNoFork, GetManagerPid, FinishDone, FinishTimeout
    <2>2. (\E c, k : Answer(c, k)) \/ Quit
        BY <1>2 DEF StartRefused, StartNoFork, GetManagerPid, FinishDone, FinishTimeout
    <2> QED
        BY <1>1, <1>2, <2>1, <2>2, EntriesHealth
<1>3. ASSUME NEW g \in Garbage, NEW k \in Pids, StartForks(g, k) PROVE EntriesInv' /\ Ending
    BY <1>1, <1>3, EntriesStartForks
<1>4. ASSUME NEW g \in Garbage, ParentReads(g) PROVE EntriesInv' /\ Ending
    BY <1>1, <1>4, EntriesParentReads
<1>5. CASE ParentGivesUp \/ ParentTimeout \/ Stop \/ FinishAll
    BY <1>1, <1>5, EntriesRest
<1> QED
    BY <1>2, <1>3, <1>4, <1>5 DEF Controller

-----------------------------------------------------------------------------
(***************************************************************************)
(* The application, the managers and the users.                            *)
(***************************************************************************)
LEMMA AppOutcomes ==
    ASSUME AppStep
    PROVE  \/ Return
           \/ \E s \in {2, 3, 4, 5} : \E c : GoOn(s, c)
           \/ app' = [NoCall EXCEPT !.op = "over"] /\ UNCHANGED cmd
BY DEF AppStep, SimpleReturns, EnabledOnce, EnableChecks, DisableChecks, Stopped, AfterStop

LEMMA EntriesApp ==
    ASSUME EntriesInv, AppStep
    PROVE  EntriesInv' /\ Ending
<1>1. ChildInv /\ TurnInv /\ TableInv /\ WaitInv
    BY DEF EntriesInv
<1>2. res # NoAnswer /\ res' = NoAnswer /\ UNCHANGED <<infos, child, ctl>>
    BY DEF AppStep, appOnly
<1>3. cmd = NoCmd /\ app.step # 0 /\ app.prefix \in FilePrefixes
    BY <1>1, <1>2 DEF TurnInv
<1>4. TurnInv'
    <2>1. CASE Return
        BY <1>2, <1>3, <2>1 DEF Return, TurnInv, NoCall
    <2>2. ASSUME NEW s \in {2, 3, 4, 5}, NEW c, GoOn(s, c) PROVE TurnInv'
        <3>1. app = [op |-> app.op, prefix |-> app.prefix, pages |-> app.pages, step |-> app.step]
            BY <1>1 DEF TurnInv
        <3>2. app' = [op |-> app.op, prefix |-> app.prefix, pages |-> app.pages, step |-> s]
            BY <2>2, <3>1 DEF GoOn
        <3>3. app'.step = s /\ app'.prefix = app.prefix /\ s # 0
            BY <3>2
        <3>4. cmd'.prefix = app.prefix
            BY <2>2 DEF GoOn, Ask
        <3>5. app' = [op |-> app'.op, prefix |-> app'.prefix, pages |-> app'.pages, step |-> app'.step]
            BY <3>2
        <3> QED
            BY <1>2, <1>3, <3>3, <3>4, <3>5 DEF TurnInv
    <2>3. CASE app' = [NoCall EXCEPT !.op = "over"] /\ UNCHANGED cmd
        <3>1. app' = [op |-> "over", prefix |-> None, pages |-> NoPages, step |-> 0]
            BY <2>3 DEF NoCall
        <3>2. app' = [op |-> app'.op, prefix |-> app'.prefix, pages |-> app'.pages, step |-> app'.step]
            BY <3>1
        <3>3. app'.step = 0 /\ cmd' = NoCmd /\ res' = NoAnswer
            BY <1>2, <1>3, <2>3, <3>1
        <3> QED
            BY <3>2, <3>3 DEF TurnInv
    <2> QED
        BY <2>1, <2>2, <2>3, AppOutcomes
<1>5. WaitInv'
    BY <1>1, <1>2, <1>3 DEF WaitInv
<1>6. TableInv' /\ Ending /\ ChildInv'
    BY <1>1, <1>2, SameTable DEF ChildInv
<1> QED
    BY <1>4, <1>5, <1>6 DEF EntriesInv

LEMMA EntriesAppEnds ==
    ASSUME EntriesInv, AppEnds
    PROVE  EntriesInv' /\ Ending
<1>1. ChildInv /\ TurnInv /\ TableInv /\ WaitInv
    BY DEF EntriesInv
<1>2. /\ app = NoCall /\ app' = [NoCall EXCEPT !.op = "over"]
      /\ UNCHANGED <<infos, child, ctl, res, cmd>>
    BY DEF AppEnds, appOnly
<1>3. app.step = 0
    BY <1>2 DEF NoCall
<1>4. cmd = NoCmd /\ res = NoAnswer
    BY <1>1, <1>3 DEF TurnInv
<1>5. app' = [op |-> "over", prefix |-> None, pages |-> NoPages, step |-> 0]
    BY <1>2 DEF NoCall
<1>6. TurnInv'
    <2>1. /\ app' = [op |-> app'.op, prefix |-> app'.prefix, pages |-> app'.pages, step |-> app'.step]
          /\ app'.step = 0
        BY <1>5
    <2>2. cmd' = NoCmd /\ res' = NoAnswer
        BY <1>2, <1>4
    <2> QED
        BY <2>1, <2>2 DEF TurnInv
<1>7. WaitInv'
    BY <1>1, <1>2, <1>4 DEF WaitInv
<1>8. TableInv' /\ Ending /\ ChildInv'
    BY <1>1, <1>2, SameTable DEF ChildInv
<1> QED
    BY <1>6, <1>7, <1>8 DEF EntriesInv

LEMMA EntriesCall ==
    ASSUME EntriesInv, NEW op, NEW x \in FilePrefixes, NEW pages, Call(op, x, pages)
    PROVE  EntriesInv' /\ Ending
<1>1. ChildInv /\ TurnInv /\ TableInv /\ WaitInv
    BY DEF EntriesInv
<1>2. /\ app = NoCall /\ app' = [op |-> op, prefix |-> x, pages |-> pages, step |-> 1]
      /\ cmd' = [cmd |-> FirstCmd(op), prefix |-> x, pages |-> pages]
      /\ UNCHANGED <<infos, child, ctl, res>>
    BY DEF Call, Ask, appOnly
<1>3. app.step = 0
    BY <1>2 DEF NoCall
<1>4. cmd = NoCmd /\ res = NoAnswer
    BY <1>1, <1>3 DEF TurnInv
<1>5. TurnInv'
    BY <1>2, <1>4 DEF TurnInv
<1>6. WaitInv'
    BY <1>1, <1>2, <1>4 DEF WaitInv
<1>7. TableInv' /\ Ending /\ ChildInv'
    BY <1>1, <1>2, SameTable DEF ChildInv
<1> QED
    BY <1>5, <1>6, <1>7 DEF EntriesInv

\* A manager's steps but the report.
ChildOther(k) ==
    \/ \E up \in BOOLEAN : ChildInit(k, up)
    \/ ChildOpens(k) \/ ChildWrites(k) \/ CallbackEnds(k) \/ fpga_shmem_set_error_prefix(k)
    \/ NoticeAnswered(k) \/ NotifyFails(k)
    \/ ChildEnds(k) \/ ChildCannotOpen(k) \/ ChildKilled(k)

LEMMA ChildAges ==
    ASSUME ChildInv, NEW k \in Pids, ChildOther(k)
    PROVE  Aged(child')
<1>1. ASSUME NEW up \in BOOLEAN, ChildInit(k, up) PROVE Aged(child')
    <2>1. PICK d : d = [child EXCEPT ![k].st = "ready", ![k].up = up]
        OBVIOUS
    <2>2. PICK a : a = [child[k] EXCEPT !.st = "ready", !.up = up]
        OBVIOUS
    <2>3. a \in ChildRec /\ a.st = "ready" /\ a.prefix = child[k].prefix
        BY <2>2 DEF ChildInv, ChildRec, Alive
    <2>4. d = [child EXCEPT ![k] = a]
        BY <2>1, <2>2 DEF ChildInv
    <2>5. d \in [Pids -> ChildRec] /\ d[k] = a /\ \A j \in Pids : j # k => d[j] = child[j]
        BY <2>3, <2>4 DEF ChildInv
    <2>6. child[k].st = "forked"
        BY <1>1 DEF ChildInit
    <2>7. ASSUME NEW j \in Pids PROVE AgedOne(d, j)
        BY <2>3, <2>5, <2>6 DEF AgedOne, ChildInv, Alive, Ended, Over
    <2>8. Aged(d)
        BY <2>5, <2>7 DEF Aged
    <2> QED
        BY <1>1, <2>1, <2>8, AgedCut DEF ChildInit
<1>2. CASE ChildOpens(k)
    BY <1>2, AgedStep DEF ChildOpens, Becomes, Alive, Ended, Over
<1>3. CASE ChildWrites(k)
    BY <1>3, AgedStep DEF ChildWrites, Becomes, Alive, Ended, Over
<1>4. CASE CallbackEnds(k) \/ NotifyFails(k) \/ ChildEnds(k) \/ ChildCannotOpen(k)
    <2>1. PICK s \in {"exit0", "exitN"} : \E xs : child' = Cut(Became(k, s), xs)
        BY <1>4 DEF CallbackEnds, NotifyFails, ChildEnds, ChildCannotOpen, __remove_hugedir
    <2>2. child[k].st \in Alive
        BY <1>4 DEF CallbackEnds, NotifyFails, ChildEnds, ChildCannotOpen, Alive
    <2>3. s \in Alive \union Ended /\ s # "notify"
        BY <2>1 DEF Ended, Over
    <2>4. Aged(Became(k, s))
        BY <2>2, <2>3, AgedStep
    <2> QED
        BY <2>1, <2>4, AgedCut
<1>5. CASE fpga_shmem_set_error_prefix(k) \/ NoticeAnswered(k)
    BY <1>5, AgedStep DEF fpga_shmem_set_error_prefix, NoticeAnswered, Becomes, Alive, Ended, Over
<1>6. CASE ChildKilled(k)
    BY <1>6, AgedStep DEF ChildKilled, Becomes, Alive, Ended, Over
<1> QED
    BY <1>1, <1>2, <1>3, <1>4, <1>5, <1>6 DEF ChildOther

LEMMA ChildReports ==
    ASSUME ChildInv, NEW k \in Pids, CallbackReports(k)
    PROVE  /\ ChildInv' /\ child[k].prefix \in FilePrefixes
           /\ child'[k].st = "notify" /\ child'[k].prefix = child[k].prefix
           /\ \A j \in Pids : j # k => child'[j] = child[j]
<1>1. child[k].st = "loop" /\ child' = [child EXCEPT ![k].st = "notify", ![k].noticed = TRUE]
    BY DEF CallbackReports
<1>2. PICK a : a = [child[k] EXCEPT !.st = "notify", !.noticed = TRUE]
    OBVIOUS
<1>3. a \in ChildRec /\ a.st = "notify" /\ a.prefix = child[k].prefix
    BY <1>2 DEF ChildInv, ChildRec, Alive
<1>4. child' = [child EXCEPT ![k] = a]
    BY <1>1, <1>2 DEF ChildInv
<1>5. child' \in [Pids -> ChildRec] /\ child'[k] = a /\ \A j \in Pids : j # k => child'[j] = child[j]
    BY <1>3, <1>4 DEF ChildInv
<1>6. child[k].prefix \in FilePrefixes
    BY <1>1 DEF ChildInv, Alive
<1>7. ChildInv'
    BY <1>3, <1>5, <1>6 DEF ChildInv, ChildRec, Alive, Ended, Over
<1> QED
    BY <1>3, <1>5, <1>6, <1>7

LEMMA EntriesStill ==
    ASSUME EntriesInv, ChildInv', UNCHANGED <<infos, cmd, ctl, res, app>>
    PROVE  EntriesInv' /\ Ending
<1>1. TurnInv /\ TableInv /\ WaitInv
    BY DEF EntriesInv
<1>2. TurnInv' /\ WaitInv'
    BY <1>1 DEF TurnInv, WaitInv, Managed
<1>3. TableInv' /\ Ending
    BY <1>1, SameTable
<1> QED
    BY <1>2, <1>3 DEF EntriesInv

LEMMA ChildSplit ==
    ASSUME NEW k, ChildStep(k) \/ ChildCannotOpen(k) \/ ChildKilled(k)
    PROVE  (ChildOther(k) \/ CallbackReports(k)) /\ UNCHANGED childOnly
BY DEF ChildStep, ChildOther, ChildInit, ChildOpens, ChildWrites, CallbackReports, CallbackEnds,
       fpga_shmem_set_error_prefix, NoticeAnswered, NotifyFails, ChildEnds, ChildCannotOpen,
       ChildKilled

ClientStep(c) ==
    \/ \E x \in FilePrefixes : fpga_shmem_init(c, x)
    \/ __fpga_shmem_create_lock_file(c) \/ fpga_shmem_finish(c) \/ ClientDies(c)

LEMMA EntriesNext ==
    ASSUME EntriesInv, Next
    PROVE  EntriesInv' /\ Ending
<1>1. CASE Controller
    BY <1>1, EntriesController
<1>2. CASE AppStep \/ AppEnds
    BY <1>2, EntriesApp, EntriesAppEnds
<1>3. CASE \E op \in Ops, x \in FilePrefixes, pages \in Requests : Call(op, x, pages)
    BY <1>3, EntriesCall
<1>4. ASSUME NEW k \in Pids, ChildStep(k) \/ ChildCannotOpen(k) \/ ChildKilled(k)
      PROVE  EntriesInv' /\ Ending
    <2>1. UNCHANGED <<infos, cmd, ctl, res, app>>
        BY <1>4, ChildSplit DEF childOnly
    <2>2. ChildInv'
        BY <1>4, ChildSplit, ChildAges, ChildReports, AgedNext DEF EntriesInv
    <2> QED
        BY <2>1, <2>2, EntriesStill
<1>5. ASSUME NEW c \in Clients, ClientStep(c) PROVE EntriesInv' /\ Ending
    <2>1. UNCHANGED <<infos, child, cmd, ctl, res, app>>
        BY <1>5 DEF ClientStep, fpga_shmem_init, __fpga_shmem_create_lock_file, fpga_shmem_finish,
                    ClientDies, clientOnly
    <2>2. ChildInv'
        BY <2>1 DEF EntriesInv, ChildInv
    <2> QED
        BY <2>1, <2>2, EntriesStill
<1> QED
    BY <1>1, <1>2, <1>3, <1>4, <1>5 DEF Next, ClientStep

LEMMA EntriesInit == ASSUME Init PROVE EntriesInv
<1>1. TableInv
    <2>1. \A i \in Slots : infos[i] = Free
        BY DEF Init
    <2>2. infos = [i \in Slots |-> infos[i]]
        BY DEF Init
    <2> QED
        BY <2>1, <2>2, FreeEntry DEF TableInv, TableOK
<1>2. ChildInv
    <2>1. PICK a : a = [prefix |-> None, up |-> FALSE, flag |-> FALSE, noticed |-> FALSE, st |-> "unborn"]
        OBVIOUS
    <2>2. child = [k \in Pids |-> a]
        BY <2>1 DEF Init
    <2>3. a \in ChildRec /\ a.st = "unborn"
        BY <2>1 DEF ChildRec
    <2> QED
        BY <2>2, <2>3 DEF ChildInv, Alive
<1>3. TurnInv
    BY DEF Init, TurnInv, NoCall
<1>4. WaitInv
    BY DEF Init, WaitInv, Serving
<1> QED
    BY <1>1, <1>2, <1>3, <1>4 DEF EntriesInv

LEMMA EntriesStep ==
    ASSUME EntriesInv, [Next]_vars
    PROVE  EntriesInv' /\ Ending
<1>1. CASE Next
    BY <1>1, EntriesNext
<1>2. CASE UNCHANGED vars
    <2>1. UNCHANGED <<infos, child, cmd, ctl, res, app>>
        BY <1>2 DEF vars
    <2>2. ChildInv'
        BY <2>1 DEF EntriesInv, ChildInv
    <2> QED
        BY <2>1, <2>2, EntriesStill
<1> QED
    BY <1>1, <1>2

\* However managers are started, stopped, killed and forgotten, the controller
\* never has two entries for one prefix: fpga_shmem_manager_init() checks the
\* prefix before it forks, and no other request comes in until it has waited.
THEOREM PrefixHasOneEntry == Spec => []OneEntryPerPrefix
<1>1. EntriesInv => OneEntryPerPrefix
    BY DEF EntriesInv, TableInv, TableOK, OneEntryPerPrefix
<1>2. Init => EntriesInv
    BY EntriesInit
<1>3. EntriesInv /\ [Next]_vars => EntriesInv'
    BY EntriesStep
<1> QED
    BY <1>1, <1>2, <1>3, PTL DEF Spec

\* The table forgets a manager only when it has ended, whatever value the
\* status that waitpid() leaves unset happens to have.
THEOREM EntriesEndWithManagers == Spec => EntryEndsWithManager
<1>1. Init => EntriesInv
    BY EntriesInit
<1>2. EntriesInv /\ [Next]_vars => EntriesInv'
    BY EntriesStep
<1>3. EntriesInv /\ [Next]_vars =>
        [\A i \in Slots :
            infos[i].pid /= 0 /\ infos'[i] /= infos[i] => child'[infos[i].pid].st \notin Alive]_vars
    BY EntriesStep DEF Ending
<1> QED
    BY <1>1, <1>2, <1>3, PTL DEF Spec, EntryEndsWithManager

-----------------------------------------------------------------------------
(***************************************************************************)
(* The list of errors.                                                     *)
(***************************************************************************)
\* A lock file that nobody has written to is in use, or a user of the prefix
\* has died.
NoticeInv ==
    /\ errors \in Seq(blamed)
    /\ \A k \in Pids : child[k].st = "notify" => child[k].prefix \in blamed
    /\ lockf \in [FilePrefixes -> [there : BOOLEAN, written : BOOLEAN]]
    /\ client \in [Clients -> [prefix : FilePrefixes \union {None}, linked : BOOLEAN,
                               st : {"none", "opened", "locked"}]]
    /\ \A x \in FilePrefixes :
          lockf[x].there /\ ~ lockf[x].written => x \in blamed \/ Users(x) # {}

\* What a step does to the lock files, if its only use of them is to remove some.
FilesStep ==
    \/ UNCHANGED <<lockf, client>>
    \/ \E xs : lockf' = UnlinkLock(lockf, xs) /\ client' = Unlinked(client, xs)

LEMMA NoticeFiles ==
    ASSUME NoticeInv, FilesStep, blamed' = blamed, errors' \in Seq(blamed),
           \A k \in Pids : child'[k].st = "notify" => child'[k].prefix \in blamed
    PROVE  NoticeInv'
<1>1. CASE UNCHANGED <<lockf, client>>
    BY <1>1 DEF NoticeInv, Users
<1>2. ASSUME NEW xs, lockf' = UnlinkLock(lockf, xs), client' = Unlinked(client, xs)
      PROVE  NoticeInv'
    <2>1. ASSUME NEW x \in FilePrefixes
          PROVE  lockf'[x] = IF x \in xs THEN NoFile ELSE lockf[x]
        BY <1>2 DEF UnlinkLock
    <2>2. lockf' \in [FilePrefixes -> [there : BOOLEAN, written : BOOLEAN]]
        BY <1>2, <2>1 DEF NoticeInv, UnlinkLock, NoFile
    <2>3. ASSUME NEW c \in Clients
          PROVE  /\ client'[c] \in [prefix : FilePrefixes \union {None}, linked : BOOLEAN,
                                    st : {"none", "opened", "locked"}]
                 /\ client'[c].prefix = client[c].prefix
                 /\ client[c].prefix \notin xs => client'[c] = client[c]
        <3>1. PICK a : a = client[c]
            OBVIOUS
        <3>2. a \in [prefix : FilePrefixes \union {None}, linked : BOOLEAN,
                     st : {"none", "opened", "locked"}]
            BY <3>1 DEF NoticeInv
        <3>3. client'[c] = IF a.prefix \in xs THEN [a EXCEPT !.linked = FALSE] ELSE a
            BY <1>2, <3>1 DEF Unlinked
        <3>4. CASE a.prefix \in xs
            BY <3>1, <3>2, <3>3, <3>4
        <3>5. CASE a.prefix \notin xs
            BY <3>1, <3>2, <3>3, <3>5
        <3> QED
            BY <3>4, <3>5
    <2>4. client' \in [Clients -> [prefix : FilePrefixes \union {None}, linked : BOOLEAN,
                                   st : {"none", "opened", "locked"}]]
        BY <1>2, <2>3 DEF Unlinked
    <2>5. ASSUME NEW x \in FilePrefixes, lockf'[x].there, ~ lockf'[x].written
          PROVE  x \in blamed \/ Users(x)' # {}
        <3>1. x \notin xs /\ lockf'[x] = lockf[x]
            BY <2>1, <2>5 DEF NoFile
        <3>2. \A c \in Users(x) : c \in Users(x)'
            BY <2>3, <3>1 DEF Users
        <3> QED
            BY <2>5, <3>1, <3>2 DEF NoticeInv
    <2> QED
        BY <2>2, <2>4, <2>5 DEF NoticeInv, Users
<1> QED
    BY <1>1, <1>2 DEF FilesStep

LEMMA NoticeAged ==
    ASSUME NoticeInv, FilesStep, Aged(child'), blamed' = blamed, errors' \in Seq(blamed)
    PROVE  NoticeInv'
<1>1. \A k \in Pids : child'[k].st = "notify" => child'[k].prefix \in blamed
    BY DEF Aged, AgedOne, NoticeInv
<1> QED
    BY <1>1, NoticeFiles

LEMMA NoticeController ==
    ASSUME EntriesInv, NoticeInv, Controller
    PROVE  NoticeInv'
<1>1. ChildInv /\ errors \in Seq(blamed)
    BY DEF EntriesInv, NoticeInv
<1>2. ASSUME NEW g \in Garbage,
             StartRefused(g) \/ StartNoFork(g) \/ GetManagerPid(g) \/ FinishDone(g) \/ FinishTimeout(g)
      PROVE  NoticeInv'
    <2>1. __fpga_shmem_check_health(g) /\ UNCHANGED <<errors, blamed>>
        BY <1>2 DEF StartRefused, StartNoFork, GetManagerPid, FinishDone, FinishTimeout
    <2>2. FilesStep /\ child' = Cut(Reaped, Cleaned(g))
        BY <2>1 DEF __fpga_shmem_check_health, __remove_hugedir, FilesStep
    <2>3. Aged(child')
        BY <1>1, <2>2, AgedReaped, AgedCut
    <2> QED
        BY <1>1, <2>1, <2>2, <2>3, NoticeAged
<1>3. ASSUME NEW g \in Garbage, NEW k \in Pids, StartForks(g, k) PROVE NoticeInv'
    <2>1. /\ FilesStep /\ UNCHANGED <<errors, blamed>> /\ child[k].st = "unborn"
          /\ child' = Cut(Forked(Reaped, k, cmd.prefix), Cleaned(g))
        BY <1>3 DEF StartForks, __remove_hugedir, FilesStep, Forked
    <2>2. cmd.prefix \in FilePrefixes
        BY DEF Controller, EntriesInv, TurnInv
    <2>3. Aged(child')
        BY <1>1, <2>1, <2>2, AgedReaped, AgedForked, AgedCut
    <2> QED
        BY <1>1, <2>1, <2>3, NoticeAged
<1>4. ASSUME NEW g \in Garbage, ParentReads(g) PROVE NoticeInv'
    <2>1. /\ FilesStep /\ UNCHANGED <<errors, blamed>>
          /\ child' = Cut(Reaped, Cleaned(g) \union {cmd.prefix})
        BY <1>4 DEF ParentReads, FilesStep
    <2>2. Aged(child')
        BY <1>1, <2>1, AgedReaped, AgedCut
    <2> QED
        BY <1>1, <2>1, <2>2, NoticeAged
<1>5. CASE ParentGivesUp
    BY <1>1, <1>5, AgedSame, AgedCut, NoticeAged DEF ParentGivesUp, FilesStep
<1>6. CASE ParentTimeout
    BY <1>1, <1>6, AgedSame, NoticeAged DEF ParentTimeout, FilesStep
<1>7. CASE Stop
    BY <1>1, <1>7, AgedSignalled, NoticeAged DEF Stop, FilesStep
<1>8. CASE FinishAll
    BY <1>1, <1>8, AgedSignalled, NoticeAged DEF FinishAll, FilesStep
<1> QED
    BY <1>2, <1>3, <1>4, <1>5, <1>6, <1>7, <1>8 DEF Controller

LEMMA GreatestIndex ==
    ASSUME NEW s, NEW S, s \in Seq(S), NEW I, I \subseteq DOMAIN s, I # {}
    PROVE  Max(I) \in I
<1>1. PICK n : n = Len(s)
    OBVIOUS
<1>2. n \in Nat /\ \A i \in I : i \in Nat /\ i <= n
    BY <1>1
<1>3. PICK T : T = {n - i : i \in I}
    OBVIOUS
<1>4. (\A t \in T : t \in Nat) /\ T # {}
    BY <1>2, <1>3
<1>5. PICK t \in T : \A u \in T : t <= u
    BY <1>4, LeastOf
<1>6. PICK m \in I : t = n - m
    BY <1>3, <1>5
<1>7. ASSUME NEW i \in I PROVE m >= i
    <2>1. n - i \in T
        BY <1>3
    <2>2. t <= n - i
        BY <1>5, <2>1
    <2> QED
        BY <1>2, <1>6, <2>2
<1> QED
    BY <1>6, <1>7 DEF Max

LEMMA RemovedSeq ==
    ASSUME NEW S, NEW s \in Seq(S), NEW i \in 1 .. Len(s)
    PROVE  RemoveAt(s, i) \in Seq(S)
<1>1. Len(s) \in Nat /\ i \in Nat /\ i - 1 \in Int /\ i - 1 <= Len(s)
    OBVIOUS
<1>2. SubSeq(s, 1, i - 1) \in Seq(S)
    BY <1>1, SubSeqProperties
<1>3. SubSeq(s, i + 1, Len(s)) \in Seq(S)
    BY <1>1, SubSeqProperties
<1> QED
    BY <1>2, <1>3, ConcatProperties DEF RemoveAt

LEMMA NoticeApp ==
    ASSUME EntriesInv, NoticeInv, AppStep
    PROVE  NoticeInv'
<1>1. ChildInv /\ errors \in Seq(blamed)
    BY DEF EntriesInv, NoticeInv
<1>2. FilesStep /\ UNCHANGED <<child, blamed>>
    BY DEF AppStep, appOnly, FilesStep
<1>3. errors' \in Seq(blamed)
    <2>1. \/ errors' = errors
          \/ InError /\ errors' = RemoveAt(errors, LastIndex(app.prefix))
        BY DEF AppStep, SimpleReturns, EnabledOnce, EnableChecks, DisableChecks, Stopped, AfterStop,
               fpga_shmem_delete_error_prefix
    <2>2. CASE InError /\ errors' = RemoveAt(errors, LastIndex(app.prefix))
        <3>1. PICK I : I = {i \in DOMAIN errors : errors[i] = app.prefix}
            OBVIOUS
        <3>2. I \subseteq DOMAIN errors /\ I # {}
            BY <2>2, <3>1 DEF InError, Range
        <3>3. LastIndex(app.prefix) \in DOMAIN errors
            BY <1>1, <3>1, <3>2, GreatestIndex DEF LastIndex
        <3>4. DOMAIN errors = 1 .. Len(errors)
            BY <1>1
        <3> QED
            BY <1>1, <2>2, <3>3, <3>4, RemovedSeq
    <2> QED
        BY <1>1, <2>1, <2>2
<1> QED
    BY <1>1, <1>2, <1>3, AgedSame, NoticeAged

LEMMA NoticeChild ==
    ASSUME ChildInv, NoticeInv, NEW k \in Pids, ChildOther(k)
    PROVE  NoticeInv'
<1>1. Aged(child') /\ errors \in Seq(blamed)
    BY ChildAges DEF NoticeInv
<1>2. blamed' = blamed /\ FilesStep
    BY DEF ChildOther, ChildInit, ChildOpens, ChildWrites, CallbackEnds, fpga_shmem_set_error_prefix,
           NoticeAnswered, NotifyFails, ChildEnds, ChildCannotOpen,
       ChildKilled, __remove_hugedir, FilesStep
<1>3. errors' \in Seq(blamed)
    <2>1. CASE fpga_shmem_set_error_prefix(k)
        <3>1. errors' = Append(errors, child[k].prefix) /\ child[k].prefix \in blamed
            BY <2>1 DEF fpga_shmem_set_error_prefix, NoticeInv
        <3> QED
            BY <1>1, <3>1, AppendProperties
    <2>2. CASE ~ fpga_shmem_set_error_prefix(k)
        BY <1>1, <2>2 DEF ChildOther, ChildInit, ChildOpens, ChildWrites, CallbackEnds,
                          NoticeAnswered, NotifyFails, ChildEnds, ChildCannotOpen,
       ChildKilled
    <2> QED
        BY <2>1, <2>2
<1> QED
    BY <1>1, <1>2, <1>3, NoticeAged

\* More prefixes may be blamed.
LEMMA SeqGrows ==
    ASSUME NEW S, NEW T, S \subseteq T, NEW s \in Seq(S)
    PROVE  s \in Seq(T)
OBVIOUS

\* The callback finds the file unheld and not written to: a process is between
\* opening and locking it, or one has died.
LEMMA NoticeReports ==
    ASSUME ChildInv, NoticeInv, NEW k \in Pids, CallbackReports(k)
    PROVE  NoticeInv'
<1>1. PICK x : x = child[k].prefix
    OBVIOUS
<1>2. /\ x \in FilePrefixes /\ child'[k].st = "notify" /\ child'[k].prefix = x
      /\ \A j \in Pids : j # k => child'[j] = child[j]
    BY <1>1, ChildReports
<1>3. /\ blamed' = IF Users(x) # {} THEN blamed \union {x} ELSE blamed
      /\ lockf[x].there /\ ~ lockf[x].written /\ UNCHANGED <<lockf, client, errors>>
    BY <1>1 DEF CallbackReports, Reports, Unheld
<1>4. blamed \subseteq blamed' /\ x \in blamed'
    BY <1>2, <1>3 DEF NoticeInv
<1>5. errors' \in Seq(blamed')
    BY <1>3, <1>4, SeqGrows DEF NoticeInv
<1>6. \A j \in Pids : child'[j].st = "notify" => child'[j].prefix \in blamed'
    BY <1>2, <1>4 DEF NoticeInv
<1>7. \A y \in FilePrefixes :
          lockf'[y].there /\ ~ lockf'[y].written => y \in blamed' \/ Users(y)' # {}
    BY <1>3, <1>4 DEF NoticeInv, Users
<1> QED
    BY <1>3, <1>5, <1>6, <1>7 DEF NoticeInv, Users

ClientRec == [prefix : FilePrefixes \union {None}, linked : BOOLEAN, st : {"none", "opened", "locked"}]

LEMMA NoticeClient ==
    ASSUME NoticeInv, NEW c \in Clients, ClientStep(c)
    PROVE  NoticeInv'
<1>1. /\ errors \in Seq(blamed) /\ lockf \in [FilePrefixes -> [there : BOOLEAN, written : BOOLEAN]]
      /\ client \in [Clients -> ClientRec]
      /\ \A k \in Pids : child[k].st = "notify" => child[k].prefix \in blamed
      /\ \A x \in FilePrefixes :
            lockf[x].there /\ ~ lockf[x].written => x \in blamed \/ Users(x) # {}
    BY DEF NoticeInv, ClientRec
<1>2. UNCHANGED <<child, errors>>
    BY DEF ClientStep, fpga_shmem_init, __fpga_shmem_create_lock_file, fpga_shmem_finish,
           ClientDies, clientOnly
<1>3. Detached \in ClientRec /\ ~ Detached.linked
    BY DEF ClientRec, Detached
<1>4. ASSUME NEW n \in ClientRec, client' = [client EXCEPT ![c] = n],
             lockf' \in [FilePrefixes -> [there : BOOLEAN, written : BOOLEAN]], blamed \subseteq blamed',
             \A x \in FilePrefixes : lockf'[x].there /\ ~ lockf'[x].written =>
                 \/ x \in blamed'
                 \/ n.prefix = x /\ n.linked
                 \/ /\ lockf[x].there /\ ~ lockf[x].written
                    /\ ~ (client[c].prefix = x /\ client[c].linked)
      PROVE  NoticeInv'
    <2>1. /\ client' \in [Clients -> ClientRec] /\ client'[c] = n
          /\ \A d \in Clients : d # c => client'[d] = client[d]
        BY <1>1, <1>4
    <2>2. ASSUME NEW x \in FilePrefixes, lockf'[x].there, ~ lockf'[x].written
          PROVE  x \in blamed' \/ Users(x)' # {}
        <3>1. CASE n.prefix = x /\ n.linked
            <4>1. c \in Users(x)'
                BY <2>1, <3>1 DEF Users
            <4> QED
                BY <4>1
        <3>2. CASE /\ lockf[x].there /\ ~ lockf[x].written
                   /\ ~ (client[c].prefix = x /\ client[c].linked)
            <4>1. x \in blamed \/ Users(x) # {}
                BY <1>1, <3>2
            <4>2. \A d \in Users(x) : d \in Users(x)'
                BY <2>1, <3>2 DEF Users
            <4> QED
                BY <1>4, <4>1, <4>2
        <3> QED
            BY <1>4, <2>2, <3>1, <3>2
    <2>3. errors' \in Seq(blamed')
        BY <1>1, <1>2, <1>4, SeqGrows
    <2>4. \A k \in Pids : child'[k].st = "notify" => child'[k].prefix \in blamed'
        BY <1>1, <1>2, <1>4
    <2> QED
        BY <1>4, <2>1, <2>2, <2>3, <2>4 DEF NoticeInv, ClientRec, Users
<1>5. PICK a : a = client[c]
    OBVIOUS
<1>6. a \in ClientRec
    BY <1>1, <1>5
<1>7. ASSUME NEW x \in FilePrefixes, fpga_shmem_init(c, x) PROVE NoticeInv'
    <2>1. PICK n : n = [prefix |-> x, st |-> "opened", linked |-> TRUE]
        OBVIOUS
    <2>2. n \in ClientRec /\ n.prefix = x /\ n.linked
        BY <2>1 DEF ClientRec
    <2>3. /\ client' = [client EXCEPT ![c] = n] /\ blamed' = blamed /\ a = Detached
          /\ lockf' = [lockf EXCEPT ![x].there = TRUE]
        BY <1>5, <1>7, <2>1 DEF fpga_shmem_init
    <2>4. /\ lockf' \in [FilePrefixes -> [there : BOOLEAN, written : BOOLEAN]]
          /\ \A y \in FilePrefixes : y # x => lockf'[y] = lockf[y]
        BY <1>1, <2>3
    <2>5. \A y \in FilePrefixes : lockf'[y].there /\ ~ lockf'[y].written =>
              \/ n.prefix = y /\ n.linked
              \/ /\ lockf[y].there /\ ~ lockf[y].written
                 /\ ~ (client[c].prefix = y /\ client[c].linked)
        BY <1>3, <1>5, <2>2, <2>3, <2>4
    <2> QED
        BY <1>4, <2>2, <2>3, <2>4, <2>5
<1>8. CASE __fpga_shmem_create_lock_file(c)
    <2>1. PICK n : n = [a EXCEPT !.st = "locked"]
        OBVIOUS
    <2>2. n \in ClientRec /\ n.prefix = a.prefix /\ n.linked = a.linked
        BY <1>6, <2>1 DEF ClientRec
    <2>3. client' = [client EXCEPT ![c] = n] /\ blamed' = blamed /\ lockf' = lockf
        BY <1>1, <1>5, <1>8, <2>1 DEF __fpga_shmem_create_lock_file
    <2> QED
        BY <1>1, <1>4, <1>5, <2>2, <2>3
<1>9. CASE fpga_shmem_finish(c)
    <2>1. /\ client' = [client EXCEPT ![c] = Detached] /\ blamed' = blamed
          /\ lockf' = IF a.linked THEN [lockf EXCEPT ![a.prefix].written = TRUE] ELSE lockf
        BY <1>5, <1>9 DEF fpga_shmem_finish
    <2>2. /\ lockf' \in [FilePrefixes -> [there : BOOLEAN, written : BOOLEAN]]
          /\ \A y \in FilePrefixes : /\ y # a.prefix \/ ~ a.linked => lockf'[y] = lockf[y]
                                     /\ y = a.prefix /\ a.linked => lockf'[y].written
        BY <1>1, <2>1
    <2>3. \A y \in FilePrefixes : lockf'[y].there /\ ~ lockf'[y].written =>
              /\ lockf[y].there /\ ~ lockf[y].written
              /\ ~ (client[c].prefix = y /\ client[c].linked)
        BY <1>5, <2>2
    <2> QED
        BY <1>3, <1>4, <2>1, <2>2, <2>3
<1>10. CASE ClientDies(c)
    <2>1. /\ client' = [client EXCEPT ![c] = Detached] /\ blamed' = blamed \union {a.prefix}
          /\ lockf' = lockf
        BY <1>5, <1>10 DEF ClientDies
    <2> QED
        BY <1>1, <1>3, <1>4, <1>5, <2>1
<1> QED
    BY <1>7, <1>8, <1>9, <1>10 DEF ClientStep

LEMMA NoticeInit == ASSUME Init PROVE NoticeInv
<1>1. errors \in Seq(blamed)
    BY DEF Init
<1>2. \A k \in Pids : child[k].st = "unborn"
    <2>1. \A k \in Pids : child[k] = [prefix |-> None, up |-> FALSE, flag |-> FALSE,
                                      noticed |-> FALSE, st |-> "unborn"]
        BY DEF Init
    <2> QED
        BY <2>1
<1>3. /\ NoFile \in [there : BOOLEAN, written : BOOLEAN] /\ ~ NoFile.there
      /\ Detached \in [prefix : FilePrefixes \union {None}, linked : BOOLEAN,
                       st : {"none", "opened", "locked"}]
    BY DEF NoFile, Detached
<1>4. lockf = [x \in FilePrefixes |-> NoFile] /\ client = [c \in Clients |-> Detached]
    BY DEF Init
<1> QED
    BY <1>1, <1>2, <1>3, <1>4 DEF NoticeInv

LEMMA NoticeStep ==
    ASSUME EntriesInv, NoticeInv, [Next]_vars
    PROVE  NoticeInv'
<1>1. CASE Controller
    BY <1>1, NoticeController
<1>2. CASE AppStep
    BY <1>2, NoticeApp
<1>7. CASE AppEnds
    <2>1. UNCHANGED <<child, lockf, client, errors, blamed>>
        BY <1>7 DEF AppEnds, appOnly
    <2> QED
        BY <2>1 DEF NoticeInv, Users
<1>3. CASE \E op \in Ops, x \in FilePrefixes, pages \in Requests : Call(op, x, pages)
    <2>1. UNCHANGED <<child, lockf, client, errors, blamed>>
        BY <1>3 DEF Call, appOnly
    <2> QED
        BY <2>1 DEF NoticeInv, Users
<1>4. ASSUME NEW k \in Pids, ChildStep(k) \/ ChildCannotOpen(k) \/ ChildKilled(k)
      PROVE  NoticeInv'
    BY <1>4, ChildSplit, NoticeChild, NoticeReports DEF EntriesInv
<1>5. ASSUME NEW c \in Clients, ClientStep(c) PROVE NoticeInv'
    BY <1>5, NoticeClient
<1>6. CASE UNCHANGED vars
    <2>1. UNCHANGED <<child, lockf, client, errors, blamed>>
        BY <1>6 DEF vars
    <2> QED
        BY <2>1 DEF NoticeInv, Users
<1> QED
    BY <1>1, <1>2, <1>3, <1>4, <1>5, <1>6, <1>7 DEF Next, ClientStep

\* A prefix is reported to the application only if a process using it has died,
\* or had opened the lock file and not yet locked it: fpga_shmem_finish() writes
\* to the file before it lets go of it, so one that ends well is never reported.
THEOREM NoticesSpareFinished == Spec => []NoticeSparesFinished
<1>1. Init => EntriesInv /\ NoticeInv
    BY EntriesInit, NoticeInit
<1>2. EntriesInv /\ NoticeInv /\ [Next]_vars => (EntriesInv /\ NoticeInv)'
    BY EntriesStep, NoticeStep
<1>3. NoticeInv => NoticeSparesFinished
    <2> SUFFICES ASSUME errors \in Seq(blamed) PROVE Range(errors) \subseteq blamed
        BY DEF NoticeInv, NoticeSparesFinished
    <2>1. \A i \in DOMAIN errors : errors[i] \in blamed
        OBVIOUS
    <2> QED
        BY <2>1 DEF Range
<1> QED
    BY <1>1, <1>2, <1>3, PTL DEF Spec
-----------------------------------------------------------------------------
(***************************************************************************)
(* The pages.                                                              *)
(***************************************************************************)
\* The first n numbers.
LEMMA UpTo ==
    ASSUME NEW n \in Nat
    PROVE  IsFiniteSet(1 .. n) /\ Cardinality(1 .. n) = n
<1>1. 1 \in Int /\ n \in Int
    OBVIOUS
<1>2. IsFiniteSet(1 .. n) /\ Cardinality(1 .. n) = IF 1 > n THEN 0 ELSE n - 1 + 1
    BY <1>1, FS_Interval
<1> QED
    BY <1>2

\* A sum of finitely many numbers is a number.
LEMMA SumFinite ==
    ASSUME NEW S, IsFiniteSet(S), NEW f, \A x \in S : f[x] \in Nat
    PROVE  IsFiniteSet(Units(f, S)) /\ SumOf(f, S) \in Nat
<1>1. PICK T : T = {{x} \X (1 .. f[x]) : x \in S}
    OBVIOUS
<1>2. PICK h : h = [x \in S |-> {x} \X (1 .. f[x])]
    OBVIOUS
<1>3. h \in Surjection(S, T)
    BY <1>1, <1>2 DEF Surjection
<1>4. IsFiniteSet(T)
    BY <1>3, FS_Surjection
<1>5. ASSUME NEW x \in S PROVE IsFiniteSet({x} \X (1 .. f[x]))
    <2>1. PICK U, V : U = {x} /\ V = 1 .. f[x]
        OBVIOUS
    <2>2. IsFiniteSet(U) /\ IsFiniteSet(V)
        BY <2>1, FS_Singleton, UpTo
    <2>3. IsFiniteSet(U \X V)
        BY <2>2, FS_Product
    <2> QED
        BY <2>1, <2>3
<1>6. \A U \in T : IsFiniteSet(U)
    BY <1>1, <1>5
<1>7. IsFiniteSet(UNION T)
    BY <1>4, <1>6, FS_UNION
<1> QED
    BY <1>1, <1>7, FS_CardinalityType DEF Units, SumOf

\* A sum with one number taken anew is no more than the old sum and that number.
LEMMA SumReplaced ==
    ASSUME NEW S, IsFiniteSet(S), NEW f, \A x \in S : f[x] \in Nat, NEW y \in S,
           NEW g, \A x \in S : g[x] \in Nat /\ (x # y => g[x] <= f[x])
    PROVE  SumOf(g, S) <= SumOf(f, S) + g[y]
<1>1. PICK A, B, C : A = Units(f, S) /\ B = {y} \X (1 .. g[y]) /\ C = Units(g, S)
    OBVIOUS
<1>2. IsFiniteSet(A) /\ Cardinality(A) \in Nat /\ Cardinality(A) = SumOf(f, S)
    BY <1>1, SumFinite DEF SumOf
<1>3. IsFiniteSet(B) /\ Cardinality(B) = g[y]
    <2>1. IsFiniteSet({y}) /\ Cardinality({y}) = 1
        BY FS_Singleton
    <2>2. IsFiniteSet(1 .. g[y]) /\ Cardinality(1 .. g[y]) = g[y]
        BY UpTo
    <2>3. PICK U, V : U = {y} /\ V = 1 .. g[y]
        OBVIOUS
    <2>4. IsFiniteSet(U) /\ IsFiniteSet(V)
        BY <2>1, <2>2, <2>3
    <2>5. IsFiniteSet(U \X V) /\ Cardinality(U \X V) = Cardinality(U) * Cardinality(V)
        BY <2>4, FS_Product
    <2>6. B = U \X V /\ Cardinality(U) = 1 /\ Cardinality(V) = g[y]
        BY <1>1, <2>1, <2>2, <2>3
    <2> QED
        BY <2>5, <2>6
<1>4. C \subseteq A \cup B
    <2> SUFFICES ASSUME NEW e \in C PROVE e \in A \cup B
        OBVIOUS
    <2>1. PICK x \in S : e \in {x} \X (1 .. g[x])
        BY <1>1 DEF Units
    <2>2. CASE x = y
        BY <1>1, <2>1, <2>2
    <2>3. CASE x # y
        <3>1. g[x] <= f[x] /\ g[x] \in Nat /\ f[x] \in Nat
            BY <2>3
        <3>2. PICK n \in 1 .. g[x] : e = <<x, n>>
            BY <2>1
        <3>3. n \in 1 .. f[x]
            BY <3>1, <3>2
        <3>4. e \in {x} \X (1 .. f[x])
            BY <3>2, <3>3
        <3> QED
            BY <1>1, <3>4 DEF Units
    <2> QED
        BY <2>2, <2>3
<1>5. IsFiniteSet(A \cup B) /\ Cardinality(A \cup B) <= Cardinality(A) + Cardinality(B)
    <2>1. /\ IsFiniteSet(A \cup B)
          /\ Cardinality(A \cup B) = Cardinality(A) + Cardinality(B) - Cardinality(A \cap B)
        BY <1>2, <1>3, FS_Union
    <2>2. Cardinality(A \cap B) \in Nat
        BY <1>2, FS_Intersection, FS_CardinalityType
    <2> QED
        BY <1>2, <1>3, <2>1, <2>2
<1>6. Cardinality(C) <= Cardinality(A \cup B)
    BY <1>4, <1>5, FS_Subset
<1>7. Cardinality(C) \in Nat /\ Cardinality(A \cup B) \in Nat
    BY <1>4, <1>5, FS_Subset, FS_CardinalityType
<1> QED
    BY <1>1, <1>2, <1>3, <1>5, <1>6, <1>7 DEF SumOf

\* A sum of smaller numbers is no more.
LEMMA SumSmaller ==
    ASSUME NEW S, IsFiniteSet(S), NEW f, \A x \in S : f[x] \in Nat,
           NEW g, \A x \in S : g[x] \in Nat /\ g[x] <= f[x]
    PROVE  SumOf(g, S) <= SumOf(f, S)
<1>1. Units(g, S) \subseteq Units(f, S)
    <2> SUFFICES ASSUME NEW e \in Units(g, S) PROVE e \in Units(f, S)
        OBVIOUS
    <2>1. PICK x \in S : e \in {x} \X (1 .. g[x])
        BY DEF Units
    <2>2. PICK n \in 1 .. g[x] : e = <<x, n>>
        BY <2>1
    <2>3. n \in 1 .. f[x]
        BY <2>2
    <2>4. e \in {x} \X (1 .. f[x])
        BY <2>2, <2>3
    <2> QED
        BY <2>4 DEF Units
<1>2. IsFiniteSet(Units(f, S))
    BY SumFinite
<1> QED
    BY <1>1, <1>2, FS_Subset DEF SumOf

Paged(t) == \A i \in Slots : t[i].pages \in [Sockets -> Nat]

\* What the table holds leaves room for more pages on each socket.
Room(t, pages) == \A s \in Sockets : SocketSum(t, s) <= Limit[s] - pages[s]

\* The pages of the request under way have been looked at before the fork, and
\* are still left when the manager has come up.
PagesInv ==
    /\ cmd.pages \in [Sockets -> Nat] /\ app.pages \in [Sockets -> Nat]
    /\ Paged(infos) /\ Room(infos, NoPages)
    /\ ctl.st = "wait" => Room(infos, cmd.pages)

\* The table has finitely many entries.
LEMMA SlotsFinite == IsFiniteSet(Slots)
<1>1. TableSize \in Nat
    BY SumFinite, ShmemAssumption DEF TableSize
<1> QED
    BY <1>1, FS_Interval DEF Slots

\* Nobody holds pages at first.
LEMMA NoPagesAreNumbers == NoPages \in [Sockets -> Nat] /\ Free.pages = NoPages
BY DEF NoPages, Free

\* What is held of a socket is a number.
LEMMA SocketSumNumber ==
    ASSUME NEW t, Paged(t), NEW s \in Sockets
    PROVE  SocketSum(t, s) \in Nat
<1>1. PICK f : f = [i \in Slots |-> t[i].pages[s]]
    OBVIOUS
<1>2. \A i \in Slots : f[i] \in Nat
    BY <1>1 DEF Paged
<1> QED
    BY <1>1, <1>2, SlotsFinite, SumFinite DEF SocketSum

\* The check of health only gives pages back.
LEMMA HealthyPages ==
    ASSUME TableInv, ChildInv, Paged(infos), NEW g \in Garbage
    PROVE  /\ Paged(Healthy(g))
           /\ \A s \in Sockets : SocketSum(Healthy(g), s) <= SocketSum(infos, s)
<1>1. PICK t : t = Healthy(g)
    OBVIOUS
<1>2. \A i \in Slots : t[i] = infos[i] \/ t[i] = Free
    BY <1>1, HealthyTable
<1>3. Paged(t)
    BY <1>2, NoPagesAreNumbers DEF Paged
<1>4. ASSUME NEW s \in Sockets PROVE SocketSum(t, s) <= SocketSum(infos, s)
    <2>1. PICK f, h : f = [i \in Slots |-> infos[i].pages[s]] /\ h = [i \in Slots |-> t[i].pages[s]]
        OBVIOUS
    <2>2. Free.pages[s] = 0
        BY DEF Free, NoPages
    <2>3. \A i \in Slots : f[i] \in Nat
        BY <2>1 DEF Paged
    <2>4. \A i \in Slots : h[i] = f[i] \/ h[i] = 0
        BY <1>2, <2>1, <2>2
    <2>5. \A i \in Slots : h[i] \in Nat /\ h[i] <= f[i]
        BY <2>3, <2>4
    <2>6. SumOf(h, Slots) <= SumOf(f, Slots)
        BY <2>3, <2>5, SlotsFinite, SumSmaller
    <2> QED
        BY <2>1, <2>6 DEF SocketSum
<1> QED
    BY <1>1, <1>3, <1>4

\* Room stays when the check of health has been made.
LEMMA HealthyRoom ==
    ASSUME TableInv, ChildInv, Paged(infos), NEW g \in Garbage, NEW pages \in [Sockets -> Nat],
           Room(infos, pages)
    PROVE  Paged(Healthy(g)) /\ Room(Healthy(g), pages)
<1>1. PICK t : t = Healthy(g)
    OBVIOUS
<1>2. Paged(t) /\ \A s \in Sockets : SocketSum(t, s) <= SocketSum(infos, s)
    BY <1>1, HealthyPages
<1>3. ASSUME NEW s \in Sockets PROVE SocketSum(t, s) <= Limit[s] - pages[s]
    <2>1. SocketSum(t, s) \in Nat /\ SocketSum(infos, s) \in Nat /\ Limit[s] \in Nat /\ pages[s] \in Nat
        BY <1>2, SocketSumNumber, ShmemAssumption
    <2>2. SocketSum(infos, s) <= Limit[s] - pages[s]
        BY DEF Room
    <2> QED
        BY <1>2, <2>1, <2>2
<1> QED
    BY <1>1, <1>2, <1>3 DEF Room

\* A step that makes the check of health and gives no entry.
LEMMA PagesHealth ==
    ASSUME EntriesInv, PagesInv, NEW g \in Garbage, infos' = Healthy(g), app' = app,
           cmd' = cmd \/ cmd' = NoCmd, ctl'.st = "wait" => cmd' = cmd /\ Room(Healthy(g), cmd.pages)
    PROVE  PagesInv'
<1>1. Paged(Healthy(g)) /\ Room(Healthy(g), NoPages)
    BY HealthyRoom, NoPagesAreNumbers DEF EntriesInv, PagesInv
<1>2. Paged(infos') /\ Room(infos', NoPages) /\ (ctl'.st = "wait" => Room(infos', cmd'.pages))
    BY <1>1
<1>3. cmd'.pages \in [Sockets -> Nat] /\ app'.pages \in [Sockets -> Nat]
    BY NoPagesAreNumbers DEF PagesInv, NoCmd
<1> QED
    BY <1>2, <1>3 DEF PagesInv, Paged, Room, SocketSum

\* A step that leaves the table alone.
LEMMA PagesStill ==
    ASSUME PagesInv, infos' = infos, cmd'.pages \in [Sockets -> Nat], app'.pages \in [Sockets -> Nat],
           ctl'.st = "wait" => ctl.st = "wait" /\ cmd' = cmd
    PROVE  PagesInv'
<1>1. Paged(infos') /\ Room(infos', NoPages) /\ (ctl'.st = "wait" => Room(infos', cmd'.pages))
    BY DEF PagesInv
<1> QED
    BY <1>1 DEF PagesInv, Paged, Room, SocketSum

\* The check for memory is what lets the controller fork and wait.
LEMMA PagesStartForks ==
    ASSUME EntriesInv, PagesInv, NEW g \in Garbage, NEW k \in Pids, StartForks(g, k)
    PROVE  PagesInv'
<1>1. PICK t : t = Healthy(g)
    OBVIOUS
<1>2. /\ infos' = t /\ app' = app /\ __fpga_shmem_check_memory(t, cmd.pages)
      /\ cmd' = cmd \/ cmd' = NoCmd
      /\ cmd' = cmd \/ ctl' = Serving
    BY <1>1 DEF StartForks, StartOK, Answer
<1>3. Paged(t)
    BY <1>1, HealthyPages DEF EntriesInv, PagesInv
<1>4. ASSUME NEW s \in Sockets PROVE SocketSum(t, s) <= Limit[s] - cmd.pages[s]
    <2>1. SocketSum(t, s) \in Nat /\ Limit[s] \in Nat /\ cmd.pages[s] \in Nat
        BY <1>3, SocketSumNumber, ShmemAssumption DEF PagesInv
    <2>2. cmd.pages[s] <= Limit[s] - SocketSum(t, s)
        BY <1>2 DEF __fpga_shmem_check_memory
    <2> QED
        BY <2>1, <2>2
<1>5. Room(t, cmd.pages)
    BY <1>4 DEF Room
<1>6. ctl'.st = "wait" => cmd' = cmd
    BY <1>2 DEF Serving
<1> QED
    BY <1>1, <1>2, <1>5, <1>6, PagesHealth

\* The manager gets its entry: the pages it holds are those that were left.
LEMMA PagesParentReads ==
    ASSUME EntriesInv, PagesInv, NEW g \in Garbage, ParentReads(g)
    PROVE  PagesInv'
<1>1. PICK t, e, n : /\ t = Healthy(g) /\ n = ctl.index
                     /\ e = [prefix |-> cmd.prefix, pid |-> ctl.pid, pages |-> cmd.pages]
    OBVIOUS
<1>2. /\ infos' = [t EXCEPT ![n] = e] /\ ctl.st = "wait" /\ app' = app
      /\ cmd' = NoCmd /\ ctl' = Serving
    BY <1>1 DEF ParentReads, Answer
<1>3. n \in Slots /\ TableOK(t)
    BY <1>1, <1>2, HealthyTable DEF EntriesInv, WaitInv
<1>4. Paged(t) /\ Room(t, cmd.pages) /\ cmd.pages \in [Sockets -> Nat]
    BY <1>1, <1>2, HealthyRoom DEF EntriesInv, PagesInv
<1>5. e.pages = cmd.pages
    BY <1>1
<1>6. infos' = [i \in Slots |-> IF i = n THEN e ELSE t[i]]
    <2>1. t = [i \in Slots |-> t[i]]
        BY <1>3 DEF TableOK
    <2> QED
        BY <1>2, <1>3, <2>1
<1>7. PICK u : u = infos'
    OBVIOUS
<1>8. \A i \in Slots : u[i].pages = IF i = n THEN cmd.pages ELSE t[i].pages
    BY <1>5, <1>6, <1>7
<1>9. Paged(u)
    BY <1>4, <1>8 DEF Paged
<1>10. ASSUME NEW s \in Sockets PROVE SocketSum(u, s) <= Limit[s] - NoPages[s]
    <2>1. PICK f, h : f = [i \in Slots |-> t[i].pages[s]] /\ h = [i \in Slots |-> u[i].pages[s]]
        OBVIOUS
    <2>2. \A i \in Slots : f[i] \in Nat
        BY <1>4, <2>1 DEF Paged
    <2>3. h[n] = cmd.pages[s]
        BY <1>3, <1>8, <2>1
    <2>4. \A i \in Slots : h[i] \in Nat
        BY <1>9, <2>1 DEF Paged
    <2>5. \A i \in Slots : i # n => h[i] = f[i]
        BY <1>8, <2>1
    <2>6. \A i \in Slots : h[i] \in Nat /\ (i # n => h[i] <= f[i])
        BY <2>2, <2>4, <2>5
    <2>7. SumOf(h, Slots) <= SumOf(f, Slots) + h[n]
        BY <1>3, <2>2, <2>6, SlotsFinite, SumReplaced
    <2>8. SocketSum(u, s) <= SocketSum(t, s) + cmd.pages[s]
        BY <2>1, <2>3, <2>7 DEF SocketSum
    <2>9. SocketSum(t, s) <= Limit[s] - cmd.pages[s]
        BY <1>4 DEF Room
    <2>10. /\ SocketSum(t, s) \in Nat /\ SocketSum(u, s) \in Nat
           /\ Limit[s] \in Nat /\ cmd.pages[s] \in Nat /\ NoPages[s] = 0
        BY <1>4, <1>9, SocketSumNumber, ShmemAssumption DEF NoPages
    <2> QED
        BY <2>8, <2>9, <2>10
<1>11. Room(u, NoPages)
    BY <1>10 DEF Room
<1>12. /\ Paged(infos') /\ Room(infos', NoPages) /\ ctl'.st # "wait"
       /\ cmd'.pages \in [Sockets -> Nat] /\ app'.pages \in [Sockets -> Nat]
    BY <1>2, <1>7, <1>9, <1>11, NoPagesAreNumbers DEF PagesInv, NoCmd, Serving
<1> QED
    BY <1>12 DEF PagesInv, Paged, Room, SocketSum

\* Whatever the controller does with a request,
LEMMA PagesController ==
    ASSUME EntriesInv, PagesInv, Controller
    PROVE  PagesInv'
<1>1. ASSUME NEW g \in Garbage,
             StartRefused(g) \/ StartNoFork(g) \/ GetManagerPid(g) \/ FinishDone(g) \/ FinishTimeout(g)
      PROVE  PagesInv'
    <2>1. infos' = Healthy(g) /\ app' = app
        BY <1>1 DEF StartRefused, StartNoFork, GetManagerPid, FinishDone, FinishTimeout,
                    __fpga_shmem_check_health
    <2>2. (\E c, k : Answer(c, k)) \/ Quit
        BY <1>1 DEF StartRefused, StartNoFork, GetManagerPid, FinishDone, FinishTimeout
    <2>3. cmd' = NoCmd /\ ctl'.st # "wait"
        BY <2>2 DEF Answer, Quit, Serving
    <2> QED
        BY <2>1, <2>3, PagesHealth
<1>2. ASSUME NEW g \in Garbage, NEW k \in Pids, StartForks(g, k) PROVE PagesInv'
    BY <1>2, PagesStartForks
<1>3. ASSUME NEW g \in Garbage, ParentReads(g) PROVE PagesInv'
    BY <1>3, PagesParentReads
<1>4. CASE ParentGivesUp \/ ParentTimeout \/ Stop \/ FinishAll
    <2>1. infos' = infos /\ app' = app
        BY <1>4 DEF ParentGivesUp, ParentTimeout, Stop, FinishAll
    <2>2. \/ \E c, k : Answer(c, k)
          \/ Quit
          \/ ctl' = [Serving EXCEPT !.st = "finish"] /\ cmd' = cmd
        BY <1>4 DEF ParentGivesUp, ParentTimeout, Stop, FinishAll
    <2>3. ctl'.st # "wait" /\ (cmd' = cmd \/ cmd' = NoCmd)
        BY <2>2 DEF Answer, Quit, Serving
    <2>4. cmd'.pages \in [Sockets -> Nat] /\ app'.pages \in [Sockets -> Nat]
        BY <2>1, <2>3, NoPagesAreNumbers DEF PagesInv, NoCmd
    <2> QED
        BY <2>1, <2>3, <2>4, PagesStill
<1> QED
    BY <1>1, <1>2, <1>3, <1>4 DEF Controller

\* the application with an answer,
LEMMA PagesApp ==
    ASSUME EntriesInv, PagesInv, AppStep
    PROVE  PagesInv'
<1>1. res # NoAnswer /\ UNCHANGED <<infos, ctl>>
    BY DEF AppStep, appOnly
<1>2. cmd = NoCmd /\ ctl.st # "wait"
    BY <1>1 DEF EntriesInv, TurnInv, WaitInv
<1>3. cmd'.pages \in [Sockets -> Nat] /\ app'.pages \in [Sockets -> Nat]
    <2>1. cmd.pages \in [Sockets -> Nat] /\ app.pages \in [Sockets -> Nat]
        BY DEF PagesInv
    <2>2. CASE Return
        BY <2>1, <2>2, NoPagesAreNumbers DEF Return, NoCall
    <2>3. ASSUME NEW s \in {2, 3, 4, 5}, NEW c, GoOn(s, c)
          PROVE  cmd'.pages \in [Sockets -> Nat] /\ app'.pages \in [Sockets -> Nat]
        <3>1. app = [op |-> app.op, prefix |-> app.prefix, pages |-> app.pages, step |-> app.step]
            BY DEF EntriesInv, TurnInv
        <3>2. app' = [op |-> app.op, prefix |-> app.prefix, pages |-> app.pages, step |-> s]
            BY <2>3, <3>1 DEF GoOn
        <3>3. app'.pages = app.pages /\ cmd'.pages = app.pages
            BY <2>3, <3>2 DEF GoOn, Ask
        <3> QED
            BY <2>1, <3>3
    <2>4. CASE app' = [NoCall EXCEPT !.op = "over"] /\ UNCHANGED cmd
        <3>1. app' = [op |-> "over", prefix |-> None, pages |-> NoPages, step |-> 0]
            BY <2>4 DEF NoCall
        <3> QED
            BY <2>1, <2>4, <3>1, NoPagesAreNumbers
    <2> QED
        BY <2>2, <2>3, <2>4, AppOutcomes
<1> QED
    BY <1>1, <1>2, <1>3, PagesStill

\* and a new call.
LEMMA PagesCall ==
    ASSUME EntriesInv, PagesInv, NEW op, NEW x, NEW pages \in Requests, Call(op, x, pages)
    PROVE  PagesInv'
<1>1. /\ app = NoCall /\ app' = [op |-> op, prefix |-> x, pages |-> pages, step |-> 1]
      /\ cmd' = [cmd |-> FirstCmd(op), prefix |-> x, pages |-> pages]
      /\ UNCHANGED <<infos, ctl>>
    BY DEF Call, Ask, appOnly
<1>2. app.step = 0
    BY <1>1 DEF NoCall
<1>3. ctl.st # "wait"
    BY <1>2 DEF EntriesInv, TurnInv, WaitInv
<1>4. pages \in [Sockets -> Nat] /\ app'.pages = pages /\ cmd'.pages = pages
    BY <1>1, ShmemAssumption
<1> QED
    BY <1>1, <1>3, <1>4, PagesStill

\* Every step keeps the pages within what there is.
LEMMA PagesStep ==
    ASSUME EntriesInv, PagesInv, [Next]_vars
    PROVE  PagesInv'
<1>1. CASE Controller
    BY <1>1, PagesController
<1>2. CASE AppStep
    BY <1>2, PagesApp
<1>8. CASE AppEnds
    <2>1. app' = [op |-> "over", prefix |-> None, pages |-> NoPages, step |-> 0]
        BY <1>8 DEF AppEnds, NoCall
    <2>2. app'.pages \in [Sockets -> Nat] /\ UNCHANGED <<infos, ctl, cmd>>
        BY <1>8, <2>1, NoPagesAreNumbers DEF AppEnds, appOnly
    <2> QED
        BY <2>2, PagesStill DEF PagesInv
<1>3. CASE \E op \in Ops, x \in FilePrefixes, pages \in Requests : Call(op, x, pages)
    BY <1>3, PagesCall
<1>4. CASE UNCHANGED <<infos, cmd, ctl, app>>
    BY <1>4, PagesStill DEF PagesInv
<1>5. ASSUME NEW k \in Pids, ChildStep(k) \/ ChildCannotOpen(k) \/ ChildKilled(k)
      PROVE  UNCHANGED <<infos, cmd, ctl, app>>
    BY <1>5, ChildSplit DEF childOnly
<1>6. ASSUME NEW c \in Clients, ClientStep(c) PROVE UNCHANGED <<infos, cmd, ctl, app>>
    BY <1>6 DEF ClientStep, fpga_shmem_init, __fpga_shmem_create_lock_file, fpga_shmem_finish,
                ClientDies, clientOnly
<1>7. UNCHANGED vars => UNCHANGED <<infos, cmd, ctl, app>>
    BY DEF vars
<1> QED
    BY <1>1, <1>2, <1>3, <1>4, <1>5, <1>6, <1>7, <1>8 DEF Next, ClientStep

\* They are at first.
LEMMA PagesInit == ASSUME Init PROVE PagesInv
<1>1. \A i \in Slots : infos[i] = Free
    BY DEF Init
<1>2. Paged(infos)
    BY <1>1, NoPagesAreNumbers DEF Paged
<1>3. ASSUME NEW s \in Sockets PROVE SocketSum(infos, s) <= Limit[s] - NoPages[s]
    <2>1. PICK f : f = [i \in Slots |-> infos[i].pages[s]]
        OBVIOUS
    <2>2. \A i \in Slots : f[i] = 0
        BY <1>1, <2>1 DEF Free, NoPages
    <2>3. \A i \in Slots : {i} \X (1 .. f[i]) = {}
        BY <2>2
    <2>4. Units(f, Slots) = {}
        BY <2>3 DEF Units
    <2>5. SocketSum(infos, s) = 0
        BY <2>1, <2>4, FS_EmptySet DEF SocketSum, SumOf
    <2>6. Limit[s] \in Nat /\ NoPages[s] = 0
        BY ShmemAssumption DEF NoPages
    <2> QED
        BY <2>5, <2>6
<1>4. cmd.pages = NoPages /\ app.pages = NoPages /\ ctl.st = "serve"
    BY DEF Init, NoCmd, NoCall, Serving
<1> QED
    BY <1>2, <1>3, <1>4, NoPagesAreNumbers DEF PagesInv, Room

\* The managers of the table never hold more pages of a socket than it has:
\* what fpga_shmem_manager_init() has found left before the fork is still left
\* when the manager comes up and gets its entry.
THEOREM PagesStayWithinLimit == Spec => []PagesWithinLimit
<1>1. Init => EntriesInv /\ PagesInv
    BY EntriesInit, PagesInit
<1>2. EntriesInv /\ PagesInv /\ [Next]_vars => (EntriesInv /\ PagesInv)'
    BY EntriesStep, PagesStep
<1>3. PagesInv => PagesWithinLimit
    <2> SUFFICES ASSUME PagesInv, NEW s \in Sockets PROVE SocketSum(infos, s) <= Limit[s]
        BY DEF PagesWithinLimit
    <2>1. SocketSum(infos, s) <= Limit[s] - NoPages[s]
        BY DEF PagesInv, Room
    <2>2. Limit[s] \in Nat /\ NoPages[s] = 0
        BY ShmemAssumption DEF NoPages
    <2> QED
        BY <2>1, <2>2
<1> QED
    BY <1>1, <1>2, <1>3, PTL DEF Spec
=============================================================================
