------------------------------- MODULE Shmem --------------------------------
(***************************************************************************)
(* The shared memory of user processes: the controller and its table of    *)
(* managers (libshmem_manager.c), the managers it forks, an application    *)
(* that asks the controller over a socket (libshmem_controller.c), and     *)
(* the processes that attach to a manager's memory (libshmem.c).           *)
(*                                                                         *)
(* A manager is a child process that holds the hugepages of one prefix.    *)
(* It tells its parent through a file ("tsf") whether DPDK came up, then   *)
(* loops until SIGUSR1, watching a lock file by which it learns that the   *)
(* processes using its memory have ended, well or badly.  One controller,  *)
(* one application with its notification thread.                           *)
(***************************************************************************)
EXTENDS Integers, FiniteSets, SequencesExt, FiniteSetsExt

CONSTANTS
    FilePrefixes, Clients, Sockets, None,
    Requests,       \* Pages per socket that a manager may be asked to hold.
    Limit,          \* Pages per socket of the host.
    MaxForks,       \* Bound: managers forked.
    MaxCalls,       \* Bound: calls of the application.
    MaxFaults       \* Bound: processes killed, waits timed out, attached.

NoPages == [s \in Sockets |-> 0]

(* A sum over S: the units of each member, counted.                        *)
Units(f, S) == UNION {{x} \X (1 .. f[x]) : x \in S}
SumOf(f, S) == Cardinality(Units(f, S))

(* fpga_shmem_get_available_limit(): entries of the table in use.          *)
TableSize == SumOf(Limit, Sockets)
Slots == 1 .. TableSize
Pids == 1 .. MaxForks

ASSUME ShmemAssumption ==
    /\ None \notin FilePrefixes
    /\ IsFiniteSet(Sockets)
    /\ Limit \in [Sockets -> Nat]
    /\ Requests \subseteq [Sockets -> Nat]
    /\ MaxForks \in Nat /\ MaxCalls \in Nat /\ MaxFaults \in Nat

VARIABLES
    infos,      \* manager_infos.
    child,      \* child[k]: the manager with process id k.
    tsf,        \* tsf[x]: "absent", "empty", "ok", "failed".
    lockf,      \* lockf[x]: the lock file, [there, written].
    client,     \* client[c]: a process attached to a prefix.
    cmd,        \* The command the controller is executing.
    ctl,        \* Where the controller waits.
    res,        \* Its answer, [code, pid].
    app,        \* The call the application is in.
    listening,  \* Its notification thread runs.
    errors,     \* fpga_shmem_fallingout_prefix_list.
    calls, faults,
    died,       \* Ghost: prefixes of which a user has died.
    blamed      \* Ghost: these, and those of a user whom the manager took for dead.

vars == <<infos, child, tsf, lockf, client, cmd, ctl, res, app, listening,
          errors, calls, faults, died, blamed>>

Free == [prefix |-> None, pid |-> 0, pages |-> NoPages]
NoFile == [there |-> FALSE, written |-> FALSE]
Detached == [prefix |-> None, st |-> "none", linked |-> FALSE]
NoCmd == [cmd |-> "none", prefix |-> None, pages |-> NoPages]
NoCall == [op |-> "none", prefix |-> None, pages |-> NoPages, step |-> 0]
Serving == [st |-> "serve", pid |-> 0, index |-> 0]
NoAnswer == [code |-> "none", pid |-> 0]

Cmds == {"START", "STOP", "GET_MANAGER_PID", "FINISH_MANAGERS_ALL"}
Ops == {"enable", "disable", "enable_with_check", "disable_with_check", "finish"}

(* The life of a manager: forked, DPDK up or not, the file opened ("cut":  *)
(* and removed by another process since), looping, telling of a dead user, *)
(* its message taken but not answered, over (with the exit code or the     *)
(* signal), waited for.                                                    *)
Alive == {"forked", "ready", "opened", "cut", "loop", "notify", "listed"}
Over == {"exit0", "exitN", "killed"}

TypeOK ==
    /\ infos \in [Slots -> [prefix : FilePrefixes \union {None}, pid : Pids \union {0},
                            pages : [Sockets -> Nat]]]
    /\ child \in [Pids -> [prefix : FilePrefixes \union {None}, up : BOOLEAN, flag : BOOLEAN,
                           noticed : BOOLEAN, st : {"unborn", "gone"} \union Alive \union Over]]
    /\ tsf \in [FilePrefixes -> {"absent", "empty", "ok", "failed"}]
    /\ lockf \in [FilePrefixes -> [there : BOOLEAN, written : BOOLEAN]]
    /\ client \in [Clients -> [prefix : FilePrefixes \union {None}, linked : BOOLEAN,
                               st : {"none", "opened", "locked"}]]
    /\ cmd.cmd \in Cmds \union {"none"}
    /\ ctl \in [st : {"serve", "wait", "finish", "quit"}, pid : Pids \union {0},
                index : Slots \union {0}]
    /\ res \in [code : {"none", "OK", "NG", "QUIT"}, pid : Pids \union {0}]
    /\ app.op \in Ops \union {"none", "over"}
    /\ listening \in BOOLEAN
    /\ errors \in Seq(FilePrefixes)
    /\ calls \in 0 .. MaxCalls /\ faults \in 0 .. MaxFaults
    /\ died \subseteq FilePrefixes /\ blamed \subseteq FilePrefixes

Init ==
    /\ infos = [i \in Slots |-> Free]
    /\ child = [k \in Pids |-> [prefix |-> None, up |-> FALSE, flag |-> FALSE,
                                noticed |-> FALSE, st |-> "unborn"]]
    /\ tsf = [x \in FilePrefixes |-> "absent"]
    /\ lockf = [x \in FilePrefixes |-> NoFile]
    /\ client = [c \in Clients |-> Detached]
    /\ cmd = NoCmd /\ ctl = Serving /\ res = NoAnswer /\ app = NoCall
    /\ listening = TRUE
    /\ errors = <<>>
    /\ calls = 0 /\ faults = 0 /\ died = {} /\ blamed = {}

(***************************************************************************)
(* Files.  A process that has a file open keeps it when it is unlinked,    *)
(* but nobody finds it any more.                                           *)
(***************************************************************************)
UnlinkLock(lf, xs) == [x \in FilePrefixes |-> IF x \in xs THEN NoFile ELSE lf[x]]
Unlinked(cl, xs) == [c \in Clients |-> IF cl[c].prefix \in xs
                                       THEN [cl[c] EXCEPT !.linked = FALSE] ELSE cl[c]]

UnlinkTsf(xs) == [x \in FilePrefixes |-> IF x \in xs THEN "absent" ELSE tsf[x]]
Cut(ch, xs) == [k \in Pids |-> IF ch[k].prefix \in xs /\ ch[k].st = "opened"
                               THEN [ch[k] EXCEPT !.st = "cut"] ELSE ch[k]]

(* The run-time directories of the prefixes, with the files in them.  ch:  *)
(* the managers as the step leaves them otherwise.                         *)
__remove_hugedir(xs, ch) ==
    /\ tsf' = UnlinkTsf(xs)
    /\ child' = Cut(ch, xs)
    /\ lockf' = UnlinkLock(lockf, xs)
    /\ client' = Unlinked(client, xs)

Users(x) == {c \in Clients : client[c].prefix = x /\ client[c].linked}
Lockers(x) == {c \in Users(x) : client[c].st = "locked"}

(***************************************************************************)
(* The controller's table.                                                 *)
(***************************************************************************)
Managed(t) == {t[i].prefix : i \in Slots} \ {None}
Entry(t, x) == CHOOSE i \in Slots : t[i].prefix = x
StateOf(i) == IF infos[i].pid = 0 THEN "none" ELSE child[infos[i].pid].st

Exited(i) == StateOf(i) \in {"exit0", "exitN"}

(* Processes that a signal has killed: waitpid() succeeds once, and the    *)
(* entry stays; later it fails and leaves the status unset, whose value    *)
(* then decides: keep the entry, clear it, or clear the directory too.     *)
Lost == {i \in Slots : StateOf(i) \in {"killed", "gone"}}
Garbage == [Lost -> {"keep", "reset", "clean"}]

(* A mutant: an entry is cleared when its manager has been told to end.    *)
MutCleared(g) ==
    {i \in Slots : infos[i].pid # 0 /\ (Exited(i) \/ child[infos[i].pid].flag)}

Cleared(g) == {i \in Slots : Exited(i)} \union {i \in Lost : g[i] /= "keep"}
Cleaned(g) == {infos[i].prefix : i \in {j \in Slots : StateOf(j) = "exit0"}
                                   \union {j \in Lost : g[j] = "clean"}}

(* __fpga_shmem_check_health(): the table after it.  Its calls within one  *)
(* command are taken together.                                             *)
Healthy(g) == [i \in Slots |-> IF i \in Cleared(g) THEN Free ELSE infos[i]]

Reaped ==
    [k \in Pids |-> IF child[k].st \in Over /\ \E i \in Slots : infos[i].pid = k
                    THEN [child[k] EXCEPT !.st = "gone"] ELSE child[k]]

__fpga_shmem_check_health(g) ==
    /\ infos' = Healthy(g)
    /\ __remove_hugedir(Cleaned(g), Reaped)

Answer(code, pid) ==
    /\ res' = [code |-> code, pid |-> pid]
    /\ cmd' = NoCmd
    /\ ctl' = Serving

Asked(c) == cmd.cmd = c /\ ctl = Serving

(* Pages that are left on a socket.                                        *)
SocketSum(t, s) == SumOf([i \in Slots |-> t[i].pages[s]], Slots)

(* Two mutants: the entry of a manager that is no more is passed over;     *)
(* pages are compared with the limit, whatever is taken.                   *)
MutPrefixFree(t, x) ==
    \A i \in Slots : t[i].prefix = x => child[t[i].pid].st \in {"killed", "gone"}
MutMemoryFree(t, pages) == \A s \in Sockets : pages[s] <= Limit[s]

__fpga_shmem_check_file_prefix(t, x) == x \notin Managed(t)

__fpga_shmem_check_memory(t, pages) == \A s \in Sockets : pages[s] <= Limit[s] - SocketSum(t, s)

StartOK(t) ==
    /\ __fpga_shmem_check_file_prefix(t, cmd.prefix)
    /\ __fpga_shmem_check_memory(t, cmd.pages)

(* fpga_shmem_manager_init() refuses.                                      *)
StartRefused(g) ==
    /\ Asked("START")
    /\ ~StartOK(Healthy(g))
    /\ __fpga_shmem_check_health(g)
    /\ Answer("NG", 0)
    /\ UNCHANGED <<app, listening, errors, calls, faults, blamed, died>>

(* It forks.  The parent looks for a free entry and waits for the file;    *)
(* without one it gives up, and the child goes on.                         *)
StartForks(g, k) ==
    LET free == {i \in Slots : Healthy(g)[i].prefix = None}
    IN  /\ Asked("START")
        /\ StartOK(Healthy(g))
        /\ child[k].st = "unborn" /\ \A j \in 1 .. k - 1 : child[j].st /= "unborn"
        /\ infos' = Healthy(g)
        /\ __remove_hugedir(Cleaned(g),
                            [Reaped EXCEPT ![k].prefix = cmd.prefix, ![k].st = "forked"])
        /\ IF free = {} THEN Answer("NG", 0)
           ELSE /\ ctl' = [st |-> "wait", pid |-> k, index |-> Min(free)]
                /\ UNCHANGED <<cmd, res>>
        /\ UNCHANGED <<app, listening, errors, calls, faults, blamed, died>>

(* fork() fails: no process is left.                                       *)
StartNoFork(g) ==
    /\ Asked("START")
    /\ StartOK(Healthy(g))
    /\ \A k \in Pids : child[k].st /= "unborn"
    /\ __fpga_shmem_check_health(g)
    /\ Answer("NG", 0)
    /\ UNCHANGED <<app, listening, errors, calls, faults, blamed, died>>

(* The file says that the child is up: it gets its entry.                  *)
ParentReads(g) ==
    LET x == cmd.prefix
        xs == Cleaned(g) \union {x}
    IN  /\ ctl.st = "wait"
        /\ tsf[x] = "ok"
        /\ infos' = [Healthy(g) EXCEPT ![ctl.index] =
                        [prefix |-> x, pid |-> ctl.pid, pages |-> cmd.pages]]
        /\ tsf' = UnlinkTsf(xs)
        /\ child' = Cut(Reaped, xs)
        /\ lockf' = UnlinkLock(lockf, Cleaned(g))
        /\ client' = Unlinked(client, Cleaned(g))
        /\ Answer("OK", 0)
        /\ UNCHANGED <<app, listening, errors, calls, faults, blamed, died>>

(* It says that the child is not, or nothing: one that the child has       *)
(* opened and not yet written reads as no initialisation at all.           *)
ParentGivesUp ==
    LET x == cmd.prefix
    IN  /\ ctl.st = "wait"
        /\ tsf[x] \in {"empty", "failed"}
        /\ tsf' = UnlinkTsf({x})
        /\ child' = Cut(child, {x})
        /\ Answer("NG", 0)
        /\ UNCHANGED <<infos, lockf, client, app, listening, errors, calls, faults,
                       blamed, died>>

(* A mutant: the parent waits without end.                                 *)
MutTimeout == FALSE

(* After a minute without the file the parent gives up; the child goes on. *)
ParentTimeout ==
    /\ ctl.st = "wait"
    /\ tsf[cmd.prefix] = "absent"
    /\ Answer("NG", 0)
    /\ UNCHANGED <<infos, child, tsf, lockf, client, app, listening, errors, calls,
                   faults, blamed, died>>

Signalled(ks) == [k \in Pids |-> IF k \in ks /\ child[k].st \in Alive
                                 THEN [child[k] EXCEPT !.flag = TRUE] ELSE child[k]]

(* SHMEM_CTRL_CMD_STOP: SIGUSR1 to the manager; the answer is NG only when *)
(* there is no such process.  The lock file is removed in any case.        *)
Stop ==
    LET x == cmd.prefix
        known == x \in Managed(infos)
        k == IF known THEN infos[Entry(infos, x)].pid ELSE 0
    IN  /\ Asked("STOP")
        /\ child' = Signalled({k})
        /\ lockf' = UnlinkLock(lockf, {x})
        /\ client' = Unlinked(client, {x})
        /\ Answer(IF known /\ child[k].st = "gone" THEN "NG" ELSE "OK", 0)
        /\ UNCHANGED <<infos, tsf, app, listening, errors, calls, faults, blamed, died>>

GetManagerPid(g) ==
    LET t == Healthy(g)
        x == cmd.prefix
    IN  /\ Asked("GET_MANAGER_PID")
        /\ __fpga_shmem_check_health(g)
        /\ Answer("OK", IF x \in Managed(t) THEN t[Entry(t, x)].pid ELSE 0)
        /\ UNCHANGED <<app, listening, errors, calls, faults, blamed, died>>

(* The answer to the last request, whether the managers have ended or not. *)
Quit ==
    /\ res' = [code |-> "QUIT", pid |-> 0]
    /\ cmd' = NoCmd
    /\ ctl' = [Serving EXCEPT !.st = "quit"]

(* SHMEM_CTRL_CMD_FINISH_MANAGERS_ALL: SIGUSR1 to each in turn, up to the  *)
(* first that is no more; otherwise the controller waits for the pages.    *)
FinishAll ==
    LET used == {i \in Slots : infos[i].prefix /= None}
        gone == {i \in used : StateOf(i) = "gone"}
        told == {i \in used : \A j \in gone : i < j}
    IN  /\ Asked("FINISH_MANAGERS_ALL")
        /\ child' = Signalled({infos[i].pid : i \in told})
        /\ IF gone /= {} THEN Quit
           ELSE ctl' = [Serving EXCEPT !.st = "finish"] /\ UNCHANGED <<cmd, res>>
        /\ UNCHANGED <<infos, tsf, lockf, client, app, listening, errors, calls, faults,
                       blamed, died>>

AllFree(t) == \A s \in Sockets : SocketSum(t, s) = 0

(* All pages are free again: the controller ends.                          *)
FinishDone(g) ==
    /\ ctl.st = "finish"
    /\ AllFree(Healthy(g))
    /\ __fpga_shmem_check_health(g)
    /\ Quit
    /\ UNCHANGED <<app, listening, errors, calls, faults, blamed, died>>

(* After ten seconds it ends all the same.                                 *)
FinishTimeout(g) ==
    /\ ctl.st = "finish"
    /\ ~AllFree(Healthy(g))
    /\ __fpga_shmem_check_health(g)
    /\ Quit
    /\ UNCHANGED <<app, listening, errors, calls, faults, blamed, died>>

(***************************************************************************)
(* The managers.                                                           *)
(***************************************************************************)
Primary(x) == {k \in Pids : child[k].prefix = x /\ child[k].up
                            /\ child[k].st \in Alive}

Became(k, st) == [child EXCEPT ![k].st = st]
Becomes(k, st) == child' = Became(k, st)

AppOver == app.op = "over"

childOnly == <<infos, cmd, ctl, res, app, listening, calls>>

(* An old file is removed, then DPDK starts; a second primary process of   *)
(* the same prefix does not come up.                                       *)
ChildInit(k, up) ==
    LET x == child[k].prefix
    IN  /\ child[k].st = "forked"
        /\ up => Primary(x) = {}
        /\ child' = Cut([child EXCEPT ![k].st = "ready", ![k].up = up], {x})
        /\ tsf' = UnlinkTsf({x})
        /\ UNCHANGED <<childOnly, lockf, client, errors, faults, blamed, died>>

ChildOpens(k) ==
    /\ child[k].st = "ready"
    /\ tsf' = [tsf EXCEPT ![child[k].prefix] = "empty"]
    /\ Becomes(k, "opened")
    /\ UNCHANGED <<childOnly, lockf, client, errors, faults, blamed, died>>

(* The directory is not there: the parent will hear nothing.               *)
ChildCannotOpen(k) ==
    /\ child[k].st = "ready"
    /\ faults < MaxFaults /\ faults' = faults + 1
    /\ __remove_hugedir(IF child[k].up THEN {child[k].prefix} ELSE {}, Became(k, "exitN"))
    /\ UNCHANGED <<childOnly, errors, blamed, died>>

(* What is written goes to the file the child has open, which the parent   *)
(* or another child may have removed meanwhile.                            *)
ChildWrites(k) ==
    /\ child[k].st \in {"opened", "cut"}
    /\ tsf' = IF child[k].st = "cut" THEN tsf
              ELSE [tsf EXCEPT ![child[k].prefix] = IF child[k].up THEN "ok" ELSE "failed"]
    /\ Becomes(k, IF child[k].up THEN "loop" ELSE "exitN")
    /\ UNCHANGED <<childOnly, lockf, client, errors, faults, blamed, died>>

(* What the callback finds when it can lock the file exclusively: a file   *)
(* that its last user has written to, or one that nobody has.              *)
Unheld(x) == lockf[x].there /\ Lockers(x) = {}

(* A mutant: a user who has ended well is reported, too.                   *)
MutReports(k) == Unheld(child[k].prefix)

Reports(k) == Unheld(child[k].prefix) /\ ~lockf[child[k].prefix].written

Ends(k) == Unheld(child[k].prefix) /\ lockf[child[k].prefix].written

(* callback_function_notification_prefix(), called in every turn of the    *)
(* loop until it has found the file unheld once.                           *)
CallbackReports(k) ==
    /\ child[k].st = "loop" /\ ~child[k].noticed
    /\ Reports(k)
    /\ child' = [child EXCEPT ![k].st = "notify", ![k].noticed = TRUE]
    /\ blamed' = IF Users(child[k].prefix) /= {} THEN blamed \union {child[k].prefix} ELSE blamed
    /\ UNCHANGED <<childOnly, tsf, lockf, client, errors, faults, died>>

CallbackEnds(k) ==
    /\ child[k].st = "loop" /\ ~child[k].noticed
    /\ Ends(k)
    /\ __remove_hugedir({child[k].prefix}, Became(k, "exitN"))
    /\ UNCHANGED <<childOnly, errors, faults, blamed, died>>

(* The prefix goes to the application's thread, which serves one manager   *)
(* at a time: it lists the prefix,                                         *)
fpga_shmem_set_error_prefix(k) ==
    /\ child[k].st = "notify"
    /\ listening /\ \A j \in Pids : child[j].st /= "listed"
    /\ errors' = Append(errors, child[k].prefix)
    /\ Becomes(k, "listed")
    /\ UNCHANGED <<childOnly, tsf, lockf, client, faults, blamed, died>>

(* and answers.                                                            *)
NoticeAnswered(k) ==
    /\ child[k].st = "listed"
    /\ listening
    /\ Becomes(k, "loop")
    /\ UNCHANGED <<childOnly, tsf, lockf, client, errors, faults, blamed, died>>

(* A manager waits for the answer without a limit in time, and the system  *)
(* call is restarted after SIGUSR1.  fpga_shmem_controller_finish() ends   *)
(* the thread but closes neither the socket it listens on nor the one it   *)
(* was reading: only the end of the application refuses the connection or  *)
(* resets it, and then the manager ends.                                   *)
NotifyFails(k) ==
    /\ child[k].st \in {"notify", "listed"}
    /\ AppOver
    /\ __remove_hugedir({child[k].prefix}, Became(k, "exitN"))
    /\ UNCHANGED <<childOnly, errors, faults, blamed, died>>

(* A mutant: the flag is looked at only after a report.                    *)
MutChildEnds(k) ==
    /\ child[k].st = "loop" /\ child[k].flag /\ child[k].noticed
    /\ __remove_hugedir({child[k].prefix}, Became(k, "exit0"))
    /\ UNCHANGED <<childOnly, errors, faults, blamed, died>>

(* SIGUSR1 has set the flag: the loop ends.                                *)
ChildEnds(k) ==
    /\ child[k].st = "loop" /\ child[k].flag
    /\ __remove_hugedir({child[k].prefix}, Became(k, "exit0"))
    /\ UNCHANGED <<childOnly, errors, faults, blamed, died>>

(* A signal other than SIGUSR1 (out of memory, say) kills a manager.       *)
ChildKilled(k) ==
    /\ child[k].st \in Alive
    /\ faults < MaxFaults /\ faults' = faults + 1
    /\ Becomes(k, "killed")
    /\ UNCHANGED <<childOnly, tsf, lockf, client, errors, blamed, died>>

ChildStep(k) ==
    /\ child[k].st \in Alive
    /\ \/ \E up \in BOOLEAN : ChildInit(k, up)
       \/ ChildOpens(k) \/ ChildWrites(k)
       \/ CallbackReports(k) \/ CallbackEnds(k)
       \/ fpga_shmem_set_error_prefix(k) \/ NoticeAnswered(k) \/ NotifyFails(k)
       \/ ChildEnds(k)

(***************************************************************************)
(* The users of the memory: fpga_shmem_init() and fpga_shmem_finish().     *)
(***************************************************************************)
clientOnly == <<infos, child, tsf, cmd, ctl, res, app, listening, errors, calls>>

(* The secondary process needs a primary; it opens the lock file, then     *)
(* takes its shared lock.                                                  *)
fpga_shmem_init(c, x) ==
    /\ client[c] = Detached
    /\ Primary(x) /= {}
    /\ faults < MaxFaults /\ faults' = faults + 1
    /\ lockf' = [lockf EXCEPT ![x].there = TRUE]
    /\ client' = [client EXCEPT ![c] = [prefix |-> x, st |-> "opened", linked |-> TRUE]]
    /\ UNCHANGED <<clientOnly, blamed, died>>

__fpga_shmem_create_lock_file(c) ==
    /\ client[c].st = "opened"
    /\ client' = [client EXCEPT ![c].st = "locked"]
    /\ UNCHANGED <<clientOnly, lockf, faults, blamed, died>>

fpga_shmem_finish(c) ==
    LET x == client[c].prefix
    IN  /\ client[c].st = "locked"
        /\ lockf' = IF client[c].linked THEN [lockf EXCEPT ![x].written = TRUE] ELSE lockf
        /\ client' = [client EXCEPT ![c] = Detached]
        /\ UNCHANGED <<clientOnly, faults, blamed, died>>

ClientDies(c) ==
    /\ client[c] /= Detached
    /\ client' = [client EXCEPT ![c] = Detached]
    /\ died' = died \union {client[c].prefix}
    /\ blamed' = blamed \union {client[c].prefix}
    /\ UNCHANGED <<clientOnly, lockf, faults>>

(***************************************************************************)
(* The application: one request after the other, each waiting for its      *)
(* answer.                                                                 *)
(***************************************************************************)
appOnly == <<infos, child, tsf, lockf, client, ctl, faults, blamed, died>>

FirstCmd(op) ==
    CASE op \in {"enable", "enable_with_check"} -> "START"
      [] op = "disable" -> "STOP"
      [] op = "disable_with_check" -> "GET_MANAGER_PID"
      [] op = "finish" -> "FINISH_MANAGERS_ALL"

Ask(c, x, pages) == cmd' = [cmd |-> c, prefix |-> x, pages |-> pages]

(* A call begins with a request to the controller, if there is one; the    *)
(* last call ends the thread first.                                        *)
Call(op, x, pages) ==
    /\ app = NoCall /\ ctl.st /= "quit"
    /\ calls < MaxCalls /\ calls' = calls + 1
    /\ app' = [op |-> op, prefix |-> x, pages |-> pages, step |-> 1]
    /\ Ask(FirstCmd(op), x, pages)
    /\ listening' = (listening /\ op /= "finish")
    /\ UNCHANGED <<appOnly, res, errors>>

Return == app' = NoCall /\ UNCHANGED cmd
GoOn(step, c) == app' = [app EXCEPT !.step = step] /\ Ask(c, app.prefix, app.pages)

InError == app.prefix \in Range(errors)
LastIndex(x) == Max({i \in DOMAIN errors : errors[i] = x})

(* Deleting a prefix that is not in the list, when there is a list, frees  *)
(* what stands before it: undefined, taken as the end of the application.  *)
Wrecks == errors /= <<>> /\ ~InError

fpga_shmem_delete_error_prefix ==
    errors' = IF InError THEN RemoveAt(errors, LastIndex(app.prefix)) ELSE errors

(* The calls of one request.                                               *)
SimpleReturns ==
    /\ app.op \in {"enable", "disable", "finish"} \/ app.step = 5
    /\ Return
    /\ UNCHANGED <<errors, listening>>

(* The first request: a manager was started, or asked for.                 *)
EnabledOnce ==
    /\ app.op = "enable_with_check" /\ app.step = 1
    /\ IF res.code = "OK" THEN GoOn(2, "GET_MANAGER_PID") ELSE Return
    /\ UNCHANGED <<errors, listening>>

(* It is gone already: start it again.  It is there, and its prefix is in  *)
(* the list of errors: stop it first.                                      *)
EnableChecks ==
    /\ app.op = "enable_with_check" /\ app.step = 2
    /\ IF res.pid = 0 THEN GoOn(5, "START")
       ELSE IF InError THEN GoOn(3, "STOP") ELSE Return
    /\ UNCHANGED <<errors, listening>>

(* A manager whose users have not ended badly is stopped only by force or  *)
(* when nobody has ever locked its file.                                   *)
DisableChecks ==
    /\ app.op = "disable_with_check" /\ app.step = 1
    /\ \E forced \in BOOLEAN :
        IF res.pid = 0 \/ (~InError /\ ~forced /\ lockf[app.prefix].there)
        THEN Return ELSE GoOn(3, "STOP")
    /\ UNCHANGED <<errors, listening>>

Stopped ==
    /\ app.step = 3
    /\ IF res.code = "OK" THEN GoOn(4, "GET_MANAGER_PID") ELSE Return
    /\ UNCHANGED <<errors, listening>>

(* The manager has ended in time or not; only then is its error forgotten. *)
AfterStop ==
    /\ app.step = 4
    /\ IF res.pid /= 0 THEN Return /\ UNCHANGED <<errors, listening>>
       ELSE IF Wrecks
       THEN app' = [NoCall EXCEPT !.op = "over"] /\ listening' = FALSE /\ UNCHANGED <<cmd, errors>>
       ELSE /\ fpga_shmem_delete_error_prefix
            /\ IF app.op = "enable_with_check" THEN GoOn(5, "START") ELSE Return
            /\ UNCHANGED listening

(* The application ends, between two calls.                                *)
AppEnds ==
    /\ app = NoCall
    /\ app' = [NoCall EXCEPT !.op = "over"]
    /\ listening' = FALSE
    /\ UNCHANGED <<appOnly, cmd, res, errors, calls>>

AppStep ==
    /\ res /= NoAnswer
    /\ res' = NoAnswer
    /\ SimpleReturns \/ EnabledOnce \/ EnableChecks \/ DisableChecks \/ Stopped \/ AfterStop
    /\ UNCHANGED <<appOnly, calls>>

Controller ==
    /\ cmd /= NoCmd
    /\ \/ \E g \in Garbage :
           \/ StartRefused(g) \/ StartNoFork(g) \/ \E k \in Pids : StartForks(g, k)
           \/ ParentReads(g)
           \/ GetManagerPid(g)
           \/ FinishDone(g) \/ FinishTimeout(g)
       \/ ParentGivesUp \/ ParentTimeout \/ Stop \/ FinishAll

Next ==
    \/ Controller
    \/ AppStep \/ AppEnds
    \/ \E op \in Ops, x \in FilePrefixes, pages \in Requests :
        /\ op \in {"enable", "enable_with_check"} \/ pages = NoPages
        /\ op /= "finish" \/ x = CHOOSE y \in FilePrefixes : TRUE
        /\ Call(op, x, pages)
    \/ \E k \in Pids : ChildStep(k) \/ ChildCannotOpen(k) \/ ChildKilled(k)
    \/ \E c \in Clients :
        \/ \E x \in FilePrefixes : fpga_shmem_init(c, x)
        \/ __fpga_shmem_create_lock_file(c) \/ fpga_shmem_finish(c) \/ ClientDies(c)

Fairness ==
    /\ WF_vars(Controller)
    /\ \A k \in Pids : WF_vars(ChildStep(k))

Spec == Init /\ [][Next]_vars /\ Fairness

(***************************************************************************)
(* Properties.                                                             *)
(***************************************************************************)

(* No two entries of the table are for the same prefix: a STOP always      *)
(* reaches the manager the application means.                              *)
OneEntryPerPrefix ==
    \A i, j \in Slots : infos[i].prefix = infos[j].prefix => i = j \/ infos[i].prefix = None

(* The managers of the table hold no more of the pages they were started   *)
(* with than a socket has: pages that a manager gives back, in whatever    *)
(* way it ends, are not given away twice.  A start with the default size   *)
(* (no pages of any socket) records none, and a manager whose start was    *)
(* answered NG while it went on is not in the table.                       *)
PagesWithinLimit ==
    \A s \in Sockets : SocketSum(infos, s) <= Limit[s]

(* "Succeed to lock file, so user call fpga_shmem_finish() or killed"      *)
(* (libshmem_controller.c:1146): a prefix is in the application's list of  *)
(* errors only if a process using it has died.  The code breaks it: a user *)
(* opens the lock file and locks it in two system calls.                   *)
NoticeHasCause == Range(errors) \subseteq died

(* That race is the only one: a user that has called fpga_shmem_finish()   *)
(* is never reported, because it writes before it unlocks, and neither is  *)
(* one that has its lock.                                                  *)
NoticeSparesFinished == Range(errors) \subseteq blamed

(* A manager whose start was answered OK stays in the table until it has   *)
(* ended: the answer "not in use", on which a new manager is started or an *)
(* error forgotten, is not given of it while it holds its pages.  Nothing  *)
(* is said of a manager that goes on after its start was answered NG       *)
(* (ParentTimeout, ParentGivesUp on an empty file): it never is in the     *)
(* table, and the answer about it is "not in use".                         *)
EntryEndsWithManager ==
    [][\A i \in Slots :
         infos[i].pid /= 0 /\ infos'[i] /= infos[i] => child'[infos[i].pid].st \notin Alive]_vars

(* Every request is answered, also when the manager it started dies before *)
(* it can tell, so that the application does not wait for ever.            *)
RequestAnswered == cmd.cmd /= "none" ~> cmd.cmd = "none"

(* Managers that wait for the answer of a thread that is no more.          *)
Stuck == {k \in Pids : child[k].st \in {"notify", "listed"} /\ ~listening /\ ~AppOver}

(* Managers that have been sent SIGUSR1 end, all of them, whatever they    *)
(* were doing, starting or telling of a dead user.  The exception is the   *)
(* code's: one that tells an application which has called                  *)
(* fpga_shmem_controller_finish() and lives on ends only with it.          *)
SignalledEnds ==
    LET told == {k \in Pids \ Stuck : child[k].flag /\ child[k].st \in Alive}
    IN  told /= {} ~> told = {}

=============================================================================
