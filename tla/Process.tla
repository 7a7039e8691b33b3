------------------------------- MODULE Process -------------------------------
(***************************************************************************)
(* The life of processes in kernel/src/process/process.c, with the system  *)
(* calls of syscall_impl.c, the signal handler of sighandler.c, the clean- *)
(* up that runs in the housekeeping thread and userland_shutdown of        *)
(* kernel/src/main.c.                                                      *)
(*                                                                         *)
(* A section that takes mutexes and does not wait for anything else before *)
(* it releases them is one step.  Mutexes that are held longer are         *)
(* variables: shares of proc_mtx, process->mtx, and hk_mtx, which the      *)
(* housekeeping thread holds while it runs a task.  A process has one      *)
(* thread; system calls that create another do not exist.                  *)
(***************************************************************************)
EXTENDS Integers, Sequences

CONSTANTS MaxPid,    \* bound: processes that are ever created
          Configs    \* the system calls that each process uses (ops), and the
                     \* bounds on processes (maxPid) and on the signals that
                     \* are pending for each (maxSig); whether the threads are
                     \* scheduled fairly and miss no wake-up of a mutex (fair);
                     \* whether the queue of hk_add_once may fail to grow (nomem)

Pids == 1 .. MaxPid

Calls == {"create", "start", "destroy", "wait", "poll", "touch", "ignore",
          "exit", "shutdown"}

ASSUME ProcessAssumption ==
  /\ MaxPid \in Nat \ {0}
  /\ \A w \in Configs : /\ w.ops \in [Pids -> SUBSET Calls]
                        /\ w.maxPid \in Pids /\ w.maxSig \in Nat
                        /\ w.fair \in BOOLEAN /\ w.nomem \in BOOLEAN

NoPid == 0
Hk == -1    \* the housekeeping thread
Main == -2  \* the thread of kernel_lifetime_func
Nobody == 0

VARIABLES conf,      \* the configuration, which never changes
          procs,     \* the processes in the table
          next,      \* pid_counter
          flags,     \* the PROC_ flags of each process
          parent,    \* process->parent
          kids,      \* process->children
          ignore,    \* whether SIGCHLD is ignored
          sig,       \* sigpending
          reports,   \* how often its exit was reported to a waitpid
          thread,    \* where the thread of each process is
          arg,       \* the process that its system call is about
          mtx,       \* who holds process->mtx
          shares,    \* who holds a share of proc_mtx
          excl,      \* who holds proc_mtx while it joins a thread
          tasks,     \* the clean-up tasks in the housekeeping queue
          hk, hkp,   \* where the housekeeping thread is, and its task
          main,      \* where the thread that shuts down is
          todo,      \* the processes that it still has to signal
          shutdown   \* kernel_shutdown_mode

procVars == <<procs, next, flags, parent, kids, ignore, sig, reports>>
threadVars == <<thread, arg>>
lockVars == <<mtx, shares, excl>>
hkVars == <<tasks, hk, hkp>>
mainVars == <<main, todo, shutdown>>
vars == <<conf, procVars, threadVars, lockVars, hkVars, mainVars>>

Flags == {"RUNNING", "EXITING", "EXITED", "SIGPEND", "PRESTART", "STATECHG"}

(* Where a thread is; "none" before and "exited" after its life.           *)
Places == Calls \union {"none", "user", "signal", "load", "loading", "queue", "dying",
                        "reap", "exited"}

(* The types; process numbers are below pid_counter.                       *)
TypeOK == /\ conf \in Configs
          /\ next \in 2 .. MaxPid + 1 /\ procs \subseteq 1 .. next - 1
          /\ flags \in [Pids -> SUBSET Flags]
          /\ parent \in [Pids -> Pids \union {NoPid}]
          /\ kids \in [Pids -> SUBSET Pids] /\ ignore \in [Pids -> BOOLEAN]
          /\ sig \in [Pids -> Seq({"CHLD", "HUP"})] /\ reports \in [Pids -> Nat]
          /\ thread \in [Pids -> Places]
          /\ arg \in [Pids -> Pids \union {NoPid}]
          /\ mtx \in [Pids -> Pids \union {Hk, Nobody}]
          /\ shares \subseteq Pids \union {Hk, Main}
          /\ excl \in Pids \union {Hk, Nobody}
          /\ tasks \in Seq(Pids) /\ hkp \in Pids \union {NoPid}
          /\ hk \in {"idle", "pass", "lookup", "runtime", "join", "parent", "notify",
                     "delete", "crash", "panic"}
          /\ main \in {"up", "warn", "hup", "wait", "doom", "kill", "queue", "init",
                       "inithup", "waitinit", "off", "panic"}
          /\ todo \subseteq Pids /\ shutdown \in BOOLEAN

(* The kernel has created and started init.                                *)
Init ==
  /\ conf \in Configs
  /\ procs = {1} /\ next = 2
  /\ flags = [p \in Pids |-> IF p = 1 THEN {"RUNNING"} ELSE {}]
  /\ parent = [p \in Pids |-> NoPid] /\ kids = [p \in Pids |-> {}]
  /\ ignore = [p \in Pids |-> FALSE] /\ sig = [p \in Pids |-> <<>>]
  /\ reports = [p \in Pids |-> 0]
  /\ thread = [p \in Pids |-> IF p = 1 THEN "user" ELSE "none"]
  /\ arg = [p \in Pids |-> NoPid]
  /\ mtx = [p \in Pids |-> Nobody] /\ shares = {} /\ excl = Nobody
  /\ tasks = <<>> /\ hk = "idle" /\ hkp = NoPid
  /\ main = "up" /\ todo = {} /\ shutdown = FALSE

Goto(p, at) == thread' = [thread EXCEPT ![p] = at]

Unlocked(p) == mtx[p] = Nobody

AddFlags(p, on) == flags' = [flags EXCEPT ![p] = @ \union on]

(* mutex_acquire(&proc_mtx) and mutex_acquire_shared(&proc_mtx) succeed.   *)
ExclusiveProcs == shares = {} /\ excl = Nobody

SharedProcs == excl = Nobody

NoThread(p) == thread[p] \in {"none", "exited"}

(***************************************************************************)
(* User mode: a system call, a signal, or the end of a thread whose        *)
(* process is exiting (module Scheduler).                                  *)
(***************************************************************************)
InUser(p) == thread[p] = "user"

(* sched_lower_from_isr: a thread of an exiting process does not return.   *)
Resume(p) == IF "EXITING" \in flags[p] THEN "exited" ELSE "user"

Return(p) == Goto(p, Resume(p)) /\ arg' = [arg EXCEPT ![p] = NoPid]

(* pstart and pdestroy test proc_is_parent first.                          *)
Syscall(p) ==
  /\ InUser(p)
  /\ \E op \in conf.ops[p] :
       /\ Goto(p, op)
       /\ IF op \in {"start", "destroy"}
          THEN /\ SharedProcs
               /\ \E q \in procs : parent[q] = p /\ arg' = [arg EXCEPT ![p] = q]
          ELSE UNCHANGED arg
  /\ UNCHANGED <<procVars, lockVars, hkVars, mainVars>>

Killed(p) ==
  /\ InUser(p) /\ "EXITING" \in flags[p]
  /\ Goto(p, "exited")
  /\ UNCHANGED <<procVars, arg, lockVars, hkVars, mainVars>>

TakeSignal(p) ==
  /\ InUser(p) /\ {"SIGPEND", "EXITING"} \intersect flags[p] = {"SIGPEND"}
  /\ Goto(p, "signal")
  /\ UNCHANGED <<procVars, arg, lockVars, hkVars, mainVars>>

(* proc_signal_handler: SIGHUP ends the process unless it has a handler.   *)
HandleSignal(p) ==
  /\ thread[p] = "signal" /\ Unlocked(p)
  /\ IF sig[p] = <<>>
     THEN Goto(p, Resume(p)) /\ UNCHANGED sig
     ELSE /\ sig' = [sig EXCEPT ![p] = Tail(@)]
          /\ \/ Goto(p, Resume(p))
             \/ Head(sig[p]) = "HUP" /\ Goto(p, "exit")
  /\ UNCHANGED <<procs, next, flags, parent, kids, ignore, reports, arg, lockVars,
                 hkVars, mainVars>>

(***************************************************************************)
(* System calls.                                                           *)
(***************************************************************************)
NextPid == next + 1

Create(p) ==
  /\ thread[p] = "create" /\ ExclusiveProcs /\ Unlocked(p)
  /\ \/ UNCHANGED procVars  \* out of memory
     \/ /\ next <= conf.maxPid
        /\ procs' = procs \union {next} /\ next' = NextPid
        /\ flags' = [flags EXCEPT ![next] = {"PRESTART"}]
        /\ parent' = [parent EXCEPT ![next] = p]
        /\ kids' = [kids EXCEPT ![p] = @ \union {next}]
        /\ UNCHANGED <<ignore, sig, reports>>
  /\ Return(p)
  /\ UNCHANGED <<lockVars, hkVars, mainVars>>

(* proc_start claims the process with a share of proc_mtx.                 *)
StartHolds(p) == shares' = shares \union {p}

Claimed(p) == arg[p] \in procs /\ "PRESTART" \in flags[arg[p]]

StartClaim(p) ==
  /\ thread[p] = "start" /\ SharedProcs
  /\ IF Claimed(p)
     THEN /\ flags' = [flags EXCEPT ![arg[p]] = @ \ {"PRESTART"}]
          /\ StartHolds(p) /\ Goto(p, "load") /\ UNCHANGED arg
     ELSE Return(p) /\ UNCHANGED <<flags, shares>>
  /\ UNCHANGED <<procs, next, parent, kids, ignore, sig, reports, mtx, excl, hkVars,
                 mainVars>>

StartLock(p) ==
  /\ thread[p] = "load" /\ Unlocked(arg[p])
  /\ mtx' = [mtx EXCEPT ![arg[p]] = p]
  /\ Goto(p, "loading")
  /\ UNCHANGED <<procVars, arg, shares, excl, hkVars, mainVars>>

(* proc_start_raw stores PROC_RUNNING over all flags.                      *)
StartDone(p) ==
  LET q == arg[p] IN
  /\ thread[p] = "loading"
  /\ flags' = [flags EXCEPT ![q] = {"RUNNING"}]
  /\ thread' = [thread EXCEPT ![q] = "user",
                             ![p] = Resume(p)]
  /\ arg' = [arg EXCEPT ![p] = NoPid]
  /\ mtx' = [mtx EXCEPT ![q] = Nobody] /\ shares' = shares \ {p}
  /\ UNCHANGED <<procs, next, parent, kids, ignore, sig, reports, excl, hkVars, mainVars>>

StartFails(p) ==
  /\ thread[p] = "loading"
  /\ mtx' = [mtx EXCEPT ![arg[p]] = Nobody] /\ shares' = shares \ {p}
  /\ Return(p)
  /\ UNCHANGED <<procVars, excl, hkVars, mainVars>>

(* dlist_concat to the list of init; the children's parent stays the same. *)
Adopt(p) == IF p = 1 THEN kids
            ELSE [kids EXCEPT ![1] = @ \union kids[p], ![p] = {}]

(* proc_delete_impl for actor a: proc_delete_runtime_raw first, unless the *)
(* process has exited.                                                     *)
DeleteJoins(a, q) ==
  /\ ExclusiveProcs /\ q \in procs /\ "EXITED" \notin flags[q] /\ ~NoThread(q)
  /\ AddFlags(q, {"EXITING"})
  /\ mtx' = [mtx EXCEPT ![q] = a] /\ excl' = a
  /\ UNCHANGED <<procs, next, parent, kids, ignore, sig, reports, threadVars, shares,
                 hkVars, mainVars>>

(* dlist_remove from the list of the parent.                               *)
Unlisted(k, q) == [p \in Pids |-> IF p = parent[q] THEN k[p] \ {q} ELSE k[p]]

Delete(a, q) ==
  LET k == IF "EXITED" \in flags[q] THEN kids ELSE Adopt(q) IN
  /\ shares = {} /\ excl \in {Nobody, a} /\ (q \in procs => NoThread(q))
  /\ procs' = procs \ {q}
  /\ kids' = IF q \in procs THEN Unlisted(k, q) ELSE kids
  /\ mtx' = [mtx EXCEPT ![q] = Nobody] /\ excl' = Nobody
  /\ UNCHANGED <<next, flags, parent, ignore, sig, reports, shares>>

Destroyable(q) == q \in procs /\ "PRESTART" \in flags[q]

Destroy(p) ==
  /\ thread[p] = "destroy" /\ ExclusiveProcs
  /\ IF Destroyable(arg[p]) THEN Delete(p, arg[p])
                            ELSE UNCHANGED <<procVars, lockVars>>
  /\ Return(p)
  /\ UNCHANGED <<hkVars, mainVars>>

(* waitpid for any child: claims a change of state, and deletes the child  *)
(* if it has exited; without WNOHANG it yields until there is something.   *)
Claim(q) == flags' = [flags EXCEPT ![q] = @ \ {"STATECHG"}]

WaitClaim(p) ==
  /\ thread[p] = "wait" /\ Unlocked(p)
  /\ \E q \in kids[p], nowait \in BOOLEAN :
       /\ "STATECHG" \in flags[q] /\ Claim(q)
       /\ reports' = [reports EXCEPT ![q] = @ + 1]
       /\ IF "EXITED" \in flags[q] /\ ~nowait
          THEN Goto(p, "reap") /\ arg' = [arg EXCEPT ![p] = q]
          ELSE Return(p)
  /\ UNCHANGED <<procs, next, parent, kids, ignore, sig, lockVars, hkVars, mainVars>>

WaitNoChild(p) ==
  /\ thread[p] = "wait" /\ Unlocked(p) /\ kids[p] = {}
  /\ Return(p)
  /\ UNCHANGED <<procVars, lockVars, hkVars, mainVars>>

ReapJoins(p) == thread[p] = "reap" /\ DeleteJoins(p, arg[p])

Reap(p) ==
  /\ thread[p] = "reap" /\ Delete(p, arg[p])
  /\ Return(p)
  /\ UNCHANGED <<hkVars, mainVars>>

Poll(p) ==  \* waitpid with WNOHANG
  /\ thread[p] = "poll"
  /\ Return(p)
  /\ UNCHANGED <<procVars, lockVars, hkVars, mainVars>>

(* getargs, mem_size and the like take process->mtx; sighandler sets.      *)
Touch(p) ==
  /\ thread[p] \in {"touch", "ignore"} /\ Unlocked(p)
  /\ ignore' = [ignore EXCEPT ![p] = @ \/ thread[p] = "ignore"]
  /\ Return(p)
  /\ UNCHANGED <<procs, next, flags, parent, kids, sig, reports, lockVars, hkVars,
                 mainVars>>

Shutdown(p) ==
  /\ thread[p] = "shutdown"
  /\ shutdown' = TRUE
  /\ Return(p)
  /\ UNCHANGED <<procVars, lockVars, hkVars, main, todo>>

(* hk_add_once inserts at the front; a task for which there is no memory   *)
(* is lost, since no caller looks at the result.                           *)
HkAddOnce(p) ==
  /\ hk = "idle"
  /\ tasks' = <<p>> \o tasks \/ (conf.nomem /\ UNCHANGED tasks)

(***************************************************************************)
(* proc_exit_self.                                                         *)
(***************************************************************************)

ExitQueuesFirst(p) ==  \* mutant: the task is added before the process is marked
  /\ thread[p] = "exit" /\ HkAddOnce(p)
  /\ Goto(p, "touch")
  /\ UNCHANGED <<procVars, arg, lockVars, hk, hkp, mainVars>>

ExitMark(p) ==
  /\ thread[p] = "exit" /\ Unlocked(p)
  /\ AddFlags(p, {"EXITING"})
  /\ Goto(p, "queue")
  /\ UNCHANGED <<procs, next, parent, kids, ignore, sig, reports, arg, lockVars, hkVars,
                 mainVars>>

NoTask(p) == tasks' = tasks  \* mutant: no task is added

ExitTask(p) == HkAddOnce(p)

ExitQueue(p) ==
  /\ thread[p] = "queue" /\ ExitTask(p)
  /\ Goto(p, "dying")
  /\ UNCHANGED <<procVars, arg, lockVars, hk, hkp, mainVars>>

ThreadExit(p) ==
  /\ thread[p] = "dying"
  /\ Goto(p, "exited")
  /\ UNCHANGED <<procVars, arg, lockVars, hkVars, mainVars>>

(***************************************************************************)
(* clean_up_from_housekeeping.  hk_mtx is held until no task is due.       *)
(***************************************************************************)
HkGoto(at) == hk' = at /\ UNCHANGED <<tasks, hkp>>

HkTake ==
  /\ hk \in {"idle", "pass"} /\ tasks /= <<>>
  /\ hkp' = Head(tasks) /\ tasks' = Tail(tasks) /\ hk' = "lookup"
  /\ UNCHANGED <<procVars, threadVars, lockVars, mainVars>>

HkPassEnd ==
  /\ hk = "pass" /\ tasks = <<>>
  /\ hk' = "idle" /\ hkp' = NoPid /\ UNCHANGED tasks
  /\ UNCHANGED <<procVars, threadVars, lockVars, mainVars>>

(* A process that is not in the table is a null pointer.                   *)
HkLookup ==
  /\ hk = "lookup" /\ SharedProcs
  /\ shares' = shares \union {Hk}
  /\ HkGoto(IF hkp \in procs THEN "runtime" ELSE "crash")
  /\ UNCHANGED <<procVars, threadVars, mtx, excl, mainVars>>

(* allow_proc1_death                                                       *)
InitMayDie == shutdown /\ procs = {1}

HkPanic ==
  /\ hk = "runtime" /\ hkp = 1 /\ ~InitMayDie
  /\ HkGoto("panic")
  /\ UNCHANGED <<procVars, threadVars, lockVars, mainVars>>

(* proc_delete_runtime_raw up to the join of the thread.                   *)
HkRuntime ==
  /\ hk = "runtime" /\ (hkp = 1 => InitMayDie) /\ Unlocked(hkp)
  /\ IF "EXITED" \in flags[hkp]
     THEN HkGoto("parent") /\ UNCHANGED <<flags, mtx>>
     ELSE /\ AddFlags(hkp, {"EXITING"})
          /\ mtx' = [mtx EXCEPT ![hkp] = Hk]
          /\ HkGoto("join")
  /\ UNCHANGED <<procs, next, parent, kids, ignore, sig, reports, threadVars, shares,
                 excl, mainVars>>

JoinNothing == TRUE  \* mutant: thread_join returns at once

Joined == NoThread(hkp)

HkJoin ==
  /\ hk = "join" /\ Joined
  /\ kids' = Adopt(hkp)
  /\ flags' = [flags EXCEPT ![hkp] = (@ \union {"EXITED"}) \ {"EXITING", "RUNNING"}]
  /\ mtx' = [mtx EXCEPT ![hkp] = Nobody]
  /\ HkGoto("parent")
  /\ UNCHANGED <<procs, next, parent, ignore, sig, reports, threadVars, shares, excl,
                 mainVars>>

(* A parent that is not in the table has been freed.                       *)
HkParent ==
  LET q == parent[hkp] IN
  /\ hk = "parent"
  /\ \/ /\ q = NoPid \/ (q \in procs /\ Unlocked(q) /\ ignore[q])
        /\ shares' = shares \ {Hk} /\ HkGoto("delete") /\ UNCHANGED flags
     \/ /\ q \in procs /\ Unlocked(q) /\ ~ignore[q]
        /\ AddFlags(hkp, {"STATECHG"}) /\ HkGoto("notify") /\ UNCHANGED shares
     \/ /\ q \notin procs \union {NoPid}
        /\ HkGoto("crash") /\ UNCHANGED <<flags, shares>>
  /\ UNCHANGED <<procs, next, parent, kids, ignore, sig, reports, threadVars, mtx,
                 excl, mainVars>>

(* proc_raise_signal_raw, except SIGKILL; it may run out of memory.        *)
Raise(p, s) ==
  /\ Unlocked(p)
  /\ \/ UNCHANGED procVars
     \/ /\ Len(sig[p]) < conf.maxSig
        /\ sig' = [sig EXCEPT ![p] = Append(@, s)]
        /\ AddFlags(p, {"SIGPEND"})
        /\ UNCHANGED <<procs, next, parent, kids, ignore, reports>>

HkNotify ==
  /\ hk = "notify"
  /\ Raise(parent[hkp], "CHLD")
  /\ shares' = shares \ {Hk}
  /\ HkGoto("pass")
  /\ UNCHANGED <<threadVars, mtx, excl, mainVars>>

HkDeleteJoins == hk = "delete" /\ DeleteJoins(Hk, hkp)

HkDelete ==
  /\ hk = "delete" /\ Delete(Hk, hkp)
  /\ HkGoto("pass")
  /\ UNCHANGED <<threadVars, mainVars>>

(***************************************************************************)
(* userland_shutdown.                                                      *)
(***************************************************************************)
MainGoto(at) == main' = at /\ UNCHANGED <<todo, shutdown>>

(* proc_has_noninit                                                        *)
NonInit == \E q \in procs \ {1} : "RUNNING" \in flags[q]

(* proc_has_noninit looks at the table in a section of its own, and a      *)
(* process may change before the signals are raised.                       *)
Survey(at) ==
  /\ SharedProcs
  /\ MainGoto(IF NonInit THEN at ELSE "init")
  /\ UNCHANGED <<procVars, threadVars, lockVars, hkVars>>

MainStart == main = "up" /\ shutdown /\ Survey("warn")

(* proc_signal_all holds its share of proc_mtx until the last signal.      *)
SignalAll(at) ==
  /\ SharedProcs
  /\ shares' = shares \union {Main}
  /\ main' = at /\ todo' = procs \ {1} /\ UNCHANGED shutdown
  /\ UNCHANGED <<procVars, threadVars, mtx, excl, hkVars>>

MainWarn == main = "warn" /\ SignalAll("hup")

(* The table is sorted by process number.                                  *)
Foremost(q) == \A r \in todo : q <= r

MainHup ==
  /\ main = "hup"
  /\ \E q \in todo : Foremost(q) /\ Raise(q, "HUP") /\ todo' = todo \ {q}
  /\ UNCHANGED <<threadVars, lockVars, hkVars, main, shutdown>>

MainSignalled ==
  /\ main \in {"hup", "kill"} /\ todo = {}
  /\ shares' = shares \ {Main}
  /\ MainGoto(IF main = "hup" THEN "wait" ELSE "init")
  /\ UNCHANGED <<procVars, threadVars, mtx, excl, hkVars>>

(* A second has passed, or no process runs any more.                       *)
MainWait == main = "wait" /\ Survey("doom")

MainDoom == main = "doom" /\ SignalAll("kill")

(* proc_raise_sigkill_raw                                                  *)
MainKill ==
  /\ main = "kill"
  /\ \E q \in todo : Foremost(q) /\ Unlocked(q) /\ AddFlags(q, {"EXITING"})
  /\ MainGoto("queue")
  /\ UNCHANGED <<procs, next, parent, kids, ignore, sig, reports, threadVars, lockVars,
                 hkVars>>

MainQueue ==
  /\ main = "queue"
  /\ \E q \in todo : Foremost(q) /\ HkAddOnce(q) /\ todo' = todo \ {q}
  /\ main' = "kill"
  /\ UNCHANGED <<procVars, threadVars, lockVars, hk, hkp, shutdown>>

(* proc_raise_signal(1, SIGHUP): a share of proc_mtx, then the mutex of    *)
(* init.                                                                   *)
MainInit ==
  /\ main = "init" /\ SharedProcs
  /\ shares' = shares \union {Main}
  /\ MainGoto("inithup")
  /\ UNCHANGED <<procVars, threadVars, mtx, excl, hkVars>>

MainInitHup ==
  /\ main = "inithup"
  /\ IF 1 \in procs THEN Raise(1, "HUP") ELSE UNCHANGED procVars
  /\ shares' = shares \ {Main}
  /\ MainGoto("waitinit")
  /\ UNCHANGED <<threadVars, mtx, excl, hkVars>>

MainWaitInit ==
  /\ main = "waitinit" /\ SharedProcs
  /\ \/ ~(1 \in procs /\ "RUNNING" \in flags[1]) /\ MainGoto("off")
     \/ MainGoto("panic")  \* five seconds have passed
  /\ UNCHANGED <<procVars, threadVars, lockVars, hkVars>>

(* panic_abort or the power-off stop the machine; so, here, does the use   *)
(* of a null or freed pointer.                                             *)
Halted == hk = "panic" \/ main \in {"off", "panic"}

Up == ~Halted /\ hk /= "crash"

Step(p) == \/ Killed(p) \/ HandleSignal(p) \/ Create(p) \/ StartClaim(p)
           \/ StartLock(p) \/ StartDone(p) \/ StartFails(p) \/ Destroy(p)
           \/ WaitClaim(p) \/ WaitNoChild(p) \/ ReapJoins(p) \/ Reap(p) \/ Poll(p) \/ Touch(p)
           \/ Shutdown(p) \/ ExitMark(p) \/ ExitQueue(p) \/ ThreadExit(p)

HkStep == \/ HkTake \/ HkPassEnd \/ HkLookup \/ HkPanic \/ HkRuntime \/ HkJoin
          \/ HkParent \/ HkNotify \/ HkDeleteJoins \/ HkDelete

MainStep == \/ MainStart \/ MainWarn \/ MainHup \/ MainSignalled \/ MainWait
            \/ MainDoom \/ MainKill \/ MainQueue \/ MainInit \/ MainInitHup
            \/ MainWaitInit

Next ==
  /\ Up /\ UNCHANGED conf
  /\ \/ \E p \in Pids : Syscall(p) \/ TakeSignal(p) \/ Step(p)
     \/ HkStep
     \/ MainStep

Spec == Init /\ [][Next]_vars

(* Threads are scheduled fairly, and one that waits for a mutex that stays *)
(* free gets it: no wake-up is lost, as it can be (module Mutex).  User    *)
(* code need not make a system call.                                       *)
Fair == conf.fair /\ Up

FairSpec == /\ Spec
            /\ \A p \in Pids : WF_vars(Fair /\ Step(p) /\ UNCHANGED conf)
            /\ WF_vars(Fair /\ HkStep /\ UNCHANGED conf)
            /\ WF_vars(Fair /\ MainStep /\ UNCHANGED conf)

-----------------------------------------------------------------------------
(* A process that has exited has no thread: proc_delete_runtime_raw joins  *)
(* it first, and nothing creates another.                                  *)
ExitedHasNoThread ==
  \A p \in procs : "EXITED" \in flags[p] => NoThread(p)

(* Only init has ever had children.                                        *)
OnlyInitsChildren == \A q \in Pids : parent[q] \in {NoPid, 1}

(* The clean-up uses the parent's mutex and signals while the parent is in *)
(* the table.                                                              *)
ParentLives == hk \in {"parent", "notify"} => parent[hkp] \in procs \union {NoPid}

(* A process is not deleted while its thread lives, while a thread loads   *)
(* its program, while its mutex is held, while it is cleaned up or, if     *)
(* only init has had children, while a child is: everyone who uses a       *)
(* process_t holds a share of proc_mtx or is the thread that proc_delete   *)
(* waits for.                                                              *)
DeletedIsUnused ==
  /\ \A p \in Pids \ procs : NoThread(p) /\ Unlocked(p)
  /\ \A p \in Pids : thread[p] \in {"load", "loading"} => arg[p] \in procs
  /\ hk \in {"runtime", "join", "parent", "notify"} => hkp \in procs
  /\ OnlyInitsChildren => ParentLives

(* The list of children agrees with the parent of each process in the      *)
(* table, as proc_create_raw, proc_delete_impl and the adoption keep it.   *)
ChildrenAgree ==
  \A p \in procs : kids[p] = {q \in procs : parent[q] = p}

(* The same as long as only init has had children, whoever starts, exits,  *)
(* is killed, reaped or destroyed.                                         *)
FamilyTree == OnlyInitsChildren => ChildrenAgree

(* userland_shutdown, the only one that raises SIGKILL, has not yet.       *)
NobodyKilled == main \in {"up", "warn", "hup", "wait", "doom"}

(* The condition under which the clean-up is right: the other cases are    *)
(* those in which it uses a pointer that is null or freed.                 *)
Ordinary == NobodyKilled /\ OnlyInitsChildren

(* waitpid reports the exit of a child once, whatever claims it, as long   *)
(* as nobody is killed.                                                    *)
ReportedOnce == NobodyKilled => \A p \in Pids : reports[p] <= 1

(* The clean-up task of a process finds it in the table.                   *)
TaskHasProcess == hk = "lookup" => hkp \in procs

(* As long as nobody is killed it does: a process that exits by itself     *)
(* queues one task, and only that task makes it reapable.                  *)
CleanUpFindsProcess == NobodyKilled => TaskHasProcess

(* The housekeeping thread holds hk_mtx and process->mtx while it joins;   *)
(* the thread that it waits for needs neither to come to its end.          *)
JoinEnds ==
  hk = "join" => thread[hkp] \notin {"touch", "ignore", "create", "wait", "signal",
                                     "exit", "queue"}

(* As long as nobody is killed that is so: the thread has queued the task  *)
(* as its last operation that needs a mutex.                               *)
JoinedThreadCanExit == NobodyKilled => JoinEnds

(* As long as nobody is killed and only init has children the clean-up     *)
(* uses no null and no freed pointer.                                      *)
CleanUpSurvives == Ordinary => hk /= "crash"

(* A process that is exiting has exited, or is gone, in the end, unless    *)
(* the machine is switched off or panics, somebody is killed or a process  *)
(* other than init has children.  The clean-up task was added, and no      *)
(* wake-up of a mutex is lost.                                             *)
ExitingProcessExits ==
  \A p \in Pids : (conf.fair /\ ~conf.nomem /\ "EXITING" \in flags[p] /\ Ordinary)
                    ~> (p \notin procs \/ "EXITED" \in flags[p] \/ Halted \/ ~Ordinary)

(* The machine is powered off when all processes but init are gone and no  *)
(* thread of a process is left: allow_proc1_death keeps init until then.   *)
OffIsClean == main = "off" => procs \subseteq {1} /\ \A p \in Pids : NoThread(p)

(* The table of processes stays sound: an exited process has no thread, a  *)
(* deleted one is not in use, as a parent only while nobody but init has   *)
(* children, under which condition parents and lists of children agree as  *)
(* well, and the machine is switched off clean.                            *)
ProcessesSound ==
  TypeOK /\ ExitedHasNoThread /\ DeletedIsUnused /\ FamilyTree /\ OffIsClean

(* As long as nobody is killed, clean_up_from_housekeeping finds its       *)
(* process, the threads that it joins can exit, each change of state is    *)
(* reported once, and with children of init only no wrong pointer is used. *)
CleanUpSound ==
  CleanUpFindsProcess /\ CleanUpSurvives /\ JoinedThreadCanExit /\ ReportedOnce

(* PROC_EXITED, "Process has fully exited.", stays until the deletion.     *)
ExitedIsFinal ==
  [][\A p \in procs : "EXITED" \in flags[p] => "EXITED" \in flags'[p]]_vars

(* A non-blocking waitpid finds the child that has a change of state.      *)
PollReports ==
  [][\A p \in Pids : (thread[p] = "poll" /\ \E q \in kids[p] : "STATECHG" \in flags[q])
                        => (thread'[p] = "poll" \/ reports' /= reports)]_vars

(* PROC_SIGPEND: "Process has signals pending."                            *)
PendingFlag == \A p \in procs : "SIGPEND" \in flags[p] <=> sig[p] /= <<>>

(* A "pre-start" child is killed if its parent exits first.                *)
PrestartKilled ==
  \A p \in procs : "PRESTART" \in flags[p] =>
    ~(parent[p] \in procs /\ "EXITED" \in flags[parent[p]])

(* Every process is pre-start, being started, running, exiting or exited.  *)
NoLimbo ==
  \A p \in procs : \/ flags[p] \intersect {"PRESTART", "RUNNING", "EXITING", "EXITED"} /= {}
                   \/ \E q \in Pids : thread[q] \in {"load", "loading"} /\ arg[q] = p

(* userland_shutdown kills the processes that wait too long.               *)
ShutdownEnds == shutdown ~> ~Up
=============================================================================
