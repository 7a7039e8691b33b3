------------------------------ MODULE Scheduler ------------------------------
(***************************************************************************)
(* kernel/src/scheduler/scheduler.c: the flags of the threads, the run     *)
(* queues of the CPUs, and sched_request_switch_from_isr, which every CPU  *)
(* executes with interrupts disabled in the steps                          *)
(*   "enter" (scheduler flags), then "count" on a CPU that starts and      *)
(*   "uncount", "leave" and "evict" on one that exits; "arrive", "min",    *)
(*   "barrier", "sum" and "balance" (load balancing); "incoming", "pick"   *)
(*   (once per examined thread) and "switch".                              *)
(* Until "switch" the CPU still executes on the thread it came from        *)
(* (cur[c]); the context of that thread is saved by isr_context_switch.    *)
(* In "run" the current thread executes with interrupts enabled: it may    *)
(* be preempted or call the functions of the scheduler.  Operations under  *)
(* a mutex that contain one atomic access to shared state are one step.    *)
(* The thread table itself is module ThreadTable.                          *)
(***************************************************************************)
EXTENDS Integers, Sequences, FiniteSets, Arrays, Functions

CONSTANTS NCpus,      \* smp_count
          Threads,    \* all threads; they exist already
          Users,      \* those that belong to the (one) process
          Boot,       \* the thread that main.c resumes before sched_exec
          IntMax,     \* INT_MAX
          MaxEst,     \* bound: load_estimate, which every resume adds to
          Configs     \* the workloads: the threads that are ever resumed, the
                      \* operations (ops) they use, the measured values of
                      \* cpu_usage (loads), how many load measurement intervals
                      \* elapse (maxEpoch), and whether the preemption timer is
                      \* sure to end every time slice (fair)

ASSUME CpusAssumption == NCpus \in Nat \ {0}

Idle == "idle"      \* the idle thread of a CPU
NoThread == "boot"  \* the stack on which sched_exec runs

ASSUME ThreadsAssumption ==
  /\ IsFiniteSet(Threads) /\ Idle \notin Threads /\ NoThread \notin Threads
  /\ Users \subseteq Threads /\ Boot \in Threads \ Users
  /\ IntMax \in Nat /\ MaxEst \in Nat

ASSUME ConfigsAssumption ==
  \A w \in Configs : /\ Boot \in w.threads /\ w.threads \subseteq Threads
                     /\ w.loads \subseteq Nat /\ w.loads # {} /\ w.maxEpoch \in Nat
                     /\ w.fair \in BOOLEAN

Cpus == 0 .. NCpus - 1

VARIABLES conf,      \* the workload, which never changes
          flags,     \* the THREAD_ flags of each thread
          proc,      \* the PROC_ flags of the process
          queue,     \* the run queue of each CPU, with its current thread
          incoming,  \* threads handed to each CPU
          dead,      \* dead_threads
          freed,     \* the threads that housekeeping has freed
          pc,        \* where each CPU is
          cur,       \* the thread on which each CPU executes
          mode,      \* the privilege mode of cur[c]
          next,      \* the target of the context switch, and its mode
          sched,     \* the SCHED_ flags of each CPU
          shares,    \* shares of run_mtx that were not released
          count,     \* running_sched_count
          ready,     \* loadbalance_ready_count
          bal,       \* the locals of each CPU: now, and of load balancing min,
                     \* index, average; and the interval it last measured (at)
          usage,     \* timeusage.cpu_usage of each thread
          avg, est,  \* load_average and load_estimate of each CPU
          epoch,     \* the current load interval
          measured,  \* the interval that load_measure_time ends, per CPU
          timers,    \* threads with a pending wake timer
          sleep,     \* how far each thread is in thread_sleep
          resuming   \* the thread that each thread is about to hand off

threadVars == <<flags, proc, dead, freed, timers, sleep, resuming>>
listVars == <<queue, incoming>>
cpuVars == <<pc, cur, mode, next>>
schedVars == <<sched, shares, count>>
loadVars == <<ready, bal, usage, avg, est, epoch, measured>>
vars == <<conf, threadVars, listVars, cpuVars, schedVars, loadVars>>

Flags == {"RUNNING", "EXITING", "DETACHED", "PRIVILEGED", "STARTNOW",
          "SUSPENDING", "KSUSPEND", "EXITED"}

Pcs == {"off", "enter", "count", "uncount", "leave", "evict", "arrive", "min",
        "barrier", "sum", "balance", "incoming", "pick", "switch", "run"}

(* The types; the counters of CPUs stay within the number of CPUs.         *)
TypeOK == /\ conf \in Configs
          /\ flags \in [Threads -> SUBSET Flags]
          /\ proc \subseteq {"EXITING", "SIGPEND"}
          /\ queue \in [Cpus -> Seq(Threads)] /\ incoming \in [Cpus -> Seq(Threads)]
          /\ dead \in Seq(Threads)
          /\ freed \subseteq Threads /\ timers \subseteq Threads
          /\ sleep \in [Threads -> {"no", "timed", "suspended"}]
          /\ resuming \in [Threads -> Threads \union {NoThread}]
          /\ pc \in [Cpus -> Pcs]
          /\ cur \in [Cpus -> Threads \union {Idle, NoThread}]
          /\ mode \in [Cpus -> {"user", "kernel"}]
          /\ next \in [Cpus -> (Threads \union {Idle, NoThread}) \X {"user", "kernel"}]
          /\ sched \in [Cpus -> SUBSET {"STARTING", "RUNNING", "EXITING"}]
          /\ shares \in [Cpus -> Nat]
          /\ count \in 0 .. NCpus /\ ready \in 0 .. NCpus
          /\ bal \in [Cpus -> [min : 0 .. NCpus, i : Nat, avg : Int,
                               now : 0 .. epoch, at : 0 .. conf.maxEpoch]]
          /\ usage \in [Threads -> Nat]
          /\ avg \in [Cpus -> Nat] /\ est \in [Cpus -> Nat]
          /\ epoch \in 0 .. conf.maxEpoch /\ measured \in [Cpus -> 0 .. conf.maxEpoch]

(* CPU 0 is in sched_exec and the boot thread was resumed; the other       *)
(* threads were created and the other CPUs are off.                        *)
Init ==
  /\ conf \in Configs
  /\ flags = [t \in Threads |-> (IF t \in Users THEN {} ELSE {"PRIVILEGED"})
                                 \union (IF t = Boot THEN {"RUNNING"} ELSE {})]
  /\ proc = {} /\ dead = <<>> /\ freed = {} /\ timers = {}
  /\ sleep = [t \in Threads |-> "no"]
  /\ resuming = [t \in Threads |-> NoThread]
  /\ queue = [c \in Cpus |-> <<>>]
  /\ incoming = [c \in Cpus |-> IF c = 0 THEN <<Boot>> ELSE <<>>]
  /\ pc = [c \in Cpus |-> IF c = 0 THEN "enter" ELSE "off"]
  /\ cur = [c \in Cpus |-> NoThread]
  /\ mode = [c \in Cpus |-> "kernel"]
  /\ next = [c \in Cpus |-> <<NoThread, "kernel">>]
  /\ sched = [c \in Cpus |-> {}] /\ shares = [c \in Cpus |-> 0]
  /\ count = 0 /\ ready = 0
  /\ bal = [c \in Cpus |-> [min |-> 0, i |-> 0, avg |-> 0, now |-> 0, at |-> 0]]
  /\ usage = [t \in Threads |-> 0]
  /\ avg = [c \in Cpus |-> 0] /\ est = [c \in Cpus |-> 0]
  /\ epoch = 0 /\ measured = [c \in Cpus |-> 0]

Goto(c, at) == pc' = [pc EXCEPT ![c] = at]

(***************************************************************************)
(* sched_start_on and sched_exec; sched_exit.                              *)
(***************************************************************************)
Running(c) == "RUNNING" \in sched[c] /\ "EXITING" \notin sched[c]

StartCpu(c) ==
  /\ pc[c] = "off"
  /\ Goto(c, "enter")
  /\ cur' = [cur EXCEPT ![c] = NoThread]
  /\ sched' = [sched EXCEPT ![c] = {}]
  /\ avg' = [avg EXCEPT ![c] = 0] /\ est' = [est EXCEPT ![c] = 0]
  /\ measured' = [measured EXCEPT ![c] = epoch]
  /\ UNCHANGED <<threadVars, listVars, mode, next, shares, count, ready, bal,
                 usage, epoch>>

(* A CPU that exits holds its run_mtx until it is powered off.             *)
Locked(c) == pc[c] \in {"uncount", "leave", "evict"}

ExitCpu(c) ==
  /\ shares[c] = 0 /\ ~Locked(c)
  /\ sched' = [sched EXCEPT ![c] = @ \union {"EXITING"}]
  /\ UNCHANGED <<threadVars, listVars, cpuVars, shares, count, loadVars>>

(***************************************************************************)
(* sw_measure_load, and the arrival at the barrier of                      *)
(* sw_handle_loadbalance.  now is the interval in which the CPU entered.   *)
(***************************************************************************)
Measure(c, now) ==
  \E u \in [Range(queue[c]) -> conf.loads] :
    LET total == FoldFunction(+, 0, u) IN
    /\ usage' = [t \in Threads |-> IF t \in DOMAIN u THEN u[t] ELSE usage[t]]
    /\ avg' = [avg EXCEPT ![c] = total] /\ est' = [est EXCEPT ![c] = total]
    /\ bal' = [bal EXCEPT ![c].at = now]
    /\ measured' = [measured EXCEPT ![c] = now]
    /\ Goto(c, "arrive")
    /\ UNCHANGED <<ready, epoch>>

MeasureIfDue(c, now) ==
  IF now > measured[c] THEN Measure(c, now)
                       ELSE Goto(c, "incoming") /\ UNCHANGED loadVars

Arrive(c) ==
  /\ pc[c] = "arrive"
  /\ ready' = ready + 1
  /\ Goto(c, "min")
  /\ UNCHANGED <<threadVars, listVars, cur, mode, next, schedVars, bal, usage, avg, est,
                 epoch, measured>>

ReadMin(c) ==
  /\ pc[c] = "min"
  /\ bal' = [bal EXCEPT ![c].min = count]
  /\ Goto(c, "barrier")
  /\ UNCHANGED <<threadVars, listVars, cur, mode, next, schedVars, ready, usage, avg, est,
                 epoch, measured>>

(***************************************************************************)
(* sw_handle_sched_flags.  In its first request a CPU gets SCHED_STARTING, *)
(* in the second SCHED_RUNNING, and then it is counted.                    *)
(***************************************************************************)
EnterNormal(c) ==
  /\ pc[c] = "enter" /\ sched[c] = {"RUNNING"}
  /\ MeasureIfDue(c, epoch)
  /\ UNCHANGED <<threadVars, listVars, cur, mode, next, schedVars>>

NoFirstRequest(c) == FALSE  \* mutant: SCHED_RUNNING at once

FirstRequest(c) == "STARTING" \notin sched[c]

EnterFirst(c) ==
  /\ pc[c] = "enter" /\ "RUNNING" \notin sched[c] /\ FirstRequest(c)
  /\ sched' = [sched EXCEPT ![c] = @ \union {"STARTING"}]
  /\ MeasureIfDue(c, epoch)
  /\ UNCHANGED <<threadVars, listVars, cur, mode, next, shares, count>>

EnterStarting(c) ==
  /\ pc[c] = "enter" /\ "RUNNING" \notin sched[c] /\ ~FirstRequest(c)
  /\ sched' = [sched EXCEPT ![c] = (@ \ {"STARTING"}) \union {"RUNNING"}]
  /\ bal' = [bal EXCEPT ![c].now = epoch]
  /\ Goto(c, "count")
  /\ UNCHANGED <<threadVars, listVars, cur, mode, next, shares, count, ready, usage, avg,
                 est, epoch, measured>>

CountCpu(c) ==
  /\ pc[c] = "count"
  /\ count' = count + 1
  /\ MeasureIfDue(c, bal[c].now)
  /\ UNCHANGED <<threadVars, listVars, cur, mode, next, sched, shares>>

(* An exiting CPU locks its run_mtx, is no longer counted, gives up all of *)
(* its threads ("evict") and is powered off.                               *)
EnterExiting(c) ==
  /\ pc[c] = "enter" /\ {"RUNNING", "EXITING"} \subseteq sched[c]
  /\ shares[c] = 0
  /\ avg' = [avg EXCEPT ![c] = 0] /\ est' = [est EXCEPT ![c] = 0]
  /\ Goto(c, "uncount")
  /\ UNCHANGED <<threadVars, listVars, cur, mode, next, schedVars, ready, bal, usage, epoch,
                 measured>>

UncountCpu(c) ==
  /\ pc[c] = "uncount"
  /\ count' = count - 1
  /\ Goto(c, "leave")
  /\ UNCHANGED <<threadVars, listVars, cur, mode, next, sched, shares, loadVars>>

ExitClears == {"RUNNING", "EXITING"}

LeaveQueues(c) ==
  /\ pc[c] = "leave"
  /\ sched' = [sched EXCEPT ![c] = @ \ ExitClears]
  /\ queue' = [queue EXCEPT ![c] = @ \o incoming[c]]
  /\ incoming' = [incoming EXCEPT ![c] = <<>>]
  /\ bal' = [bal EXCEPT ![c].i = 0]
  /\ Goto(c, "evict")
  /\ UNCHANGED <<threadVars, cur, mode, next, shares, count, ready, usage, avg, est, epoch,
                 measured>>

(***************************************************************************)
(* The loops over the other CPUs begin at start and go round.              *)
(***************************************************************************)
Turn(d, start) == (d - start) % NCpus

FirstRunning(c, start) ==
  {d \in Cpus \ {c} : /\ Running(d)
                      /\ \A e \in Cpus \ {c} : Running(e) => Turn(d, start) <= Turn(e, start)}

Refused(c, start) ==
  {d \in Cpus \ {c} : \A e \in Cpus \ {c} : Running(e) => Turn(d, start) < Turn(e, start)}

(***************************************************************************)
(* thread_handoff from c to the first other CPU that runs; it waits for    *)
(* the run_mtx of a CPU that exits.  It keeps the share of run_mtx of      *)
(* every CPU that does not run, and claims success also when the CPU it    *)
(* found has no space for the thread.                                      *)
(***************************************************************************)
Handoff(t, c, start, max) ==
  LET fits == {d \in FirstRunning(c, start) : est[d] + usage[t] <= max}
  IN /\ \A d \in Refused(c, start) : ~Locked(d)
     /\ shares' = [d \in Cpus |-> shares[d] + (IF d \in Refused(c, start) THEN 1 ELSE 0)]
     /\ \/ \E d \in fits : /\ incoming' = [incoming EXCEPT ![d] = Append(@, t)]
                           /\ est' = [est EXCEPT ![d] = @ + usage[t]]
        \/ fits = {} /\ UNCHANGED <<incoming, est>>

Evict(c) ==
  /\ pc[c] = "evict" /\ queue[c] # <<>>
  /\ Handoff(Head(queue[c]), c, bal[c].i + 1, IntMax)
  /\ \E d \in FirstRunning(c, bal[c].i + 1) : bal' = [bal EXCEPT ![c].i = d]
  /\ queue' = [queue EXCEPT ![c] = Tail(@)]
  /\ UNCHANGED <<threadVars, cpuVars, sched, count, ready, usage, avg, epoch, measured>>

(* The locals of the functions that use bal die on their return.           *)
LocalsDead(c) ==
  bal' = [bal EXCEPT ![c].min = 0, ![c].i = 0, ![c].avg = 0, ![c].now = 0]

PowerOff(c) ==
  /\ pc[c] = "evict" /\ queue[c] = <<>>
  /\ Goto(c, "off") /\ LocalsDead(c)
  /\ UNCHANGED <<threadVars, listVars, cur, mode, next, schedVars, ready, usage, avg,
                 est, epoch, measured>>

(***************************************************************************)
(* sw_handle_loadbalance reads the loads one after the other, and then     *)
(* running_sched_count.  RISC-V division by zero gives -1.                 *)
(***************************************************************************)
PassBarrier(c) ==
  /\ pc[c] = "barrier" /\ ready >= bal[c].min
  /\ bal' = [bal EXCEPT ![c].i = 0, ![c].avg = 0]
  /\ Goto(c, "sum")
  /\ UNCHANGED <<threadVars, listVars, cur, mode, next, schedVars, ready, usage, avg, est,
                 epoch, measured>>

AddAverage(c) ==
  /\ pc[c] = "sum" /\ bal[c].i < NCpus
  /\ bal' = [bal EXCEPT ![c].avg = @ + avg[bal[c].i], ![c].i = @ + 1]
  /\ UNCHANGED <<threadVars, listVars, cpuVars, schedVars, ready, usage, avg, est, epoch,
                 measured>>

GlobalAverage(c) == IF count = 0 THEN -1 ELSE bal[c].avg \div count

LeaveBarrier == ready' = ready - 1

CompareLoad(c) ==
  /\ pc[c] = "sum" /\ bal[c].i >= NCpus
  /\ IF avg[c] <= GlobalAverage(c)
     THEN LeaveBarrier /\ Goto(c, "incoming") /\ LocalsDead(c)
     ELSE /\ bal' = [bal EXCEPT ![c].i = 0, ![c].avg = GlobalAverage(c)]
          /\ Goto(c, "balance")
          /\ UNCHANGED ready
  /\ UNCHANGED <<threadVars, listVars, cur, mode, next, schedVars, usage, avg, est,
                 epoch, measured>>

KeepFirst(q) == q  \* mutant: the thread is prepended

Rotate(q) == Append(Tail(q), Head(q))

Balance(c) ==
  /\ pc[c] = "balance" /\ bal[c].i < Len(queue[c])
  /\ Handoff(Head(queue[c]), c, 0, bal[c].avg)
  /\ queue' = [queue EXCEPT ![c] = IF FirstRunning(c, 0) # {} THEN Tail(@) ELSE Rotate(@)]
  /\ bal' = [bal EXCEPT ![c].i = @ + 1]
  /\ UNCHANGED <<threadVars, cpuVars, sched, count, ready, usage, avg, epoch, measured>>

BalanceDone(c) ==
  /\ pc[c] = "balance" /\ bal[c].i >= Len(queue[c])
  /\ LeaveBarrier /\ Goto(c, "incoming") /\ LocalsDead(c)
  /\ UNCHANGED <<threadVars, listVars, cur, mode, next, schedVars, usage, avg, est,
                 epoch, measured>>

(***************************************************************************)
(* The rest of sched_request_switch_from_isr.                              *)
(***************************************************************************)
(* The (one) sequence of the elements of s that are in S, in their order.  *)
Those(s, S) ==
  LET places == {i \in DOMAIN s : s[i] \in S}
      ways == {p \in UNION {[1 .. n -> places] : n \in 0 .. Len(s)} :
                 /\ Range(p) = places
                 /\ \A i, j \in DOMAIN p : i < j => p[i] < p[j]}
  IN {[i \in DOMAIN p |-> s[p[i]]] : p \in ways}

StartNow == {t \in Threads : "STARTNOW" \in flags[t]}

TakeIncoming(c) ==
  /\ pc[c] = "incoming"
  /\ \E front \in Those(incoming[c], StartNow), back \in Those(incoming[c], Threads \ StartNow) :
       queue' = [queue EXCEPT ![c] = Reverse(front) \o @ \o back]
  /\ incoming' = [incoming EXCEPT ![c] = <<>>]
  /\ Goto(c, "pick")
  /\ UNCHANGED <<threadVars, cur, mode, next, schedVars, loadVars>>

MustDie(t) ==
  \/ "EXITING" \in flags[t]
  \/ t \in Users /\ "EXITING" \in proc /\ "PRIVILEGED" \notin flags[t]

MustSuspend(t) ==
  /\ "SUSPENDING" \in flags[t]
  /\ "KSUSPEND" \in flags[t] \/ "PRIVILEGED" \notin flags[t]

(* The two changes of the flags, which nobody else clears, and the list    *)
(* under unused_mtx are one step: who reads the flags between them finds   *)
(* the thread neither resumable nor in dead_threads, as before.            *)
PickDead(c) ==
  LET t == Head(queue[c]) IN
  /\ pc[c] = "pick" /\ queue[c] # <<>> /\ MustDie(t)
  /\ flags' = [flags EXCEPT ![t] = (@ \union {"EXITED"}) \ {"RUNNING", "EXITING"}]
  /\ dead' = Append(dead, t)
  /\ queue' = [queue EXCEPT ![c] = Tail(@)]
  /\ UNCHANGED <<proc, freed, timers, sleep, resuming, incoming, cpuVars, schedVars, loadVars>>

SuspendClears == {"RUNNING", "KSUSPEND", "SUSPENDING"}

PickSuspended(c) ==
  LET t == Head(queue[c]) IN
  /\ pc[c] = "pick" /\ queue[c] # <<>> /\ ~MustDie(t) /\ MustSuspend(t)
  /\ flags' = [flags EXCEPT ![t] = @ \ SuspendClears]
  /\ queue' = [queue EXCEPT ![c] = Tail(@)]
  /\ UNCHANGED <<proc, dead, freed, timers, sleep, resuming, incoming, cpuVars, schedVars, loadVars>>

(* set_switch reads the flags of the thread before sched_raise_from_isr    *)
(* sets THREAD_PRIVILEGED, and chooses the context by the value it read.   *)
SetSwitch(c, t) ==
  /\ next' = [next EXCEPT ![c] =
                <<t, IF "PRIVILEGED" \in flags[t] THEN "kernel" ELSE "user">>]
  /\ flags' = IF t \in Users /\ "SIGPEND" \in proc /\ "PRIVILEGED" \notin flags[t]
              THEN [flags EXCEPT ![t] = @ \union {"PRIVILEGED"}] ELSE flags

PickRunnable(c) ==
  LET t == Head(queue[c]) IN
  /\ pc[c] = "pick" /\ queue[c] # <<>> /\ ~MustDie(t) /\ ~MustSuspend(t)
  /\ SetSwitch(c, t)
  /\ queue' = [queue EXCEPT ![c] = Rotate(@)]
  /\ Goto(c, "switch")
  /\ UNCHANGED <<proc, dead, freed, timers, sleep, resuming, incoming, cur, mode, schedVars, loadVars>>

PickIdle(c) ==
  /\ pc[c] = "pick" /\ queue[c] = <<>>
  /\ next' = [next EXCEPT ![c] = <<Idle, "kernel">>]
  /\ Goto(c, "switch")
  /\ UNCHANGED <<threadVars, listVars, cur, mode, schedVars, loadVars>>

(* isr_context_switch: saves the registers of cur[c], loads those of next. *)
Switch(c) ==
  /\ pc[c] = "switch"
  /\ cur' = [cur EXCEPT ![c] = next[c][1]]
  /\ mode' = [mode EXCEPT ![c] = next[c][2]]
  /\ next' = [next EXCEPT ![c] = <<NoThread, "kernel">>]
  /\ Goto(c, "run")
  /\ UNCHANGED <<threadVars, listVars, schedVars, loadVars>>

Request(c) == \/ EnterNormal(c)
              \/ EnterFirst(c) \/ EnterStarting(c) \/ CountCpu(c)
              \/ EnterExiting(c) \/ UncountCpu(c) \/ LeaveQueues(c)
              \/ Evict(c) \/ PowerOff(c)
              \/ Arrive(c) \/ ReadMin(c) \/ PassBarrier(c) \/ AddAverage(c)
              \/ CompareLoad(c) \/ Balance(c) \/ BalanceDone(c)
              \/ TakeIncoming(c) \/ PickDead(c) \/ PickSuspended(c)
              \/ PickRunnable(c) \/ PickIdle(c) \/ Switch(c)

(***************************************************************************)
(* What the current thread, or an interrupt, does in "run".                *)
(***************************************************************************)
InKernel(c) ==
  /\ pc[c] = "run" /\ mode[c] = "kernel" /\ cur[c] \in Threads
  /\ sleep[cur[c]] = "no" /\ resuming[cur[c]] = NoThread

(* thread_yield, the preemption timer, and the idle thread.                *)
Yield(c) ==
  /\ pc[c] = "run"
  /\ Goto(c, "enter")
  /\ UNCHANGED <<threadVars, listVars, cur, mode, next, schedVars, loadVars>>

SetFlags(t, on) == flags' = [flags EXCEPT ![t] = @ \union on]

SuspendFlags(k) == IF k THEN {"SUSPENDING", "KSUSPEND"} ELSE {"SUSPENDING"}

(* thread_suspend.  A kernel thread can only be suspended in the kernel;   *)
(* a thread that suspends itself there yields.                             *)
Suspend(c, t, k) ==
  /\ InKernel(c) /\ t \notin freed /\ (t \in Users \/ k)
  /\ IF "RUNNING" \in flags[t] THEN SetFlags(t, SuspendFlags(k)) ELSE UNCHANGED flags
  /\ Goto(c, IF t = cur[c] /\ k THEN "enter" ELSE "run")
  /\ UNCHANGED <<proc, dead, freed, timers, sleep, resuming, listVars, cur, mode, next, schedVars,
                 loadVars>>

(* thread_resume_impl: thread_try_mark_running, and then, with interrupts  *)
(* disabled, a forced handoff to this CPU.                                 *)
ResumableAlways(t) == flags[t] \intersect {"EXITED", "EXITING"} = {}  \* mutant

ResumableExited(t) == flags[t] \intersect {"RUNNING"} = {}  \* mutant

Resumable(t) == flags[t] \intersect {"EXITED", "EXITING", "RUNNING"} = {}

MarkRunning(t, startNow) ==
  /\ t \notin freed /\ Resumable(t)
  /\ flags' = [flags EXCEPT ![t] = (@ \ {"SUSPENDING"}) \union {"RUNNING"}
                                   \union (IF startNow THEN {"STARTNOW"} ELSE {})]

ForceHandoff(c, t) ==
  /\ est[c] + usage[t] <= MaxEst
  /\ incoming' = [incoming EXCEPT ![c] = Append(@, t)]
  /\ est' = [est EXCEPT ![c] = @ + usage[t]]

Resume(c, t, startNow) ==
  /\ InKernel(c) /\ MarkRunning(t, startNow)
  /\ resuming' = [resuming EXCEPT ![cur[c]] = t]
  /\ UNCHANGED <<proc, dead, freed, timers, sleep, listVars, cpuVars, schedVars, loadVars>>

ResumeHandoff(c) ==
  /\ pc[c] = "run" /\ cur[c] \in Threads /\ resuming[cur[c]] # NoThread
  /\ ForceHandoff(c, resuming[cur[c]])
  /\ resuming' = [resuming EXCEPT ![cur[c]] = NoThread]
  /\ UNCHANGED <<flags, proc, dead, freed, timers, sleep, queue, cpuVars, schedVars, ready,
                 bal, usage, avg, epoch, measured>>

Exit(c) ==
  /\ InKernel(c)
  /\ SetFlags(cur[c], {"EXITING"})
  /\ Goto(c, "enter")
  /\ UNCHANGED <<proc, dead, freed, timers, sleep, resuming, listVars, cur, mode, next, schedVars,
                 loadVars>>

(* thread_detach; and thread_join when it finds the thread exited.         *)
Detach(c, t) ==
  /\ InKernel(c) /\ t \notin freed
  /\ SetFlags(t, {"DETACHED"})
  /\ UNCHANGED <<proc, dead, freed, timers, sleep, resuming, listVars, cpuVars, schedVars, loadVars>>

Join(c, t) == "EXITED" \in flags[t] /\ Detach(c, t)

(* thread_sleep: thread_set_wake_time, and then thread_suspend of itself;  *)
(* it returns when the thread runs again.                                  *)
SetWakeTime(c) ==
  /\ InKernel(c)
  /\ timers' = timers \union {cur[c]}
  /\ sleep' = [sleep EXCEPT ![cur[c]] = "timed"]
  /\ UNCHANGED <<flags, proc, dead, freed, resuming, listVars, cpuVars, schedVars,
                 loadVars>>

SleepSuspend(c) ==
  /\ pc[c] = "run" /\ cur[c] \in Threads /\ sleep[cur[c]] = "timed"
  /\ sleep' = [sleep EXCEPT ![cur[c]] = "suspended"]
  /\ SetFlags(cur[c], SuspendFlags(TRUE))
  /\ Goto(c, "enter")
  /\ UNCHANGED <<proc, dead, freed, timers, resuming, listVars, cur, mode, next, schedVars,
                 loadVars>>

(* syscall_thread_sleep returns, and the thread is suspended in user mode. *)
SyscallSleep(c) ==
  /\ pc[c] = "run" /\ cur[c] \in Users /\ sleep[cur[c]] = "timed"
  /\ sleep' = [sleep EXCEPT ![cur[c]] = "no"]
  /\ SetFlags(cur[c], SuspendFlags(FALSE))
  /\ UNCHANGED <<proc, dead, freed, timers, resuming, listVars, cpuVars, schedVars, loadVars>>

SleepReturn(c) ==
  /\ pc[c] = "run" /\ cur[c] \in Threads /\ sleep[cur[c]] = "suspended"
  /\ sleep' = [sleep EXCEPT ![cur[c]] = "no"]
  /\ UNCHANGED <<flags, proc, dead, freed, timers, resuming, listVars, cpuVars, schedVars,
                 loadVars>>

(* thread_resume_from_timer, on whichever CPU takes the timer interrupt.   *)
Wake(c, t) ==
  /\ pc[c] = "run" /\ t \in timers
  /\ timers' = timers \ {t}
  /\ \/ MarkRunning(t, TRUE) /\ ForceHandoff(c, t)
     \/ (t \in freed \/ ~Resumable(t)) /\ UNCHANGED <<flags, incoming, est>>
  /\ UNCHANGED <<proc, dead, freed, sleep, resuming, queue, cpuVars, schedVars, ready, bal,
                 usage, avg, epoch, measured>>

(* sched_raise_from_isr for a system call, and sched_lower_from_isr.       *)
Raise(c) ==
  /\ pc[c] = "run" /\ mode[c] = "user"
  /\ SetFlags(cur[c], {"PRIVILEGED"})
  /\ mode' = [mode EXCEPT ![c] = "kernel"]
  /\ UNCHANGED <<proc, dead, freed, timers, sleep, resuming, listVars, pc, cur, next, schedVars,
                 loadVars>>

Lower(c) ==
  /\ InKernel(c) /\ cur[c] \in Users
  /\ flags' = [flags EXCEPT ![cur[c]] = @ \ {"PRIVILEGED"}]
  /\ mode' = [mode EXCEPT ![c] = "user"]
  /\ Goto(c, IF "EXITING" \in proc THEN "enter" ELSE "run")
  /\ UNCHANGED <<proc, dead, freed, timers, sleep, resuming, listVars, cur, next, schedVars, loadVars>>

SetProc(c, flag) ==
  /\ InKernel(c)
  /\ proc' = proc \union {flag}
  /\ UNCHANGED <<flags, dead, freed, timers, sleep, resuming, listVars, cpuVars, schedVars, loadVars>>

(* sched_housekeeping, with threads_mtx held exclusively (thread_resume    *)
(* holds a share), frees the dead threads that are detached.               *)
DeadAndDetached == {t \in Range(dead) : "DETACHED" \in flags[t]}

Housekeeping(c) ==
  /\ InKernel(c) /\ DeadAndDetached # {} /\ \A t \in Threads : resuming[t] = NoThread
  /\ dead' \in Those(dead, Threads \ DeadAndDetached)
  /\ freed' = freed \union DeadAndDetached
  /\ UNCHANGED <<flags, proc, timers, sleep, resuming, listVars, cpuVars, schedVars, loadVars>>

Interval ==
  /\ epoch < conf.maxEpoch
  /\ epoch' = epoch + 1
  /\ UNCHANGED <<threadVars, listVars, cpuVars, schedVars, ready, bal, usage, avg, est,
                 measured>>

Call(c) ==
  \/ "exit" \in conf.ops /\ Exit(c)
  \/ "sleep" \in conf.ops /\ (\/ SetWakeTime(c) \/ SleepSuspend(c) \/ SyscallSleep(c)
                          \/ SleepReturn(c))
  \/ "syscall" \in conf.ops /\ (Raise(c) \/ Lower(c))
  \/ "kill" \in conf.ops /\ SetProc(c, "EXITING")
  \/ "signal" \in conf.ops /\ SetProc(c, "SIGPEND")
  \/ "exit" \in conf.ops /\ Housekeeping(c)
  \/ ResumeHandoff(c)
  \/ \E t \in conf.threads :
       \/ "suspend" \in conf.ops /\ \E k \in BOOLEAN : Suspend(c, t, k)
       \/ \E startNow \in BOOLEAN : /\ startNow => "now" \in conf.ops
                                    /\ Resume(c, t, startNow)
       \/ "sleep" \in conf.ops /\ Wake(c, t)
       \/ "exit" \in conf.ops /\ (Detach(c, t) \/ Join(c, t))
  \/ \E d \in Cpus : \/ "smp" \in conf.ops /\ InKernel(c) /\ StartCpu(d)
                     \/ "poweroff" \in conf.ops /\ InKernel(c) /\ ExitCpu(d)

Next == /\ Interval \/ \E c \in Cpus : Request(c) \/ Yield(c) \/ Call(c)
        /\ UNCHANGED conf

Spec == Init /\ [][Next]_vars

(***************************************************************************)
(* A CPU keeps executing, and the preemption timer ends every time slice.  *)
(***************************************************************************)
FairSpec ==
  Spec /\ \A c \in Cpus : /\ WF_vars(conf.fair /\ Request(c) /\ UNCHANGED conf)
                         /\ WF_vars(conf.fair /\ Yield(c) /\ UNCHANGED conf)
-----------------------------------------------------------------------------
(* The threads in the lists of a CPU.                                      *)
OnCpu(c) == Range(queue[c]) \union Range(incoming[c])

Queued == UNION {OnCpu(c) : c \in Cpus}

(* The threads that others are about to queue.                             *)
InHand == {resuming[r] : r \in Threads} \ {NoThread}

Executes(c, t) == pc[c] # "off" /\ cur[c] = t

(***************************************************************************)
(* A thread has one list node, so it is never in two places of the run     *)
(* queues, the incoming lists and dead_threads, and nobody is about to     *)
(* queue it a second time.                                                 *)
(***************************************************************************)
OneListNode ==
  /\ \A c \in Cpus : /\ IsInjective(queue[c]) /\ IsInjective(incoming[c])
                     /\ Range(queue[c]) \intersect Range(incoming[c]) = {}
  /\ \A c, d \in Cpus : c # d => OnCpu(c) \intersect OnCpu(d) = {}
  /\ IsInjective(dead) /\ Range(dead) \intersect (Queued \union InHand) = {}
  /\ Queued \intersect InHand = {}
  /\ \A r, s \in Threads : resuming[r] = resuming[s] => r = s \/ resuming[r] = NoThread

(***************************************************************************)
(* THREAD_RUNNING means "The thread is currently in the scheduling         *)
(* queues": a thread that may run is queued, or one thread is about to     *)
(* queue it, and one that may not is not queued.  (A thread that is        *)
(* blocked on a mutex is the exception, see module Mutex.)                 *)
(***************************************************************************)
InSchedulingQueues == Queued \union InHand = {t \in Threads : "RUNNING" \in flags[t]}

(***************************************************************************)
(* Without load balancing it holds, also while CPUs come and go: eviction  *)
(* by sw_handle_sched_flags loses and duplicates no thread.                *)
(***************************************************************************)
RunningIsQueued == epoch = 0 => InSchedulingQueues

(***************************************************************************)
(* Only a thread that is neither suspended nor exited executes outside the *)
(* scheduler, and it is the last of its CPU's queue, so that the next      *)
(* request gives every other thread its turn first.                        *)
(***************************************************************************)
CurrentIsRunnable ==
  \A c \in Cpus : pc[c] = "run" /\ cur[c] \in Threads =>
    "RUNNING" \in flags[cur[c]] /\ Last(queue[c]) = cur[c]

(***************************************************************************)
(* sched_housekeeping frees a thread, and with it the kernel stack, only   *)
(* when no list holds its node and, as long as there is one CPU, when no   *)
(* CPU executes on it.  (A second CPU can free the stack on which the      *)
(* first one is still looking for the next thread.)                        *)
(***************************************************************************)
FreedIsUnused ==
  \A t \in freed :
    /\ t \notin Queued \union Range(dead)
    /\ "smp" \notin conf.ops => \A c \in Cpus : ~Executes(c, t)

(***************************************************************************)
(* At most one CPU executes on a thread.                                   *)
(***************************************************************************)
OneCpuPerThread ==
  \A t \in Threads : \A c, d \in Cpus : Executes(c, t) /\ Executes(d, t) => c = d

(***************************************************************************)
(* When sched_start_on sees SCHED_RUNNING it frees the temporary stack:    *)
(* by then the CPU has switched away from it ("Mark as running afterwards  *)
(* so CPU0 can free the stack.").                                          *)
(***************************************************************************)
StartStackUnused ==
  \A c \in Cpus : "RUNNING" \in sched[c] => ~Executes(c, NoThread)

(***************************************************************************)
(* running_sched_count and loadbalance_ready_count, which the barrier of   *)
(* the load balancer compares, count the CPUs that run a scheduler, but    *)
(* for those between the change of the flag and that of the counter, and   *)
(* the CPUs that are between measuring and the end of balancing.           *)
(***************************************************************************)
Counted == {c \in Cpus : "RUNNING" \in sched[c] /\ pc[c] \notin {"count", "leave"}}

Balancing == {c \in Cpus : pc[c] \in {"min", "barrier", "sum", "balance"}}

CountersAgree == count = Cardinality(Counted) /\ ready = Cardinality(Balancing)

(***************************************************************************)
(* A thread that exited never runs again: thread_try_mark_running refuses  *)
(* it, and nothing clears THREAD_EXITED.                                   *)
(***************************************************************************)
ExitedIsFinal ==
  [][\A t \in Threads : "EXITED" \in flags[t] =>
       "EXITED" \in flags'[t] /\ "RUNNING" \notin flags'[t]]_vars

(* The lists and counters of the scheduler agree with the flags of the     *)
(* threads: a thread is in one list at most, a RUNNING one is in a queue,  *)
(* the current thread of a CPU may run, and running_sched_count and        *)
(* loadbalance_ready_count count.                                          *)
QueuesSound == TypeOK /\ OneListNode /\ RunningIsQueued /\ CurrentIsRunnable /\ CountersAgree

(* Nobody executes on a stack that was freed: neither that of a thread     *)
(* which housekeeping or join removed, nor the one a CPU was started on.   *)
StacksUnused == FreedIsUnused /\ StartStackUnused

(***************************************************************************)
(* Round robin: a queued thread gets the CPU, or is suspended, or exits.   *)
(***************************************************************************)
QueuedGetsItsTurn ==
  \A t \in Threads : conf.fair /\ t \in Queued ~>
    (\E c \in Cpus : Executes(c, t)) \/ "RUNNING" \notin flags[t]

(***************************************************************************)
(* A thread in thread_sleep that left the queue has a timer that will wake *)
(* it: "Set the sleep timer; the kernel thread will yield and wake up      *)
(* later."                                                                 *)
(***************************************************************************)
SleeperWakesUp ==
  \A t \in Threads :
    sleep[t] = "suspended" /\ "RUNNING" \notin flags[t] => t \in timers

(***************************************************************************)
(* THREAD_PRIVILEGED: "The thread is a kernel thread or a user thread      *)
(* running in kernel mode."                                                *)
(***************************************************************************)
PrivilegedIsKernelMode ==
  \A c \in Cpus : pc[c] = "run" /\ cur[c] \in Threads =>
    ("PRIVILEGED" \in flags[cur[c]] <=> mode[c] = "kernel")

(***************************************************************************)
(* "Wait for all CPUs to have measured their respective load.": no CPU     *)
(* waits for CPUs that have all measured already.                          *)
(***************************************************************************)
BarrierOpens ==
  \A c \in Cpus : pc[c] = "barrier" /\ ready < bal[c].min =>
    \E d \in Cpus : "RUNNING" \in sched[d] /\ (bal[d].at < epoch \/ pc[d] = "arrive")

(***************************************************************************)
(* sched_exit asserts that it acquires run_mtx: no share of it is kept.    *)
(***************************************************************************)
RunMutexReleased == \A c \in Cpus : shares[c] = 0
=============================================================================
