------------------------- MODULE SchedulerInvariant -------------------------
(***************************************************************************)
(* The inductive invariant of module Scheduler: what the lists, the flags  *)
(* and the CPUs keep to in every step.                                     *)
(***************************************************************************)
EXTENDS Scheduler

(***************************************************************************)
(* The lists agree with the flags.  A thread is in one place at most, a    *)
(* thread that is queued or about to be is RUNNING, and one that is dead   *)
(* or freed has EXITED, which excludes RUNNING.                            *)
(***************************************************************************)
ListsFit ==
  /\ \A c \in Cpus : IsInjective(queue[c]) /\ IsInjective(incoming[c])
  /\ \A t \in Threads : \A c, d \in Cpus :
       /\ t \in Range(queue[c]) /\ t \in Range(queue[d]) => c = d
       /\ t \in Range(incoming[c]) /\ t \in Range(incoming[d]) => c = d
       /\ t \in Range(queue[c]) => t \notin Range(incoming[d])
  /\ \A t \in Threads : \A c \in Cpus :
       t \in Range(queue[c]) \/ t \in Range(incoming[c]) =>
         "RUNNING" \in flags[t] /\ \A r \in Threads : resuming[r] # t
  /\ \A t, r, s \in Threads :
       resuming[r] = t => "RUNNING" \in flags[t] /\ (resuming[s] = t => r = s)
  /\ IsInjective(dead) /\ Range(dead) \intersect freed = {}
  /\ \A t \in Range(dead) \union freed : "EXITED" \in flags[t]
  /\ \A t \in Threads : "EXITED" \in flags[t] => "RUNNING" \notin flags[t]

(* A thread that c may execute outside the scheduler.                      *)
MayRun(c, t) ==
  /\ t # NoThread
  /\ t \in Threads => /\ "RUNNING" \in flags[t]
                      /\ queue[c] # <<>> /\ Last(queue[c]) = t

(***************************************************************************)
(* What a CPU executes and is going to execute, and the flags of its       *)
(* scheduler: SCHED_RUNNING comes after the temporary stack was left.      *)
(***************************************************************************)
CpuFits(c) ==
  /\ pc[c] = "run" => MayRun(c, cur[c])
  /\ pc[c] = "switch" => MayRun(c, next[c][1])
  /\ pc[c] \in {"off", "evict"} => "RUNNING" \notin sched[c]
  /\ pc[c] \in {"count", "uncount", "leave"} => "RUNNING" \in sched[c]
  /\ Executes(c, NoThread) => /\ "RUNNING" \notin sched[c]
                              /\ pc[c] = "enter" => "STARTING" \notin sched[c]
  /\ "smp" \notin conf.ops => /\ pc[c] = "off" \/ c = 0
                              /\ \A t \in freed : ~Executes(c, t)

CpusFit == \A c \in Cpus : CpuFits(c)

(* A thread that is in a queue, or about to be.                            *)
Placed(t) == \/ \E c \in Cpus : t \in Range(queue[c]) \/ t \in Range(incoming[c])
             \/ \E r \in Threads : resuming[r] = t

(* From the measurement of its load to the end of load balancing.          *)
LoadPcs == {"arrive", "min", "barrier", "sum", "balance"}

(* Before the first load measurement nothing has a load, and all threads   *)
(* that may run are queued.                                                *)
NoLoadYet ==
  epoch = 0 =>
    /\ \A t \in Threads : usage[t] = 0
    /\ \A c \in Cpus : est[c] = 0 /\ pc[c] \notin LoadPcs
    /\ \A t \in Threads : "RUNNING" \in flags[t] => Placed(t)

IInv == TypeOK /\ ListsFit /\ CpusFit /\ CountersAgree /\ NoLoadYet

(* The calls that change no list, no CPU's scheduler and no load.          *)
PlainCall(c) ==
  \/ Yield(c) \/ Exit(c) \/ SetWakeTime(c) \/ SleepSuspend(c) \/ SyscallSleep(c)
  \/ SleepReturn(c) \/ Raise(c) \/ Lower(c)
  \/ SetProc(c, "EXITING") \/ SetProc(c, "SIGPEND")
  \/ \E t \in Threads : \/ \E k \in BOOLEAN : Suspend(c, t, k)
                        \/ Detach(c, t)
=============================================================================
