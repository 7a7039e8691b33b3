----------------------------- MODULE MCScheduler -----------------------------
(* Threads and workloads for the runs of Scheduler.                        *)
EXTENDS Scheduler

MCThreads == {"k1", "k2", "k3", "u1"}
MCUsers == {"u1"}

Work(threads, ops) ==
  [threads |-> threads, ops |-> ops, loads |-> {0}, maxEpoch |-> 0, fair |-> FALSE]

Balanced(w) == [w EXCEPT !.loads = {0, 1}, !.maxEpoch = 1]

(* The preemption timer ends every time slice.                             *)
Preempted(w) == [w EXCEPT !.fair = TRUE]

(* A kernel and a user thread on one CPU: exits, kills and signals.        *)
Exits == Preempted(Work({"k1", "u1"}, {"suspend", "exit", "syscall", "kill", "signal"}))

(* The same with sleeping threads.                                         *)
Sleeps == Preempted(Work({"k1", "u1"}, {"exit", "sleep", "syscall", "now"}))

(* Two kernel threads, two CPUs and one load balancing interval.           *)
Smp == Balanced(Work({"k1", "k2"}, {"smp"}))

(* Two CPUs with threads that exit and are freed.                          *)
SmpExits == Work({"k1", "k2"}, {"smp", "exit"})

(* Two kernel threads, while CPUs are started and shut down.               *)
Poweroff == Work({"k1", "k2"}, {"smp", "suspend", "poweroff"})

(* Three kernel threads that take turns on one CPU.                        *)
Turns == Preempted(Work({"k1", "k2", "k3"}, {"suspend", "now"}))

AllConfigs == {Exits, Sleeps, Smp, SmpExits, Poweroff, Turns}
BalanceConfigs == {Smp}
SleepConfigs == {Work({"k1", "k2"}, {"sleep"})}
SignalConfigs == {Work({"k1", "u1"}, {"syscall", "signal"})}
TwiceConfigs == {Work({"k1", "k2"}, {"smp", "sleep"})}
=============================================================================
