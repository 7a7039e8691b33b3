-------------------------------- MODULE Trap --------------------------------
(***************************************************************************)
(* One user thread and the kernel side that works for it: the trap handler *)
(* of kernel/cpu/riscv/src/isr.c, the switches between the two contexts    *)
(* and the signal frames of cpu/riscv/src/scheduler.c, the signals of      *)
(* src/process/sighandler.c, and the choice of the context to resume in    *)
(* set_switch.  A user program is a sequence of instructions, told apart   *)
(* by the trap that they take; an ecall is named after what it asks for.   *)
(***************************************************************************)
EXTENDS Integers, Sequences, FiniteSets

CONSTANT Configs  \* the programs of the thread and of its handlers, how many
                  \* frames its stack holds, what it does with signals, which
                  \* signals others raise, whether assertions are compiled in

VARIABLES conf,
          usr,     \* user_isr_ctx.regs: whose code, pc, a0, and sp in frames
          stack,   \* the user's stack: the frames of sched_signal_enter
          acts,    \* sighandlers
          pending, \* sigpending, and
          pend,    \* PROC_SIGPEND
          exiting, \* PROC_EXITING
          flags,   \* of the thread
          kern,    \* kernel_isr_ctx: where it is, the signal it handles,
                   \* whether it began to run, the reads of a backtrace and
                   \* its ISR_CTX_FLAG_NOEXC
          cpu,     \* what the CPU runs
          irq,     \* whether the kernel side has interrupts enabled
          raised,  \* how many signals were raised
          ran,     \* history: the calls of the main program that were made
          stop     \* why the kernel stopped

procVars == <<acts, pending, pend, exiting, raised>>
vars == <<conf, usr, stack, procVars, flags, kern, cpu, irq, ran, stop>>

Signals == {"HUP", "CHLD", "SEGV", "ILL", "TRAP", "SYS"}

(* SIG_DFL_KILL_MASK, of these.                                            *)
KillMask == Signals \ {"CHLD"}

Calls == {"call", "catch", "denied", "bad", "sigret", "exit"}
Program(code) == IF code = "main" THEN conf.main ELSE conf.handler
Instr == Program(usr.code)[usr.pc]

Idle == [pc |-> "idle", sig |-> "", begun |-> FALSE, reads |-> 0, noexc |-> FALSE]

(* BACKTRACE_DEPTH, cut to as many reads.                                  *)
Depth == 2

(* The types of the contexts, the frames, the signals and the flags.       *)
TypeOK ==
  /\ conf \in Configs
  /\ usr.code \in Signals \union {"main"}
  /\ usr.pc \in 1 .. Len(Program(usr.code))
  /\ usr.sp \in 0 .. conf.room
  /\ Len(stack) \in usr.sp .. conf.room
  /\ DOMAIN acts = Signals /\ \A s \in Signals : acts[s] \in {"dfl", "ign", "usr"}
  /\ pending \in Seq(Signals) /\ pend \in BOOLEAN /\ exiting \in BOOLEAN
  /\ flags \subseteq {"PRIVILEGED", "SIGHANDLER"}
  /\ kern.pc \in {"idle", "syscall", "return", "signal", "trap", "run", "dump",
                  "noexc", "exit", "lower", "lowering", "lowered", "switch", "yield"}
  /\ kern.sig \in Signals \union {""} /\ kern.begun \in BOOLEAN
  /\ kern.reads \in 0 .. Depth /\ kern.noexc \in BOOLEAN
  /\ cpu \in {"user", "kern", "other", "dead"} /\ irq \in BOOLEAN
  /\ raised \in 0 .. conf.raises
  /\ stop \in {"no", "assert", "poweroff"}

(* sched_prepare_user_entry.                                               *)
Init ==
  /\ conf \in Configs
  /\ usr = [code |-> "main", pc |-> 1, a0 |-> <<"arg">>, sp |-> 0]
  /\ stack = <<>>
  /\ acts = conf.acts
  /\ pending = <<>> /\ pend = FALSE /\ exiting = FALSE /\ raised = 0
  /\ flags = {} /\ kern = Idle /\ cpu = "user" /\ irq = TRUE
  /\ ran = <<>> /\ stop = "no"

(***************************************************************************)
(* Traps.                                                                  *)
(***************************************************************************)
Running(side) == cpu = side /\ stop = "no"

(* An instruction that takes no trap; "page" may find its page repaired.   *)
Plain ==
  /\ Running("user") /\ Instr \in {"op", "page"}
  /\ usr' = [usr EXCEPT !.pc = @ + 1]
  /\ UNCHANGED <<conf, stack, procVars, flags, kern, cpu, irq, ran, stop>>

(* The kernel context is entered anew; its flags stay as they are.         *)
Start(pc, sig) == [Idle EXCEPT !.pc = pc, !.sig = sig, !.noexc = kern.noexc]

(* sched_raise_from_isr; in a release build the assertion is dropped.      *)
Raise(to) ==
  IF conf.asserts /\ "PRIVILEGED" \in flags
  THEN stop' = "assert" /\ UNCHANGED <<flags, kern>>
  ELSE /\ flags' = flags \union {"PRIVILEGED"}
       /\ kern' = to
       /\ UNCHANGED stop

Entry ==
  CASE Instr \in Calls -> Start("syscall", "")
    [] Instr \in {"segv", "page"} -> Start("trap", "SEGV")
    [] Instr = "ill" -> Start("trap", "ILL")
    [] Instr = "break" -> Start("trap", "TRAP")

(* riscv_trap_handler, for a trap of the user, and the switch to the       *)
(* kernel side.                                                            *)
UserTrap ==
  /\ Running("user") /\ Instr \in Calls \union {"segv", "page", "ill", "break"}
  /\ Raise(Entry)
  /\ cpu' = "kern" /\ irq' = TRUE
  /\ UNCHANGED <<conf, usr, stack, procVars, ran>>

(* Any other trap reaches the end of riscv_trap_handler.  As it is not a   *)
(* double fault, the condition that chooses between panic_poweroff and     *)
(* kill_proc_on_trap is true.                                              *)
OtherTrap ==
  /\ Running("user") /\ Instr = "align"
  /\ stop' = "poweroff"
  /\ UNCHANGED <<conf, usr, stack, procVars, flags, kern, cpu, irq, ran>>

(* The timer interrupt, and the thread's next turn.                        *)
Preempt ==
  /\ stop = "no"
  /\ \/ cpu = "user"
     \/ cpu = "kern" /\ irq
  /\ cpu' = "other"
  /\ UNCHANGED <<conf, usr, stack, procVars, flags, kern, irq, ran, stop>>

(* sched_request_switch_from_isr: a thread of an exiting process ends,     *)
(* unless its kernel side is at work.                                      *)
MustDie == exiting /\ "PRIVILEGED" \notin flags

Die ==
  /\ cpu = "other" /\ stop = "no" /\ MustDie
  /\ cpu' = "dead"
  /\ UNCHANGED <<conf, usr, stack, procVars, flags, kern, irq, ran, stop>>

NoSignals == FALSE  \* mutant: the signals wait for a system call

SignalFirst == pend /\ flags \intersect {"PRIVILEGED", "SIGHANDLER"} = {}

(* set_switch: the context is chosen by the flags read before the raise.   *)
Resume ==
  /\ cpu = "other" /\ stop = "no" /\ ~MustDie
  /\ IF SignalFirst THEN Raise(Start("signal", "")) ELSE UNCHANGED <<flags, kern, stop>>
  /\ cpu' = IF "PRIVILEGED" \in flags THEN "kern" ELSE "user"
  /\ UNCHANGED <<conf, usr, stack, procVars, irq, ran>>

(***************************************************************************)
(* The kernel side.                                                        *)
(***************************************************************************)
At(pc) == Running("kern") /\ kern.pc = pc

Go(pc) == kern' = [kern EXCEPT !.pc = pc, !.begun = TRUE]
Handle(pc, sig) == kern' = [kern EXCEPT !.pc = pc, !.sig = sig, !.begun = TRUE]
Signal(sig) == Handle("trap", sig)

(* The main program's calls, in the order in which the kernel ran them.    *)
Note == ran' = IF usr.code = "main" THEN Append(ran, usr.pc) ELSE ran

(* sched_signal_exit.                                                      *)
FrameOf(c) == [code |-> c.code, pc |-> c.pc, a0 |-> c.a0]
Restored(f) == [code |-> f.code, pc |-> f.pc, a0 |-> f.a0, sp |-> usr.sp - 1]

KeepsA0(f) == [Restored(f) EXCEPT !.a0 = usr.a0]  \* mutant: a0 is not restored

Exit(f) == Restored(f)

(* riscv_syscall_wrapper: a call that does not exist, one that fails its   *)
(* check of the user's memory, sigret, exit, sighandler, and any other.    *)
Sigret ==
  /\ At("syscall") /\ Instr = "sigret"
  /\ IF "SIGHANDLER" \notin flags
     THEN Signal("SYS") /\ UNCHANGED <<usr, flags>>
     ELSE /\ flags' = flags \ {"SIGHANDLER"}
          /\ IF usr.sp = 0
             THEN Signal("SEGV") /\ UNCHANGED usr
             ELSE usr' = Exit(stack[usr.sp]) /\ Go("lower")
  /\ UNCHANGED <<conf, stack, procVars, cpu, irq, ran, stop>>

Syscall ==
  /\ At("syscall") /\ Instr \in Calls \ {"sigret"}
  /\ \/ Instr = "bad" /\ Signal("SYS") /\ UNCHANGED <<acts, ran>>
     \/ Instr = "denied" /\ Signal("SEGV") /\ UNCHANGED <<acts, ran>>
     \/ Instr = "exit" /\ Go("exit") /\ UNCHANGED <<acts, ran>>
     \/ Instr = "call" /\ Go("return") /\ Note /\ UNCHANGED acts
     \/ /\ Instr = "catch" /\ Go("return") /\ Note
        /\ acts' = [acts EXCEPT !["HUP"] = "usr"]
  /\ UNCHANGED <<conf, usr, stack, pending, pend, exiting, raised, flags, cpu, irq, stop>>

(* The value that a call returns, told apart by its place in the program.  *)
Value(pc) == <<"value", pc>>

Returned(c) == [c EXCEPT !.a0 = Value(c.pc), !.pc = @ + 1]

(* syscall_return.                                                         *)
SyscallReturn ==
  /\ At("return")
  /\ usr' = Returned(usr)
  /\ Go(IF pend THEN "signal" ELSE "lower")
  /\ UNCHANGED <<conf, stack, procVars, flags, cpu, irq, ran, stop>>

(***************************************************************************)
(* Signals.                                                                *)
(***************************************************************************)
(* proc_signal_handler takes the first pending signal.                     *)
PopSignal ==
  /\ At("signal")
  /\ IF pending = <<>>
     THEN Go("lower") /\ UNCHANGED pending
     ELSE Handle("run", Head(pending)) /\ pending' = Tail(pending)
  /\ UNCHANGED <<conf, usr, stack, acts, pend, exiting, raised, flags, cpu, irq, ran, stop>>

(* trap_signal_handler.                                                    *)
TrapSignal ==
  /\ At("trap")
  /\ Go(IF "SIGHANDLER" \in flags THEN "dump" ELSE "run")
  /\ UNCHANGED <<conf, usr, stack, procVars, flags, cpu, irq, ran, stop>>

(* sched_signal_enter; run_sighandler ignores whether there was room.      *)
Fits == usr.sp < conf.room

SignalEnter(sig) ==
  IF Fits
  THEN /\ stack' = Append(SubSeq(stack, 1, usr.sp), FrameOf(usr))
       /\ usr' = [code |-> sig, pc |-> 1, a0 |-> <<sig>>, sp |-> usr.sp + 1]
       /\ flags' = flags \union {"SIGHANDLER"}
  ELSE UNCHANGED <<stack, usr, flags>>

RunSighandler ==
  /\ At("run")
  /\ \/ /\ acts[kern.sig] = "dfl"
        /\ Go(IF kern.sig \in KillMask THEN "dump" ELSE "lower")
        /\ UNCHANGED <<usr, stack, flags>>
     \/ acts[kern.sig] = "ign" /\ Go("lower") /\ UNCHANGED <<usr, stack, flags>>
     \/ acts[kern.sig] = "usr" /\ SignalEnter(kern.sig) /\ Go("lower")
  /\ UNCHANGED <<conf, procVars, cpu, irq, ran, stop>>

(* The dump of a process that is killed follows the user's frame pointers  *)
(* until one is null.  isr_noexc_run makes each read with interrupts       *)
(* disabled and ISR_CTX_FLAG_NOEXC set.                                    *)
Read == [kern EXCEPT !.pc = "noexc", !.reads = @ + 1, !.noexc = TRUE]

Backtrace ==
  /\ At("dump")
  /\ \/ kern.reads < Depth /\ kern' = Read /\ irq' = FALSE
     \/ Go("exit") /\ UNCHANGED irq
  /\ UNCHANGED <<conf, usr, stack, procVars, flags, cpu, ran, stop>>

NoexcReturn(pc) ==
  /\ kern' = [kern EXCEPT !.pc = pc, !.noexc = FALSE]
  /\ irq' = TRUE

ReadFrame ==
  /\ At("noexc") /\ NoexcReturn("dump")
  /\ UNCHANGED <<conf, usr, stack, procVars, flags, cpu, ran, stop>>

(* A frame pointer may be bad.  riscv_trap_handler looks for the flag in   *)
(* the context that trapped: isr_noexc_wrapper returns from the read, and  *)
(* any other trap of the kernel is fatal.                                  *)
Caught == kern.noexc

KernelTrap ==
  /\ At("noexc")
  /\ IF Caught THEN NoexcReturn("exit") /\ UNCHANGED stop
     ELSE stop' = "poweroff" /\ UNCHANGED <<kern, irq>>
  /\ UNCHANGED <<conf, usr, stack, procVars, flags, cpu, ran>>

(* proc_exit_self, which ends the thread.                                  *)
ExitSelf ==
  /\ At("exit")
  /\ exiting' = TRUE /\ cpu' = "dead"
  /\ UNCHANGED <<conf, usr, stack, acts, pending, pend, raised, flags, kern, irq, ran, stop>>

(* irq_disable, sched_lower_from_isr and isr_context_switch.               *)
IrqDisable ==
  /\ At("lower") /\ Go("lowering") /\ irq' = FALSE
  /\ UNCHANGED <<conf, usr, stack, procVars, flags, cpu, ran, stop>>

LowerFromIsr ==
  /\ At("lowering") /\ Go("lowered")
  /\ flags' = flags \ {"PRIVILEGED"}
  /\ UNCHANGED <<conf, usr, stack, procVars, cpu, irq, ran, stop>>

(* The thread of a process that exits by now makes way for another.        *)
ReadExiting ==
  /\ At("lowered") /\ Go(IF exiting THEN "yield" ELSE "switch")
  /\ UNCHANGED <<conf, usr, stack, procVars, flags, cpu, irq, ran, stop>>

ContextSwitch ==
  /\ \/ At("switch") /\ cpu' = "user"
     \/ At("yield") /\ cpu' = "other"
  /\ kern' = Start("idle", "") /\ irq' = TRUE
  /\ UNCHANGED <<conf, usr, stack, procVars, flags, ran, stop>>

(***************************************************************************)
(* Others: proc_raise_signal_raw, which may find no memory, and            *)
(* proc_raise_sigkill_raw.                                                 *)
(***************************************************************************)
RaiseSignal ==
  /\ stop = "no" /\ cpu /= "dead" /\ raised < conf.raises
  /\ \/ pend' = TRUE /\ \E sig \in conf.sigs : pending' = Append(pending, sig)
     \/ UNCHANGED <<pending, pend>>
  /\ raised' = raised + 1
  /\ UNCHANGED <<conf, usr, stack, acts, exiting, flags, kern, cpu, irq, ran, stop>>

Sigkill ==
  /\ conf.kill /\ stop = "no" /\ cpu /= "dead" /\ ~exiting
  /\ exiting' = TRUE
  /\ UNCHANGED <<conf, usr, stack, acts, pending, pend, raised, flags, kern, cpu, irq, ran, stop>>

Kernel == \/ Sigret \/ Syscall \/ SyscallReturn \/ PopSignal \/ TrapSignal
          \/ RunSighandler \/ Backtrace \/ ReadFrame \/ KernelTrap \/ ExitSelf
          \/ IrqDisable \/ LowerFromIsr \/ ReadExiting \/ ContextSwitch

Next == \/ Plain \/ UserTrap \/ OtherTrap \/ Preempt \/ Die \/ Resume
        \/ Kernel \/ RaiseSignal \/ Sigkill

Spec == Init /\ [][Next]_vars

(* A thread's time slice is long enough for a step (SCHED_MIN_US); the     *)
(* timer finds user mode sooner or later; a handler repairs its page.      *)
Fairness == /\ SF_vars(UserTrap) /\ SF_vars(Kernel) /\ SF_vars(Plain)
            /\ SF_vars(Preempt /\ cpu = "user") /\ WF_vars(Die \/ Resume)

FairSpec == Spec /\ Fairness

-----------------------------------------------------------------------------
(* syscall_return: the main program finds the value of each call after it, *)
(* whichever signals were handled in between.                              *)
ResultSeen ==
  (Running("user") /\ usr.code = "main" /\ usr.pc > 1
     /\ conf.main[usr.pc - 1] \in {"call", "catch"}) => usr.a0 = <<"value", usr.pc - 1>>

(* Each call of the main program is made once and none is skipped.         *)
CallsOnce ==
  /\ \A i \in 2 .. Len(ran) : ran[i - 1] < ran[i]
  /\ (Running("user") /\ usr.code = "main") =>
       {ran[i] : i \in 1 .. Len(ran)} =
         {p \in 1 .. usr.pc - 1 : conf.main[p] \in {"call", "catch"}}

(* What the kernel side has begun is not started over by a second raise:   *)
(* sched_raise_from_isr never meets a kernel context that is at work.      *)
WorkKept == kern.begun => kern'.begun \/ kern.pc \in {"switch", "yield"}

(* Nor is it cut short by the end of the process: it leaves by itself.     *)
KernelNotKilled ==
  (cpu = "dead" /\ kern.begun) => kern.pc = "exit"

(* A trap while the kernel follows the user's frame pointers is harmless,  *)
(* and so is every trap that has a signal.                                 *)
NoPoweroff == conf.aligned => stop /= "poweroff"

(* A signal is taken from the list, whatever the thread does meanwhile.    *)
SignalsTaken ==
  pending /= <<>> ~> (pending = <<>> \/ cpu = "dead" \/ stop /= "no")

(* "Called in the kernel side of a used thread": a thread of a process     *)
(* that exits is gone at last.                                             *)
ExitingEnds == exiting ~> (cpu = "dead" \/ stop /= "no")

(***************************************************************************)
(* Where the code falls short of its comments.                             *)
(***************************************************************************)
(* "When the user traps just stop the process."                            *)
UserTrapStopsProcess == stop /= "poweroff"

KilledInHandler == kern.pc = "trap" /\ kern'.pc = "run" => usr.code = "main"

(* "If the thread is already running a signal handler, the process is      *)
(* killed."                                                                *)
FaultInHandlerKills == [][KilledInHandler]_vars

(* sched_raise_from_isr: assert_dev_drop.                                  *)
NoAssert == stop /= "assert"

(* "Raises a fault signal to the current thread."                          *)
FaultAnswered == (kern.pc = "trap") ~> (usr.code /= "main" \/ cpu = "dead")
=============================================================================
