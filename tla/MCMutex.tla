------------------------------- MODULE MCMutex -------------------------------
(* Machines and mutexes for the runs of Mutex.                             *)
EXTENDS Mutex

MCUsers == {"t1", "t2", "i1", "i2"}

Plain == [users |-> {"t1", "t2"}, fromIsr |-> {}, shared |-> FALSE, smp |-> FALSE,
          weak |-> FALSE, noMem |-> FALSE, timeouts |-> {}, maxTime |-> 0]

(* Two threads on one CPU, with and without a timeout, where everything    *)
(* that can fail does.                                                     *)
OneCpu == [Plain EXCEPT !.shared = TRUE, !.weak = TRUE, !.noMem = TRUE,
                        !.timeouts = {1}, !.maxTime = 2]

(* Two threads and an interrupt handler on several CPUs.                   *)
Smp == [Plain EXCEPT !.users = {"t1", "t2", "i1"}, !.fromIsr = {"i1"},
                     !.shared = TRUE, !.smp = TRUE]

(* The same with timeouts, on a mutex that is not shared.                  *)
Race == [Smp EXCEPT !.shared = FALSE, !.timeouts = {1}, !.maxTime = 1]

(* Handlers that spin.                                                     *)
Spin == [Plain EXCEPT !.users = {"i1", "i2"}, !.fromIsr = {"i1", "i2"}, !.smp = TRUE]

SpinTimed == [Spin EXCEPT !.timeouts = {1}, !.maxTime = 2]

AllConfigs == {OneCpu, Smp, Race, SpinTimed}
LostWakeConfigs == {Plain}
DeadlineConfigs == {[Plain EXCEPT !.timeouts = {1}, !.maxTime = 3]}
SharedSpinConfigs == {[Spin EXCEPT !.shared = TRUE]}
TornConfigs == {[Plain EXCEPT !.smp = TRUE]}
=============================================================================
