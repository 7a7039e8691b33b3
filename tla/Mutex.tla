-------------------------------- MODULE Mutex --------------------------------
(***************************************************************************)
(* One mutex_t of kernel/src/badgelib/mutex.c.  "shares" is 0, the number  *)
(* of shared holders, or EXCLUSIVE_MAGIC.  A thread that cannot enter      *)
(* takes itself from the run queue, sets THREAD_BLOCKED and its timer,     *)
(* appends itself to waiting_list and yields; mutex_notify (by the thread  *)
(* that releases) and mutex_resume_timer (by the timer interrupt) race to  *)
(* clear THREAD_BLOCKED, and the winner hands the thread back to the       *)
(* scheduler.  Users in conf.fromIsr call the _from_isr functions and spin.*)
(*                                                                         *)
(* On one CPU (~conf.smp) nothing happens between the steps of a section *)
(* with interrupts disabled.  On several, a thread may be handed to        *)
(* another CPU before it has been switched out; what runs then depends on  *)
(* a stale register context, and the model stops in such a state (Torn).   *)
(***************************************************************************)
EXTENDS Integers, Sequences, FiniteSets, Arrays

CONSTANTS Users,     \* threads and interrupt handlers that may use the mutex
          Magic,     \* EXCLUSIVE_MAGIC
          Forever,   \* TIMESTAMP_US_MAX
          Configs    \* the machines and mutexes: records with the fields
                     \*   users     those that use the mutex
                     \*   fromIsr   those that call the _from_isr functions
                     \*   shared    mutex->is_shared
                     \*   smp       more than one CPU
                     \*   weak      a weak compare-exchange may fail spuriously
                     \*   noMem     time_add_async_task may be out of memory
                     \*   timeouts  finite values of max_wait_us
                     \*   maxTime   bound: the clock stops here

ASSUME MagicAssumption == Magic \in Nat \ {0}

(* An interrupt handler that spins on the only CPU is not interleaved.     *)
ASSUME ConfigsAssumption ==
  /\ Forever \in Nat
  /\ \A c \in Configs : /\ c.fromIsr \subseteq c.users /\ c.users \subseteq Users
                        /\ {c.shared, c.smp, c.weak, c.noMem} \subseteq BOOLEAN
                        /\ c.timeouts \subseteq Nat /\ c.maxTime \in Nat
                        /\ c.fromIsr = {} \/ c.smp
                        /\ \A t \in c.timeouts \union {0} : Forever > c.maxTime + t

None == "none"

ASSUME UsersAssumption == IsFiniteSet(Users) /\ None \notin Users

NoTimer == -1  \* the timer_id of a thread without a timer

VARIABLES shares,    \* mutex->shares
          waiting,   \* mutex->waiting_list
          blocked,   \* the threads with THREAD_BLOCKED
          hold,      \* what each user was granted and has not released
          pc, op,    \* where each user is, and the loop it returns to
          old,       \* old_value of thresh_add and unequal_sub
          deadline,  \* the absolute "timeout" of each user
          timer,     \* the pending timer of each thread, or NoTimer
          cb,        \* the timer callback that runs for each thread
          target,    \* the thread that each notifier resumes
          now,       \* time_us()
          conf       \* the configuration; it does not change

lockVars == <<shares, hold>>
waitVars == <<waiting, blocked, target>>
timeVars == <<timer, cb, now>>
callVars == <<pc, op, old, deadline>>
vars == <<lockVars, waitVars, timeVars, callVars, conf>>

Pcs == {"idle", "loop", "block", "append", "listed", "blocked", "check",
        "sub", "notify", "resume"}

(* The types; shares stays within 0 and EXCLUSIVE_MAGIC.                   *)
TypeOK == /\ shares \in 0 .. Magic
          /\ hold \in [Users -> {None, "excl", "shared"}]
          /\ waiting \in Seq(Users) /\ blocked \subseteq Users
          /\ pc \in [Users -> Pcs]
          /\ op \in [Users -> {"swap", "add"}]
          /\ old \in [Users -> 0 .. Magic]
          /\ deadline \in [Users -> Nat]
          /\ timer \in [Users -> Nat \union {NoTimer}]
          /\ cb \in [Users -> {None, "fired", "won"}]
          /\ target \in [Users -> Users \union {None}]
          /\ conf \in Configs /\ now \in 0 .. conf.maxTime

Init == /\ conf \in Configs
        /\ shares = 0 /\ waiting = <<>> /\ blocked = {} /\ now = 0
        /\ hold = [u \in Users |-> None]
        /\ pc = [u \in Users |-> "idle"]
        /\ op = [u \in Users |-> "swap"]
        /\ old = [u \in Users |-> 0]
        /\ deadline = [u \in Users |-> Forever]
        /\ timer = [u \in Users |-> NoTimer]
        /\ cb = [u \in Users |-> None]
        /\ target = [u \in Users |-> None]

(***************************************************************************)
(* Scheduling of the steps.                                                *)
(***************************************************************************)
SwitchedOut(u) == pc[u] \notin {"append", "listed"}

Resumed(u) == \E v \in Users : target[v] = u

Torn == \E u \in Users : (cb[u] = "won" \/ Resumed(u)) /\ ~SwitchedOut(u)

IrqOff(u) == pc[u] \in {"append", "listed", "resume"} \/ cb[u] # None

CanRun(u) == ~Torn /\ (conf.smp \/ \A v \in Users \ {u} : ~IrqOff(v))

ThreadRuns(u) == CanRun(u) /\ (conf.smp \/ cb[u] = None)

Goto(u, at) == pc' = [pc EXCEPT ![u] = at]

(* A return from the loop; its locals are dead.                            *)
Leave(u, at) == /\ Goto(u, at)
                /\ op' = [op EXCEPT ![u] = "swap"]
                /\ old' = [old EXCEPT ![u] = 0]
                /\ deadline' = [deadline EXCEPT ![u] = Forever]

(***************************************************************************)
(* mutex_acquire, mutex_release and their shared forms.                    *)
(***************************************************************************)
Enter(u, what, at, until, seen) ==
  /\ ThreadRuns(u) /\ pc[u] = "idle"
  /\ Goto(u, at)
  /\ op' = [op EXCEPT ![u] = what]
  /\ old' = [old EXCEPT ![u] = seen]
  /\ deadline' = [deadline EXCEPT ![u] = until]
  /\ UNCHANGED <<lockVars, waitVars, timeVars>>

Deadlines == {Forever} \union {now + t : t \in conf.timeouts}

Acquire(u) ==
  hold[u] = None /\ \E d \in Deadlines : Enter(u, "swap", "loop", d, 0)

AcquireShared(u) ==
  /\ conf.shared /\ hold[u] = None
  /\ \E d \in Deadlines : Enter(u, "add", "loop", d, shares)

Release(u) == hold[u] = "excl" /\ Enter(u, "swap", "loop", Forever, 0)

ReleaseShared(u) == hold[u] = "shared" /\ Enter(u, "swap", "sub", Forever, shares)

(***************************************************************************)
(* await_swap_atomic_int: acquires with 0 -> Magic, releases with          *)
(* Magic -> 0.                                                             *)
(***************************************************************************)
ExpectedAny(u) == shares  \* mutant: the old value is not compared

ExpectedMagic(u) == Magic  \* mutant: an acquire expects what a release does

Expected(u) == IF hold[u] = None THEN 0 ELSE Magic

NewValue(u) == Magic - Expected(u)

SwapOk(u) ==
  /\ ThreadRuns(u) /\ pc[u] = "loop" /\ op[u] = "swap"
  /\ shares = Expected(u)
  /\ shares' = NewValue(u)
  /\ hold' = [hold EXCEPT ![u] = IF @ = None THEN "excl" ELSE None]
  /\ Leave(u, IF hold[u] = None THEN "idle" ELSE "notify")
  /\ UNCHANGED <<waitVars, timeVars>>

(* After a failed attempt: isr_pause(), or mutex_wait().                   *)
Retry(u) == Goto(u, IF u \in conf.fromIsr THEN "check" ELSE "block")

SwapFail(u) ==
  /\ ThreadRuns(u) /\ pc[u] = "loop" /\ op[u] = "swap"
  /\ shares # Expected(u) \/ conf.weak
  /\ Retry(u)
  /\ UNCHANGED <<lockVars, waitVars, timeVars, op, old, deadline>>

(***************************************************************************)
(* thresh_add_atomic_int.  Past the threshold the exchange is not tried,   *)
(* and old_value keeps its value.                                          *)
(***************************************************************************)
BelowThreshold(u) == ~(old[u] >= Magic \/ old[u] + 1 >= Magic)

AddOk(u) ==
  /\ ThreadRuns(u) /\ pc[u] = "loop" /\ op[u] = "add"
  /\ BelowThreshold(u) /\ shares = old[u]
  /\ shares' = old[u] + 1
  /\ hold' = [hold EXCEPT ![u] = "shared"]
  /\ Leave(u, "idle")
  /\ UNCHANGED <<waitVars, timeVars>>

AddFail(u) ==
  /\ ThreadRuns(u) /\ pc[u] = "loop" /\ op[u] = "add"
  /\ \/ ~BelowThreshold(u) /\ UNCHANGED old
     \/ /\ BelowThreshold(u) /\ (shares # old[u] \/ conf.weak)
        /\ old' = [old EXCEPT ![u] = shares]
  /\ Retry(u)
  /\ UNCHANGED <<lockVars, waitVars, timeVars, op, deadline>>

(* The loops end when time_us() reaches the deadline.                      *)
Check(u) ==
  /\ ThreadRuns(u) /\ pc[u] = "check"
  /\ IF now < deadline[u] THEN Goto(u, "loop") /\ UNCHANGED <<op, old, deadline>>
                          ELSE Leave(u, "idle")
  /\ UNCHANGED <<lockVars, waitVars, timeVars>>

(***************************************************************************)
(* unequal_sub_atomic_int.                                                 *)
(***************************************************************************)
SubStore(u) ==  \* by itself a mutant: a store without a comparison
  /\ ThreadRuns(u) /\ pc[u] = "sub"
  /\ old[u] \notin {0, Magic}
  /\ shares' = old[u] - 1
  /\ hold' = [hold EXCEPT ![u] = None]
  /\ Leave(u, "notify")
  /\ UNCHANGED <<waitVars, timeVars>>

SubOk(u) == shares = old[u] /\ SubStore(u)

SubFail(u) ==
  /\ ThreadRuns(u) /\ pc[u] = "sub"
  /\ old[u] \notin {0, Magic} /\ (shares # old[u] \/ conf.weak)
  /\ old' = [old EXCEPT ![u] = shares]
  /\ UNCHANGED <<lockVars, waitVars, timeVars, pc, op, deadline>>

(***************************************************************************)
(* mutex_wait.  "timeout" is absolute already when time_us() is added.     *)
(***************************************************************************)
NewTimer(u) == IF deadline[u] < Forever THEN now + deadline[u] ELSE NoTimer

WaitBlock(u) ==
  /\ ThreadRuns(u) /\ pc[u] = "block"
  /\ blocked' = blocked \union {u}
  /\ \/ timer' = [timer EXCEPT ![u] = NewTimer(u)]
     \/ conf.noMem /\ NewTimer(u) # NoTimer /\ UNCHANGED timer
  /\ Goto(u, "append")
  /\ UNCHANGED <<lockVars, waiting, target, cb, now, op, old, deadline>>

WaitAppend(u) ==
  /\ ThreadRuns(u) /\ pc[u] = "append"
  /\ waiting' = Append(waiting, u)
  /\ Goto(u, "listed")
  /\ UNCHANGED <<lockVars, blocked, target, timeVars, op, old, deadline>>

WaitYield(u) ==
  /\ ThreadRuns(u) /\ pc[u] = "listed"
  /\ Goto(u, "blocked")
  /\ UNCHANGED <<lockVars, waitVars, timeVars, op, old, deadline>>

(***************************************************************************)
(* mutex_notify: the first waiter whose THREAD_BLOCKED it clears is taken  *)
(* from the list; then its timer is cancelled and it is handed off.        *)
(***************************************************************************)
Live == {i \in DOMAIN waiting : waiting[i] \in blocked}

Notify(u) ==
  /\ ThreadRuns(u) /\ pc[u] = "notify"
  /\ \/ Live = {} /\ Goto(u, "idle") /\ UNCHANGED waitVars
     \/ \E i \in Live :
          /\ \A j \in Live : i <= j
          /\ waiting' = RemoveAt(waiting, i)
          /\ blocked' = blocked \ {waiting[i]}
          /\ target' = [target EXCEPT ![u] = waiting[i]]
          /\ Goto(u, "resume")
  /\ UNCHANGED <<lockVars, timeVars, op, old, deadline>>

NotifyResume(u) ==
  LET v == target[u] IN
  /\ ThreadRuns(u) /\ pc[u] = "resume"
  /\ timer' = [timer EXCEPT ![v] = NoTimer]
  /\ target' = [target EXCEPT ![u] = None]
  /\ pc' = [pc EXCEPT ![u] = "idle", ![v] = "check"]
  /\ UNCHANGED <<lockVars, waiting, blocked, cb, now, op, old, deadline>>

(***************************************************************************)
(* The timer interrupt takes the expired timer, and the callback           *)
(* mutex_resume_timer runs: it clears THREAD_BLOCKED, and if that was      *)
(* still set it takes the thread from the list and hands it off.           *)
(***************************************************************************)
TimerExpires(u) ==
  /\ CanRun(u) /\ (conf.smp \/ ~IrqOff(u))
  /\ cb[u] = None /\ timer[u] # NoTimer /\ timer[u] <= now
  /\ timer' = [timer EXCEPT ![u] = NoTimer]
  /\ cb' = [cb EXCEPT ![u] = "fired"]
  /\ UNCHANGED <<lockVars, waitVars, callVars, now>>

TimerCallback(u) ==
  /\ CanRun(u) /\ cb[u] = "fired"
  /\ cb' = [cb EXCEPT ![u] = IF u \in blocked THEN "won" ELSE None]
  /\ blocked' = blocked \ {u}
  /\ UNCHANGED <<lockVars, waiting, target, callVars, timer, now>>

TimerHandoff(u, list) ==
  /\ CanRun(u) /\ cb[u] = "won"
  /\ waiting' = list
  /\ cb' = [cb EXCEPT ![u] = None]
  /\ Goto(u, "check")
  /\ UNCHANGED <<lockVars, blocked, target, op, old, deadline, timer, now>>

TimerResumeListed(u) == TimerHandoff(u, waiting)  \* mutant: no dlist_remove

TimerResume(u) ==
  \E i \in DOMAIN waiting : waiting[i] = u /\ TimerHandoff(u, RemoveAt(waiting, i))

Tick == /\ ~Torn /\ now < conf.maxTime
        /\ now' = now + 1
        /\ UNCHANGED <<lockVars, waitVars, callVars, timer, cb>>

Step(u) == \/ SwapOk(u) \/ SwapFail(u) \/ AddOk(u) \/ AddFail(u) \/ Check(u)
           \/ SubOk(u) \/ SubFail(u)
           \/ WaitBlock(u) \/ WaitAppend(u) \/ WaitYield(u)
           \/ Notify(u) \/ NotifyResume(u)
           \/ TimerCallback(u) \/ TimerResume(u)

Next == /\ \/ Tick
           \/ \E u \in conf.users : \/ Acquire(u) \/ AcquireShared(u)
                                    \/ Release(u) \/ ReleaseShared(u)
                                    \/ Step(u) \/ TimerExpires(u)
        /\ UNCHANGED conf

Spec == Init /\ [][Next]_vars

(***************************************************************************)
(* Among handlers that spin on CPUs of their own, each keeps executing and *)
(* a holder releases.  Nobody has to acquire.                              *)
(***************************************************************************)
OnlyHandlers == conf.users = conf.fromIsr

Fairness ==
  \A u \in Users :
    /\ WF_vars(OnlyHandlers /\ Step(u) /\ UNCHANGED conf)
    /\ WF_vars(OnlyHandlers /\ (Release(u) \/ ReleaseShared(u)) /\ UNCHANGED conf)

FairSpec == Spec /\ Fairness
-----------------------------------------------------------------------------
Writers == {u \in Users : hold[u] = "excl"}

Readers == {u \in Users : hold[u] = "shared"}

(***************************************************************************)
(* "shares" counts exactly the callers that were granted the mutex and     *)
(* have not released it, so the assertions of mutex_release_impl and       *)
(* mutex_release_shared_impl hold and the count never reaches              *)
(* EXCLUSIVE_MAGIC by adding shares.                                       *)
(***************************************************************************)
SharesCountHolders ==
  shares = IF Writers # {} THEN Magic ELSE Cardinality(Readers)

Abstract == INSTANCE RWLock WITH writers <- Writers, readers <- Readers

(***************************************************************************)
(* The mutex is a reader-writer lock: whatever the interleaving of         *)
(* acquires, releases, time-outs and notifications, no caller is granted   *)
(* the mutex while another one excludes it.                                *)
(***************************************************************************)
ImplementsRWLock == Abstract!Spec

Listed(u) == \E i \in DOMAIN waiting : waiting[i] = u

Waits(u) == pc[u] \in {"listed", "blocked"}

(***************************************************************************)
(* A thread that left the run queue in mutex_wait is never lost and never  *)
(* resumed twice: it is listed once with THREAD_BLOCKED set, or exactly    *)
(* one of mutex_notify and mutex_resume_timer has won it and will hand it  *)
(* off.  (On several CPUs: until a thread is resumed too early, see        *)
(* ResumedOnlyWhenSwitchedOut.)                                            *)
(***************************************************************************)
EachWaiterHasOneWaker ==
  ~Torn =>
    /\ \A i, j \in DOMAIN waiting : waiting[i] = waiting[j] => i = j
    /\ \A v, w \in Users : target[v] = target[w] => v = w \/ target[v] = None
    /\ \A u \in Users :
         /\ Listed(u) <=> Waits(u) /\ ~Resumed(u)
         /\ Waits(u) => (u \in blocked <=> ~Resumed(u) /\ cb[u] # "won")
         /\ cb[u] = "won" => Waits(u) /\ ~Resumed(u)
         /\ Resumed(u) => Waits(u)

(***************************************************************************)
(* A thread is handed back to the scheduler only after it was switched     *)
(* out: mutex_wait says "Pause the execution of this thread." before it    *)
(* lists the thread.                                                       *)
(***************************************************************************)
PausedWhenListed == ~Torn

(***************************************************************************)
(* On one CPU the interrupts that mutex_wait disables guarantee it.        *)
(***************************************************************************)
ResumedOnlyWhenSwitchedOut == conf.smp \/ PausedWhenListed

(* The word of a mutex always tells the truth: shares has its type and is  *)
(* EXCLUSIVE_MAGIC or the number of readers, exactly as the callers hold   *)
(* it.                                                                     *)
LockSound == TypeOK /\ SharesCountHolders

(* Of mutex_notify and the timer exactly one wakes each waiter, and on one *)
(* CPU it finds the waiter switched out.                                   *)
WaitersSound == EachWaiterHasOneWaker /\ ResumedOnlyWhenSwitchedOut

Quiet == \A u \in Users : pc[u] \in {"idle", "blocked"} /\ cb[u] = None

(***************************************************************************)
(* No thread sleeps without a timer on a mutex that is free, when nobody   *)
(* is in the middle of a call that could still wake it: "The mutex must    *)
(* always be completely unlocked to guarantee no threads are waiting on    *)
(* it." (mutex_destroy)                                                    *)
(***************************************************************************)
UnlockedMeansNoWaiter ==
  Quiet /\ shares = 0 => \A u \in Users : pc[u] = "blocked" => timer[u] # NoTimer

(***************************************************************************)
(* A thread that waits with a timeout is woken at its deadline: "Try to    *)
(* acquire `mutex` within `max_wait_us` microseconds."                     *)
(***************************************************************************)
WokenByDeadline ==
  \A u \in Users : timer[u] # NoTimer => timer[u] <= deadline[u]

Asks(u, what) == hold[u] = None /\ op[u] = what /\ pc[u] # "idle"

(***************************************************************************)
(* A caller of mutex_acquire_from_isr does not keep asking for ever for a  *)
(* mutex that is not shared and stays free: await_swap_atomic_int swaps in *)
(* the end, or times out.  (A thread may: see UnlockedMeansNoWaiter.)      *)
(***************************************************************************)
ExclusiveEntersFreeMutex ==
  OnlyHandlers =>
    \A u \in Users : ~<>[](shares = 0 /\ Asks(u, "swap"))

(***************************************************************************)
(* Nor does a caller of mutex_acquire_shared, in thresh_add_atomic_int.    *)
(***************************************************************************)
SharedEntersFreeMutex ==
  \A u \in Users : ~<>[](shares = 0 /\ Asks(u, "add"))
=============================================================================
