-------------------------------- MODULE Timer --------------------------------
(***************************************************************************)
(* kernel/src/time.c: the list of timer tasks that all CPUs share, and the *)
(* one hardware timer of each CPU, which eval_cpu_timer sets either for    *)
(* the preemption of the thread or for a task.  Every section under        *)
(* tasks_spinlock is one step, except the one in which time_add_async_task *)
(* numbers a task: it runs with the interrupt state of the caller.         *)
(***************************************************************************)
EXTENDS Integers, Sequences, FiniteSets, Arrays

CONSTANTS Cpus,
          CallersIrq,  \* the states of the interrupts in which add is called
          Delays,      \* of new tasks
          Slices,      \* time slices that the scheduler sets
          MaxTasks,    \* bound: tasks that are ever added
          MaxTime      \* bound: the clock stops here

ASSUME TimerAssumption ==
  /\ IsFiniteSet(Cpus) /\ CallersIrq \subseteq BOOLEAN
  /\ Delays \subseteq Nat /\ Slices \subseteq Nat \ {0} /\ Slices # {}
  /\ MaxTasks \in Nat \ {0} /\ MaxTime \in Nat

VARIABLES tasks,      \* the array, the soonest task last
          counter,    \* taskno_counter
          ran,        \* tasks whose callback was called
          cancelled,  \* tasks for which time_cancel_async_task returned true
          now,        \* time_us()
          preempt,    \* preempt_time of each CPU
          isPreempt,  \* timer_is_preempt of each CPU
          alarm,      \* the hardware timer of each CPU
          pc,         \* where the thread on each CPU is
          new,        \* the task it adds
          irq,        \* whether its interrupts are enabled
          isr         \* where the timer interrupt on each CPU is

listVars == <<tasks, counter, ran, cancelled>>
timerVars == <<preempt, isPreempt, alarm>>
vars == <<listVars, timerVars, now, pc, new, irq, isr>>

Ids == 0 .. MaxTasks - 1

NoTask == [id |-> 0, at |-> 0]

(* The types; no alarm or preemption time is negative.                     *)
TypeOK == /\ tasks \in Seq([id : Ids, at : Nat]) /\ counter \in 0 .. MaxTasks
          /\ ran \subseteq Ids /\ cancelled \subseteq Ids /\ now \in 0 .. MaxTime
          /\ preempt \in [Cpus -> Nat] /\ isPreempt \in [Cpus -> BOOLEAN]
          /\ alarm \in [Cpus -> Nat]
          /\ pc \in [Cpus -> {"idle", "number", "insert", "eval"}]
          /\ new \in [Cpus -> [id : Ids, at : Nat]]
          /\ irq \in [Cpus -> BOOLEAN]
          /\ isr \in [Cpus -> {"no", "enter", "eval"}]

Init == /\ tasks = <<>> /\ counter = 0 /\ ran = {} /\ cancelled = {} /\ now = 0
        /\ preempt \in [Cpus -> Slices] /\ alarm = preempt
        /\ isPreempt = [c \in Cpus |-> TRUE]
        /\ pc = [c \in Cpus |-> "idle"] /\ irq = [c \in Cpus |-> TRUE]
        /\ isr = [c \in Cpus |-> "no"]
        /\ new = [c \in Cpus |-> NoTask]

(* tasks_spinlock is not held.                                             *)
LockFree == \A c \in Cpus : pc[c] # "number"

ThreadAt(c, at) == isr[c] = "no" /\ pc[c] = at

Goto(c, at) == pc' = [pc EXCEPT ![c] = at]

(* The rest of the function runs with interrupts disabled.                 *)
Evaluate(c) == Goto(c, "eval") /\ irq' = [irq EXCEPT ![c] = FALSE]

(***************************************************************************)
(* time_add_async_task.                                                    *)
(***************************************************************************)
AddNumber(c) ==
  /\ ThreadAt(c, "idle") /\ LockFree /\ counter < MaxTasks
  /\ \E d \in Delays : /\ now + d <= MaxTime
                       /\ new' = [new EXCEPT ![c] = [id |-> counter, at |-> now + d]]
  /\ \E ie \in CallersIrq : irq' = [irq EXCEPT ![c] = ie]
  /\ counter' = counter + 1
  /\ Goto(c, "number")
  /\ UNCHANGED <<tasks, ran, cancelled, timerVars, now, isr>>

AddUnlock(c) ==
  /\ ThreadAt(c, "number")
  /\ Goto(c, "insert")
  /\ UNCHANGED <<listVars, timerVars, now, new, irq, isr>>

SoonestFirst(a, b) == a.at < b.at  \* mutant: the usual order

(* timertask_timestamp_cmp(a, b) < 0.                                      *)
SortsBefore(a, b) == a.at > b.at

AddInsert(c) ==
  /\ ThreadAt(c, "insert") /\ LockFree
  /\ \E i \in 1 .. Len(tasks) + 1 :
       /\ \A j \in 1 .. i - 1 : ~SortsBefore(new[c], tasks[j])
       /\ \A j \in i .. Len(tasks) : ~SortsBefore(tasks[j], new[c])
       /\ tasks' = InsertAt(tasks, i, new[c])
  /\ new' = [new EXCEPT ![c] = NoTask]
  /\ Evaluate(c)
  /\ UNCHANGED <<counter, ran, cancelled, timerVars, now, isr>>

(* The array cannot grow.                                                  *)
AddFails(c) ==
  /\ ThreadAt(c, "insert") /\ LockFree
  /\ new' = [new EXCEPT ![c] = NoTask]
  /\ Goto(c, "idle")
  /\ irq' = [irq EXCEPT ![c] = TRUE]
  /\ UNCHANGED <<listVars, timerVars, now, isr>>

(***************************************************************************)
(* time_cancel_async_task, and time_set_next_task_switch when a thread     *)
(* yields.                                                                 *)
(***************************************************************************)
(* The first task with the number is removed, if there is one.             *)
RemoveTask(id) ==
  \E i \in DOMAIN tasks : /\ tasks[i].id = id
                          /\ \A j \in 1 .. i - 1 : tasks[j].id # id
                          /\ tasks' = RemoveAt(tasks, i)

Cancel(c, id) ==
  /\ ThreadAt(c, "idle") /\ LockFree
  /\ \/ RemoveTask(id) /\ cancelled' = cancelled \union {id}
     \/ (\A i \in DOMAIN tasks : tasks[i].id # id) /\ UNCHANGED <<tasks, cancelled>>
  /\ Evaluate(c)
  /\ UNCHANGED <<counter, ran, timerVars, now, new, isr>>

NextSwitch(c) == \E s \in Slices : preempt' = [preempt EXCEPT ![c] = now + s]

SetNextSwitch(c) ==
  /\ ThreadAt(c, "idle")
  /\ NextSwitch(c)
  /\ Evaluate(c)
  /\ UNCHANGED <<listVars, isPreempt, alarm, now, new, isr>>

(***************************************************************************)
(* eval_cpu_timer.  The first task of the array is the latest one.         *)
(***************************************************************************)
NoTaskFirst(c) == tasks # <<>> /\ preempt[c] <= 0  \* mutant: a test is lost

TaskFirst(c) == tasks # <<>> /\ (preempt[c] <= 0 \/ Last(tasks).at < preempt[c])

EvalCpuTimer(c) ==
  /\ LockFree
  /\ isPreempt' = [isPreempt EXCEPT ![c] = ~TaskFirst(c)]
  /\ alarm' = [alarm EXCEPT ![c] = IF TaskFirst(c) THEN tasks[1].at ELSE preempt[c]]

Eval(c) ==
  /\ ThreadAt(c, "eval") /\ EvalCpuTimer(c)
  /\ Goto(c, "idle")
  /\ irq' = [irq EXCEPT ![c] = TRUE]
  /\ UNCHANGED <<listVars, preempt, now, new, isr>>

(***************************************************************************)
(* The timer interrupt, and time_cpu_timer_isr.  The scheduler that it     *)
(* calls sets the next task switch.                                        *)
(***************************************************************************)
Interrupt(c) ==
  /\ isr[c] = "no" /\ irq[c] /\ alarm[c] <= now
  /\ isr' = [isr EXCEPT ![c] = "enter"]
  /\ UNCHANGED <<listVars, timerVars, now, pc, new, irq>>

IsrPreempt(c) ==
  /\ isr[c] = "enter" /\ isPreempt[c]
  /\ NextSwitch(c)
  /\ isr' = [isr EXCEPT ![c] = "eval"]
  /\ UNCHANGED <<listVars, isPreempt, alarm, now, pc, new, irq>>

TaskDue == tasks # <<>> /\ now >= Last(tasks).at

KeepTask == tasks  \* mutant: tasks_len is not decremented

DropTask == Front(tasks)

IsrTask(c) ==
  /\ isr[c] = "enter" /\ ~isPreempt[c] /\ LockFree
  /\ IF TaskDue
     THEN tasks' = DropTask /\ ran' = ran \union {Last(tasks).id}
     ELSE UNCHANGED <<tasks, ran>>
  /\ isr' = [isr EXCEPT ![c] = "eval"]
  /\ UNCHANGED <<counter, cancelled, timerVars, now, pc, new, irq>>

IsrEval(c) ==
  /\ isr[c] = "eval" /\ EvalCpuTimer(c)
  /\ isr' = [isr EXCEPT ![c] = "no"]
  /\ UNCHANGED <<listVars, preempt, now, pc, new, irq>>

Tick == /\ now < MaxTime
        /\ now' = now + 1
        /\ UNCHANGED <<listVars, timerVars, pc, new, irq, isr>>

Step(c) == \/ AddUnlock(c) \/ AddInsert(c) \/ AddFails(c) \/ Eval(c)
           \/ Interrupt(c) \/ IsrPreempt(c) \/ IsrTask(c) \/ IsrEval(c)

Next == \/ Tick
        \/ \E c \in Cpus : \/ AddNumber(c) \/ SetNextSwitch(c) \/ Step(c)
                           \/ \E id \in 0 .. counter - 1 : Cancel(c, id)

Spec == Init /\ [][Next]_vars

(***************************************************************************)
(* Time passes, CPUs execute and the interrupt of a timer that has expired *)
(* is delivered, however often threads have interrupts disabled: it stays  *)
(* pending, so strong fairness.                                            *)
(***************************************************************************)
FairSpec == Spec /\ WF_vars(Tick)
                 /\ \A c \in Cpus : WF_vars(Step(c)) /\ SF_vars(Interrupt(c))
-----------------------------------------------------------------------------
Pending == {tasks[i].id : i \in DOMAIN tasks}

(***************************************************************************)
(* A task has one fate: it is in the list once, or its callback was called *)
(* once, or a cancel returned true; a cancel that returned true and a      *)
(* callback exclude each other, whichever CPUs race.                       *)
(***************************************************************************)
OneFate ==
  /\ \A i, j \in DOMAIN tasks : tasks[i].id = tasks[j].id => i = j
  /\ Pending \intersect ran = {} /\ Pending \intersect cancelled = {}
  /\ ran \intersect cancelled = {}

RanEarliest ==
  \A i \in DOMAIN tasks : tasks[i].id \in ran' \ ran =>
    now >= tasks[i].at /\ \A j \in DOMAIN tasks : tasks[i].at <= tasks[j].at

(***************************************************************************)
(* time_cpu_timer_isr calls a callback only at or after its timestamp, and *)
(* the earliest of the pending ones.                                       *)
(***************************************************************************)
RunsEarliestInTime == [][RanEarliest]_vars

(* The tasks of the array are well formed and sorted out: none is both run *)
(* and cancelled, run twice, or pending after either.                      *)
TasksSound == TypeOK /\ OneFate

(***************************************************************************)
(* Every task in the list runs or is cancelled, on whichever CPU.          *)
(***************************************************************************)
EveryTaskRuns ==
  \A id \in Ids : id \in Pending ~> id \notin Pending

(***************************************************************************)
(* When eval_cpu_timer chooses a task, "There is a timer task scheduled    *)
(* that will run first.": the timer is not set later than the preemption.  *)
(***************************************************************************)
TaskBeforePreemption ==
  \A c \in Cpus : ThreadAt(c, "idle") /\ ~isPreempt[c] => alarm[c] <= preempt[c]

(***************************************************************************)
(* "Interrupts must be disabled while holding spinlock.": no interrupt     *)
(* handler waits for the spinlock that the code it interrupted holds.      *)
(***************************************************************************)
IsrNeverWaitsForItself == \A c \in Cpus : pc[c] = "number" => isr[c] = "no"
=============================================================================
