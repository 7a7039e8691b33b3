----------------------------- MODULE Housekeeping -----------------------------
(***************************************************************************)
(* kernel/src/housekeeping.c: the thread that runs one-time and repeated   *)
(* tasks from a queue sorted by time.  hk_mtx is held while a task is      *)
(* added or cancelled, and by the housekeeping thread for a whole pass     *)
(* over the queue, the calls of the tasks included.  A task of this module *)
(* returns after some time; what the real ones do is in module Process.    *)
(***************************************************************************)
EXTENDS Integers, Sequences, FiniteSets, Arrays

CONSTANTS Clients,    \* threads that add and cancel tasks
          Times,      \* the timestamps of new tasks
          Intervals,  \* of new tasks; 0 for a task that runs once
          Cancels,    \* whether hk_cancel is used
          NoMem,      \* whether the queue may be unable to grow
          TsMax,      \* TIMESTAMP_US_MAX
          MaxTasks,   \* bound: tasks that are ever added
          MaxTime     \* bound: the clock stops here

Hk == "hk"        \* the housekeeping thread
Nobody == "none"

ASSUME HousekeepingAssumption ==
  /\ IsFiniteSet(Clients) /\ Hk \notin Clients /\ Nobody \notin Clients
  /\ {Cancels, NoMem} \subseteq BOOLEAN
  /\ Times \subseteq 0 .. TsMax /\ Intervals \subseteq Nat
  /\ {TsMax, MaxTasks, MaxTime} \subseteq Nat

VARIABLES queue,  \* the queued tasks
          ctr,    \* taskno_ctr
          mtx,    \* who holds hk_mtx
          pc,     \* where each client and the housekeeping thread is
          arg,    \* the task that each client adds or cancels
          adds,   \* how many tasks were added
          given,  \* the task numbers that hk_add_repeated returned
          ran,    \* the numbers of the tasks that were called
          gone,   \* the numbers of the tasks that were cancelled
          asleep, \* whether the housekeeping thread waits in mutex_wait
          seen,   \* "now" of the housekeeping thread
          task,   \* the task that it runs
          now     \* time_us()

clientVars == <<arg, adds, given, gone>>
hkVars == <<asleep, seen, task, ran>>
vars == <<queue, ctr, mtx, pc, clientVars, hkVars, now>>

Tasks == [no : 0 .. MaxTasks, at : 0 .. TsMax, every : Nat]

NoTask == [no |-> 0, at |-> 0, every |-> 0]

(* The types; no time in the queue exceeds TIMESTAMP_US_MAX.               *)
TypeOK == /\ queue \in Seq(Tasks) /\ ctr \in 0 .. MaxTasks
          /\ mtx \in Clients \union {Hk, Nobody}
          /\ pc \in [Clients \union {Hk} -> {"idle", "add", "cancel", "check", "call"}]
          /\ arg \in [Clients -> Tasks] /\ adds \in 0 .. MaxTasks
          /\ \A s \in {given, ran, gone} : s \subseteq 0 .. MaxTasks
          /\ asleep \in BOOLEAN /\ seen \in 0 .. MaxTime /\ task \in Tasks /\ now \in 0 .. MaxTime

Init == /\ queue = <<>> /\ ctr = 0 /\ mtx = Nobody /\ adds = 0
        /\ pc = [c \in Clients \union {Hk} |-> "idle"]
        /\ arg = [c \in Clients |-> NoTask]
        /\ given = {} /\ ran = {} /\ gone = {}
        /\ asleep = FALSE /\ seen = 0 /\ task = NoTask /\ now = 0

Goto(c, at) == pc' = [pc EXCEPT ![c] = at]

(* A client returns from its call; the locals die.                         *)
Return(c) == Goto(c, "idle") /\ arg' = [arg EXCEPT ![c] = NoTask]

(* mutex_acquire of hk_mtx.                                                *)
Acquire(c) == mtx = Nobody /\ mtx' = c

(* mutex_release wakes the first thread of the waiting list.  That may be  *)
(* another one, or the housekeeping thread is about to enter the list and  *)
(* its wake-up is lost (module Mutex).                                     *)
Release == mtx' = Nobody /\ asleep' \in {FALSE, asleep}

(***************************************************************************)
(* hk_add_once and hk_add_repeated.  Tasks for "as soon as possible" go to *)
(* the front, the others to a place that keeps the queue sorted.           *)
(***************************************************************************)
AddCall(c) ==
  /\ pc[c] = "idle" /\ adds < MaxTasks /\ Acquire(c)
  /\ \E t \in Times, i \in Intervals :
       arg' = [arg EXCEPT ![c] = [no |-> ctr, at |-> t, every |-> i]]
  /\ adds' = adds + 1
  /\ Goto(c, "add")
  /\ UNCHANGED <<queue, ctr, given, gone, hkVars, now>>

(* array_sorted_insert.                                                    *)
SortedInsert(q, t) ==
  {InsertAt(q, i, t) : i \in {i \in 1 .. Len(q) + 1 :
     /\ \A j \in 1 .. i - 1 : q[j].at <= t.at
     /\ \A j \in i .. Len(q) : t.at <= q[j].at}}

InsertUnsorted(t) == {Append(queue, t)}  \* mutant: appends

InsertOverwrites(t) ==  \* mutant: a front insert writes over the first task
  IF t.at <= 0 THEN {<<t>> \o SubSeq(queue, 2, Len(queue))} ELSE SortedInsert(queue, t)

Insert(t) == IF t.at <= 0 THEN {InsertAt(queue, 1, t)} ELSE SortedInsert(queue, t)

KeepNumber == ctr' = ctr  \* mutant: taskno_ctr is not advanced

NextNumber == ctr' = ctr + 1

AddReturn(c) ==
  /\ pc[c] = "add"
  /\ \/ queue' \in Insert(arg[c]) /\ NextNumber
     \/ NoMem /\ UNCHANGED <<queue, ctr>>
  /\ given' = given \union {arg[c].no}
  /\ Release
  /\ Return(c)
  /\ UNCHANGED <<adds, gone, seen, task, ran, now>>

(***************************************************************************)
(* hk_cancel.  It returns without releasing hk_mtx when it found the task. *)
(***************************************************************************)
CancelCall(c) ==
  /\ Cancels /\ pc[c] = "idle" /\ Acquire(c)
  /\ \E no \in given : arg' = [arg EXCEPT ![c] = [NoTask EXCEPT !.no = no]]
  /\ Goto(c, "cancel")
  /\ UNCHANGED <<queue, ctr, adds, given, gone, hkVars, now>>

CancelReturn(c) ==
  /\ pc[c] = "cancel"
  /\ \/ \E i \in DOMAIN queue : /\ queue[i].no = arg[c].no
                                /\ \A j \in 1 .. i - 1 : queue[j].no # arg[c].no
                                /\ queue' = RemoveAt(queue, i)
                                /\ gone' = gone \union {arg[c].no}
                                /\ UNCHANGED <<mtx, asleep>>
     \/ /\ \A i \in DOMAIN queue : queue[i].no # arg[c].no
        /\ Release /\ UNCHANGED <<queue, gone>>
  /\ Return(c)
  /\ UNCHANGED <<ctr, adds, given, seen, task, ran, now>>

(***************************************************************************)
(* hk_thread_func.  The time is read once per pass, so that a repeated     *)
(* task which takes long cannot keep the pass going.                       *)
(***************************************************************************)
PassStart ==
  /\ pc[Hk] = "idle" /\ ~asleep /\ Acquire(Hk)
  /\ seen' = now
  /\ Goto(Hk, "check")
  /\ UNCHANGED <<queue, ctr, clientVars, asleep, task, ran, now>>

(* The swap of mutex_acquire has failed; a weak one may with a free mutex. *)
PassWaits ==
  /\ pc[Hk] = "idle" /\ ~asleep
  /\ asleep' = TRUE
  /\ UNCHANGED <<queue, ctr, mtx, pc, clientVars, seen, task, ran, now>>

TaskDue == queue # <<>> /\ Head(queue).at <= seen

TakeTask ==
  /\ pc[Hk] = "check" /\ TaskDue
  /\ task' = Head(queue)
  /\ queue' = Tail(queue)
  /\ ran' = ran \union {task'.no}
  /\ Goto(Hk, "call")
  /\ UNCHANGED <<ctr, mtx, clientVars, asleep, seen, now>>

Repeats == task.every > 0 /\ task.at <= TsMax - task.every

NextTime == task.at + task.every

TaskReturns ==
  /\ pc[Hk] = "call"
  /\ queue' \in IF Repeats THEN SortedInsert(queue, [task EXCEPT !.at = NextTime])
                           ELSE {queue}
  /\ task' = NoTask
  /\ Goto(Hk, "check")
  /\ UNCHANGED <<ctr, mtx, clientVars, asleep, seen, ran, now>>

PassEnd ==
  /\ pc[Hk] = "check" /\ ~TaskDue
  /\ mtx' = Nobody
  /\ seen' = 0
  /\ Goto(Hk, "idle")
  /\ UNCHANGED <<queue, ctr, clientVars, asleep, task, ran, now>>

Tick == /\ now < MaxTime
        /\ now' = now + 1
        /\ UNCHANGED <<queue, ctr, mtx, pc, clientVars, hkVars>>

HkStep == PassStart \/ TakeTask \/ TaskReturns \/ PassEnd

Next == \/ HkStep \/ PassWaits \/ Tick
        \/ \E c \in Clients : \/ AddCall(c) \/ AddReturn(c)
                              \/ CancelCall(c) \/ CancelReturn(c)

Spec == Init /\ [][Next]_vars

(***************************************************************************)
(* The scheduler runs every thread again, tasks return, time passes, and a *)
(* thread that is awake finds hk_mtx free in the end if it is free again   *)
(* and again.  Nothing is assumed of a thread that waits to be woken.      *)
(***************************************************************************)
FairSpec ==
  /\ Spec /\ WF_vars(HkStep) /\ SF_vars(PassStart) /\ WF_vars(Tick)
  /\ \A c \in Clients : WF_vars(AddReturn(c)) /\ WF_vars(CancelReturn(c))
-----------------------------------------------------------------------------
(* An hk_cancel that found its task has returned.                          *)
LeftLocked == \E c \in Clients : mtx = c /\ pc[c] = "idle"

(* The housekeeping thread waits for a mutex that is free.                 *)
WakeUpLost == asleep /\ mtx = Nobody

Queued == {queue[i].no : i \in DOMAIN queue}

(***************************************************************************)
(* Task numbers identify tasks, which hk_cancel relies on: whichever       *)
(* clients race to add tasks, no two pending tasks have the same number,   *)
(* and the task that runs is not in the queue.                             *)
(***************************************************************************)
NumbersUnique ==
  /\ \A i, j \in DOMAIN queue : queue[i].no = queue[j].no => i = j
  /\ pc[Hk] = "call" => task.no \notin Queued

TookFirst ==
  pc[Hk] # "call" /\ pc'[Hk] = "call" =>
    task'.at <= now /\ \A i \in DOMAIN queue : task'.at <= queue[i].at

(***************************************************************************)
(* hk_thread_func takes a task only when it is due, and no pending task is *)
(* due before it: adding at the front and putting repeated tasks back keep *)
(* the queue sorted.                                                       *)
(***************************************************************************)
RunsInOrder == [][TookFirst]_vars

(* The queue is well formed, and no two tasks of it, counting the one that *)
(* hk_thread_func runs, have one number.                                   *)
QueueSound == TypeOK /\ NumbersUnique

(***************************************************************************)
(* A pass over the queue ends, also with repeated tasks that are behind,   *)
(* so that other threads can add tasks again.                              *)
(***************************************************************************)
PassEnds == pc[Hk] # "idle" ~> pc[Hk] = "idle"

(***************************************************************************)
(* "This task will be run in the "housekeeping" task.": a queued task is   *)
(* called once its time has come, unless it is cancelled.                  *)
(***************************************************************************)
QueuedTaskRuns ==
  \A no \in 0 .. MaxTasks : no \in Queued ~> no \in ran \union gone

(***************************************************************************)
(* The same for as long as no hk_cancel has returned with hk_mtx locked    *)
(* and mutex_release has not missed the waiting housekeeping thread:       *)
(* whatever is added, repeated or cancelled, no queued task is forgotten.  *)
(***************************************************************************)
EveryTaskRuns ==
  \A no \in 0 .. MaxTasks :
    no \in Queued ~> no \in ran \union gone \/ LeftLocked \/ WakeUpLost

(* Every pass of hk_thread_func ends, and every task is called or          *)
(* cancelled unless hk_cancel has left hk_mtx locked or the housekeeping   *)
(* thread has missed its wake-up.                                          *)
TasksServed == PassEnds /\ EveryTaskRuns

(***************************************************************************)
(* The caller learns whether its task was added: a number that is not -1   *)
(* belongs to a task that is pending, was called or was cancelled (the     *)
(* callers in process.c assert hk_add_once(...) != -1).                    *)
(***************************************************************************)
AddReported == given \subseteq Queued \union ran \union gone
=============================================================================
