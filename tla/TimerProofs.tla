----------------------------- MODULE TimerProofs -----------------------------
(***************************************************************************)
(* Proofs about the timer tasks, for any number of CPUs, tasks, delays and *)
(* time slices, whether or not time_add_async_task is called with          *)
(* interrupts enabled.                                                     *)
(***************************************************************************)
EXTENDS Timer, ArrayLemmas

(* The task that a CPU has numbered and not yet inserted.                  *)
Adds(c) == pc[c] \in {"number", "insert"}

(* The array is sorted, the soonest task last.                             *)
Sorted == \A i, j \in DOMAIN tasks : i < j => tasks[j].at <= tasks[i].at

(* Each task is in one place of the array, and in no set.                  *)
Fates ==
  /\ \A i, j \in DOMAIN tasks : tasks[i].id = tasks[j].id => i = j
  /\ \A i \in DOMAIN tasks : tasks[i].id \notin ran /\ tasks[i].id \notin cancelled
  /\ ran \intersect cancelled = {}

(* The numbers given so far are below taskno_counter, and the task that a  *)
(* CPU is about to insert is the only one with its number.                 *)
Numbered ==
  /\ \A i \in DOMAIN tasks : tasks[i].id < counter
  /\ \A id \in ran \union cancelled : id < counter
  /\ \A c \in Cpus : Adds(c) =>
       /\ new[c].id < counter /\ new[c].id \notin ran \union cancelled
       /\ \A i \in DOMAIN tasks : tasks[i].id # new[c].id
  /\ \A c, d \in Cpus : Adds(c) /\ Adds(d) /\ new[c].id = new[d].id => c = d

IInv == TypeOK /\ Sorted /\ Fates /\ Numbered

(* A task has a number and a time.                                         *)
Tasks == [id : Ids, at : Nat]

(* The array has its places, and tasks in them.                            *)
LEMMA ArrayFacts ==
  ASSUME TypeOK
  PROVE  /\ tasks \in Seq(Tasks) /\ Len(tasks) \in Nat /\ DOMAIN tasks = 1 .. Len(tasks)
         /\ \A i \in DOMAIN tasks : /\ tasks[i] \in Tasks
                                    /\ tasks[i].id \in Ids /\ tasks[i].at \in Nat
                                    /\ tasks[i].id \in Nat
         /\ \A t \in Tasks : t.id \in Nat /\ t.at \in Nat
<1>1. tasks \in Seq(Tasks)
  BY DEF TypeOK, Tasks
<1>2. Len(tasks) \in Nat /\ DOMAIN tasks = 1 .. Len(tasks) /\ \A i \in DOMAIN tasks : tasks[i] \in Tasks
  BY <1>1, SeqFacts
<1>3. \A t \in Tasks : t.id \in Ids /\ t.id \in Nat /\ t.at \in Nat
  BY DEF Tasks, Ids
<1> QED
  BY <1>1, <1>2, <1>3

(* The array is empty, and nothing is numbered yet.                        *)
LEMMA InitHolds == Init => IInv
<1> SUFFICES ASSUME Init PROVE IInv
  OBVIOUS
<1>1. tasks = <<>> /\ <<>> \in Seq([id : Ids, at : Nat]) /\ DOMAIN tasks = {}
  BY EmptyFacts DEF Init
<1>2. preempt \in [Cpus -> Nat] /\ alarm \in [Cpus -> Nat]
  BY TimerAssumption DEF Init
<1>3. TypeOK
  BY <1>1, <1>2, TimerAssumption DEF Init, TypeOK, Ids, NoTask
<1>4. Sorted /\ Fates /\ Numbered
  BY <1>1 DEF Init, Sorted, Fates, Numbered, Adds
<1> QED
  BY <1>3, <1>4 DEF IInv

(* Steps that leave the array, the sets and the counter alone, and begin   *)
(* no addition.                                                            *)
LEMMA ListKept ==
  ASSUME IInv, UNCHANGED <<listVars, new>>, \A c \in Cpus : Adds(c)' => Adds(c)
  PROVE  Sorted' /\ Fates' /\ Numbered'
<1>1. tasks' = tasks /\ counter' = counter /\ ran' = ran /\ cancelled' = cancelled /\ new' = new
  BY DEF listVars
<1>2. Sorted'
  BY <1>1 DEF IInv, Sorted
<1>3. Fates'
  BY <1>1 DEF IInv, Fates
<1>4. Numbered'
  BY <1>1 DEF IInv, Numbered
<1> QED
  BY <1>2, <1>3, <1>4

(* time_add_async_task takes a number that nothing has.                    *)
LEMMA AddNumberKeeps ==
  ASSUME IInv, NEW c \in Cpus, AddNumber(c)
  PROVE  IInv'
<1> USE DEF IInv
<1>1. counter \in Nat /\ counter < MaxTasks /\ counter \in Ids /\ counter' \in 0 .. MaxTasks
  BY TimerAssumption DEF AddNumber, TypeOK, Ids
<1>2. PICK d \in Delays : new' = [new EXCEPT ![c] = [id |-> counter, at |-> now + d]]
  BY DEF AddNumber
<1>3. d \in Nat /\ now \in Nat
  BY TimerAssumption DEF TypeOK
<1>4. new' \in [Cpus -> [id : Ids, at : Nat]]
  BY <1>1, <1>2, <1>3 DEF TypeOK
<1>5. irq' \in [Cpus -> BOOLEAN] /\ pc' \in [Cpus -> {"idle", "number", "insert", "eval"}]
  BY TimerAssumption DEF AddNumber, TypeOK, Goto
<1>6. TypeOK'
  BY <1>1, <1>4, <1>5 DEF TypeOK, AddNumber, timerVars
<1>7. tasks' = tasks /\ ran' = ran /\ cancelled' = cancelled /\ counter' = counter + 1
  BY DEF AddNumber
<1>8. Sorted' /\ Fates'
  BY <1>7 DEF Sorted, Fates
<1>9. /\ new'[c].id = counter
      /\ \A e \in Cpus : e # c => new'[e] = new[e] /\ (Adds(e)' <=> Adds(e))
  BY <1>2 DEF TypeOK, AddNumber, Goto, Adds
<1>10. (\A i \in DOMAIN tasks : tasks[i].id \in Nat /\ tasks[i].id < counter)
  BY ArrayFacts DEF Numbered, Ids
<1>11. \A id \in ran \union cancelled : id \in Nat /\ id < counter
  BY DEF Numbered, TypeOK, Ids
<1>12. \A e \in Cpus : Adds(e) => new[e].id \in Nat /\ new[e].id < counter
  BY DEF Numbered, TypeOK, Ids
<1>13. Numbered'
  BY <1>1, <1>7, <1>9, <1>10, <1>11, <1>12 DEF Numbered
<1> QED
  BY <1>6, <1>8, <1>13

(* The steps that change neither the array nor who adds keep the types.    *)
LEMMA TimersKeep ==
  ASSUME IInv, NEW c \in Cpus,
         \/ AddUnlock(c) \/ AddFails(c) \/ Eval(c) \/ SetNextSwitch(c)
         \/ Interrupt(c) \/ IsrPreempt(c) \/ IsrEval(c)
  PROVE  IInv'
<1> USE DEF IInv
<1>1. CASE AddUnlock(c) \/ Interrupt(c)
  <2>1. TypeOK'
    BY <1>1 DEF TypeOK, AddUnlock, Interrupt, listVars, timerVars, Goto
  <2>2. \A d \in Cpus : Adds(d)' => Adds(d)
    BY <1>1 DEF TypeOK, AddUnlock, Interrupt, ThreadAt, Goto, Adds
  <2> QED
    BY <1>1, <2>1, <2>2, ListKept DEF AddUnlock, Interrupt
<1>2. ASSUME EvalCpuTimer(c) PROVE isPreempt' \in [Cpus -> BOOLEAN] /\ alarm' \in [Cpus -> Nat]
  <2>1. TaskFirst(c) => tasks[1].at \in Nat
    BY ArrayFacts, EmptyFacts DEF TaskFirst
  <2> QED
    BY <1>2, <2>1 DEF EvalCpuTimer, TypeOK
<1>3. ASSUME NextSwitch(c) PROVE preempt' \in [Cpus -> Nat]
  BY <1>3, TimerAssumption DEF NextSwitch, TypeOK
<1>4. CASE Eval(c) \/ IsrEval(c)
  <2>1. TypeOK'
    BY <1>2, <1>4 DEF TypeOK, Eval, IsrEval, listVars, Goto
  <2>2. \A d \in Cpus : Adds(d)' => Adds(d)
    BY <1>4 DEF TypeOK, Eval, IsrEval, Goto, Adds
  <2> QED
    BY <1>4, <2>1, <2>2, ListKept DEF Eval, IsrEval
<1>5. CASE SetNextSwitch(c) \/ IsrPreempt(c)
  <2>1. TypeOK'
    BY <1>3, <1>5 DEF TypeOK, SetNextSwitch, IsrPreempt, listVars, Evaluate, Goto
  <2>2. \A d \in Cpus : Adds(d)' => Adds(d)
    BY <1>5 DEF TypeOK, SetNextSwitch, IsrPreempt, Evaluate, Goto, Adds
  <2> QED
    BY <1>5, <2>1, <2>2, ListKept DEF SetNextSwitch, IsrPreempt
<1>6. CASE AddFails(c)
  <2>1. TypeOK'
    BY <1>6, TimerAssumption DEF TypeOK, AddFails, listVars, timerVars, Goto, NoTask, Ids
  <2>2. /\ tasks' = tasks /\ counter' = counter /\ ran' = ran /\ cancelled' = cancelled
        /\ ~Adds(c)' /\ \A d \in Cpus : d # c => new'[d] = new[d] /\ (Adds(d)' <=> Adds(d))
    BY <1>6 DEF TypeOK, AddFails, listVars, Goto, Adds
  <2>3. Sorted' /\ Fates'
    BY <2>2 DEF Sorted, Fates
  <2>4. Numbered'
    BY <2>2 DEF Numbered
  <2> QED
    BY <2>1, <2>3, <2>4
<1> QED
  BY <1>1, <1>4, <1>5, <1>6

(* array_lencap_sorted_insert keeps the array sorted, and the task that    *)
(* was only in the hands of its CPU is now only in the array.              *)
LEMMA AddInsertKeeps ==
  ASSUME IInv, NEW c \in Cpus, AddInsert(c)
  PROVE  IInv'
<1> USE DEF IInv
<1> DEFINE n == Len(tasks)
           t == new[c]
<1>1. n \in Nat /\ DOMAIN tasks = 1 .. n /\ tasks \in Seq(Tasks) /\ t \in Tasks
  BY ArrayFacts DEF TypeOK, Tasks
<1>2. PICK i \in 1 .. n + 1 : /\ \A j \in 1 .. i - 1 : ~SortsBefore(t, tasks[j])
                              /\ \A j \in i .. n : ~SortsBefore(tasks[j], t)
                              /\ tasks' = InsertAt(tasks, i, t)
  BY DEF AddInsert
<1> HIDE DEF t
<1>3. /\ InsertAt(tasks, i, t) \in Seq(Tasks) /\ Len(InsertAt(tasks, i, t)) = n + 1
      /\ \A j \in 1 .. n + 1 : InsertAt(tasks, i, t)[j] =
           IF j < i THEN tasks[j] ELSE IF j = i THEN t ELSE tasks[j - 1]
  BY <1>1, InsertAtFacts
<1>4. /\ tasks' \in Seq(Tasks) /\ Len(tasks') = n + 1
      /\ \A j \in 1 .. n + 1 : tasks'[j] = IF j < i THEN tasks[j] ELSE IF j = i THEN t ELSE tasks[j - 1]
  BY <1>2, <1>3
<1>5. DOMAIN tasks' = 1 .. n + 1
  BY <1>4, SeqFacts
<1>6. /\ \A j \in 1 .. n : tasks[j].at \in Nat /\ tasks[j].id \in Nat
      /\ t.at \in Nat /\ t.id \in Nat
  <2>1. /\ \A j \in DOMAIN tasks : tasks[j].at \in Nat /\ tasks[j].id \in Nat
        /\ \A x \in Tasks : x.at \in Nat /\ x.id \in Nat
    BY ArrayFacts
  <2> QED
    BY <1>1, <2>1
<1>7. pc[c] = "insert" /\ Adds(c)
  BY DEF AddInsert, ThreadAt, Adds
<1>8. /\ ~Adds(c)' /\ \A d \in Cpus : d # c => new'[d] = new[d] /\ (Adds(d)' <=> Adds(d))
      /\ counter' = counter /\ ran' = ran /\ cancelled' = cancelled
  BY DEF AddInsert, Evaluate, Goto, TypeOK, Adds
<1>9. TypeOK'
  <2>1. new' \in [Cpus -> [id : Ids, at : Nat]]
    BY TimerAssumption DEF AddInsert, TypeOK, NoTask, Ids
  <2> QED
    BY <1>4, <2>1 DEF AddInsert, TypeOK, Tasks, Evaluate, Goto, timerVars
<1>10. /\ \A j \in 1 .. i - 1 : t.at <= tasks[j].at
       /\ \A j \in i .. n : tasks[j].at <= t.at
  BY <1>1, <1>2, <1>6 DEF SortsBefore
<1>11. /\ \A j \in 1 .. n : tasks[j].id # t.id
       /\ t.id < counter /\ t.id \notin ran /\ t.id \notin cancelled
  BY <1>1, <1>7 DEF Numbered, t
<1> HIDE DEF n
<1>12. Sorted'
  <2> SUFFICES ASSUME NEW j \in 1 .. n + 1, NEW k \in 1 .. n + 1, j < k
               PROVE  tasks'[k].at <= tasks'[j].at
    BY <1>5 DEF Sorted
  <2>1. \A x, y \in 1 .. n : x < y => tasks[y].at <= tasks[x].at
    BY <1>1 DEF Sorted
  <2>2. CASE j # i /\ k # i
    BY <1>1, <1>4, <2>1, <2>2
  <2>3. CASE j = i
    BY <1>1, <1>4, <1>10, <2>3
  <2>4. CASE k = i
    BY <1>1, <1>4, <1>10, <2>4
  <2> QED
    BY <2>2, <2>3, <2>4
<1>13. \A j, k \in 1 .. n + 1 : tasks'[j].id = tasks'[k].id => j = k
  <2>1. \A x, y \in 1 .. n : tasks[x].id = tasks[y].id => x = y
    BY <1>1 DEF Fates
  <2> QED
    BY <1>1, <1>4, <1>11, <2>1
<1>14. \A j \in 1 .. n + 1 : tasks'[j].id = t.id \/ \E x \in 1 .. n : tasks'[j] = tasks[x]
  BY <1>1, <1>4
<1>15. Fates'
  BY <1>1, <1>5, <1>8, <1>11, <1>13, <1>14 DEF Fates
<1>16. Numbered'
  <2>1. \A d \in Cpus : d # c /\ Adds(d) => new[d].id # t.id
    BY <1>7 DEF Numbered, t
  <2> QED
    BY <1>1, <1>5, <1>8, <1>11, <1>14, <2>1 DEF Numbered
<1> QED
  BY <1>9, <1>12, <1>15, <1>16

(* What a removal from the array keeps.                                    *)
LEMMA RemovedKeeps ==
  ASSUME IInv, NEW k \in DOMAIN tasks,
         tasks' \in Seq(Tasks), Len(tasks') = Len(tasks) - 1,
         \A j \in 1 .. Len(tasks) - 1 : tasks'[j] = IF j < k THEN tasks[j] ELSE tasks[j + 1]
  PROVE  /\ Sorted'
         /\ (\A i, j \in DOMAIN tasks : tasks[i].id = tasks[j].id => i = j)'
         /\ \A j \in DOMAIN tasks' :
              tasks'[j].id # tasks[k].id /\ \E i \in DOMAIN tasks : tasks'[j] = tasks[i]
<1> USE DEF IInv
<1> DEFINE n == Len(tasks)
<1>1. n \in Nat /\ DOMAIN tasks = 1 .. n /\ DOMAIN tasks' = 1 .. n - 1
  BY ArrayFacts, SeqFacts
<1>2. \A j \in 1 .. n - 1 : tasks'[j] = IF j < k THEN tasks[j] ELSE tasks[j + 1]
  OBVIOUS
<1>3. \A x, y \in 1 .. n : x < y => tasks[y].at <= tasks[x].at
  BY <1>1 DEF Sorted
<1>4. \A x, y \in 1 .. n : tasks[x].id = tasks[y].id => x = y
  BY <1>1 DEF Fates
<1>5. k \in 1 .. n
  BY <1>1
<1> HIDE DEF n
<1>6. Sorted'
  <2> SUFFICES ASSUME NEW x \in 1 .. n - 1, NEW y \in 1 .. n - 1, x < y
               PROVE  tasks'[y].at <= tasks'[x].at
    BY <1>1 DEF Sorted
  <2> QED
    BY <1>1, <1>2, <1>3, <1>5
<1>7. \A x, y \in 1 .. n - 1 : tasks'[x].id = tasks'[y].id => x = y
  BY <1>1, <1>2, <1>4, <1>5
<1>8. \A j \in 1 .. n - 1 : tasks'[j].id # tasks[k].id /\ \E i \in 1 .. n : tasks'[j] = tasks[i]
  <2> TAKE j \in 1 .. n - 1
  <2>1. CASE j < k
    BY <1>1, <1>2, <1>4, <1>5, <2>1
  <2>2. CASE ~(j < k)
    <3>1. tasks'[j] = tasks[j + 1] /\ j + 1 \in 1 .. n /\ j + 1 # k
      BY <1>1, <1>2, <1>5, <2>2
    <3> QED
      BY <1>4, <1>5, <3>1
  <2> QED
    BY <2>1, <2>2
<1> QED
  BY <1>1, <1>6, <1>7, <1>8

(* time_cancel_async_task moves a task from the array to the cancelled     *)
(* ones, or leaves everything as it is.                                    *)
LEMMA CancelKeeps ==
  ASSUME IInv, NEW c \in Cpus, NEW id \in 0 .. counter - 1, Cancel(c, id)
  PROVE  IInv'
<1> USE DEF IInv
<1>1. /\ \A d \in Cpus : Adds(d)' <=> Adds(d)
      /\ new' = new /\ counter' = counter /\ ran' = ran
  BY DEF Cancel, ThreadAt, Evaluate, Goto, TypeOK, Adds
<1>2. id \in Ids /\ id \in Nat /\ id < counter
  BY TimerAssumption DEF TypeOK, Ids
<1>3. CASE UNCHANGED <<tasks, cancelled>>
  <2>1. TypeOK'
    BY <1>3 DEF TypeOK, Cancel, Evaluate, Goto, timerVars
  <2> QED
    BY <1>1, <1>3, <2>1, ListKept DEF listVars
<1>4. CASE RemoveTask(id) /\ cancelled' = cancelled \union {id}
  <2>1. PICK k \in DOMAIN tasks : tasks[k].id = id /\ tasks' = RemoveAt(tasks, k)
    BY <1>4 DEF RemoveTask
  <2>2. /\ tasks' \in Seq(Tasks) /\ Len(tasks') = Len(tasks) - 1
        /\ \A j \in 1 .. Len(tasks) - 1 : tasks'[j] = IF j < k THEN tasks[j] ELSE tasks[j + 1]
    <3>1. \A q \in Seq(Tasks) : \A i \in 1 .. Len(q) :
            /\ RemoveAt(q, i) \in Seq(Tasks) /\ Len(RemoveAt(q, i)) = Len(q) - 1
            /\ \A j \in 1 .. Len(q) - 1 : RemoveAt(q, i)[j] = IF j < i THEN q[j] ELSE q[j + 1]
      BY RemoveAtFacts
    <3>2. tasks \in Seq(Tasks) /\ k \in 1 .. Len(tasks)
      BY ArrayFacts
    <3> QED
      BY <2>1, <3>1, <3>2
  <2>3. /\ Sorted'
        /\ (\A i, j \in DOMAIN tasks : tasks[i].id = tasks[j].id => i = j)'
        /\ \A j \in DOMAIN tasks' : tasks'[j].id # id /\ \E i \in DOMAIN tasks : tasks'[j] = tasks[i]
    BY <2>1, <2>2, RemovedKeeps
  <2>4. TypeOK'
    BY <1>2, <1>4, <2>2 DEF TypeOK, Cancel, Evaluate, Goto, timerVars, Tasks
  <2>5. id \notin ran
    BY <2>1 DEF Fates
  <2>6. Fates'
    BY <1>1, <1>4, <2>3, <2>5 DEF Fates
  <2>7. Numbered'
    <3>1. \A d \in Cpus : Adds(d) => new[d].id # id
      BY <2>1 DEF Numbered
    <3> QED
      BY <1>1, <1>2, <1>4, <2>3, <3>1 DEF Numbered
  <2> QED
    BY <2>3, <2>4, <2>6, <2>7
<1> QED
  BY <1>3, <1>4 DEF Cancel

(* time_cpu_timer_isr takes the last task from the array and runs it.      *)
LEMMA IsrTaskKeeps ==
  ASSUME IInv, NEW c \in Cpus, IsrTask(c)
  PROVE  IInv'
<1> USE DEF IInv
<1>1. /\ \A d \in Cpus : Adds(d)' <=> Adds(d)
      /\ new' = new /\ counter' = counter /\ cancelled' = cancelled
  BY DEF IsrTask, Adds
<1>2. CASE UNCHANGED <<tasks, ran>>
  <2>1. TypeOK'
    BY <1>2 DEF TypeOK, IsrTask, timerVars
  <2> QED
    BY <1>1, <1>2, <2>1, ListKept DEF listVars
<1>3. CASE TaskDue /\ tasks' = DropTask /\ ran' = ran \union {Last(tasks).id}
  <2> DEFINE k == Len(tasks)
             id == tasks[k].id
  <2>1. tasks # <<>>
    BY <1>3 DEF TaskDue
  <2>2. /\ k \in Nat \ {0} /\ Last(tasks) = tasks[k]
        /\ tasks' \in Seq(Tasks) /\ Len(tasks') = k - 1
        /\ \A j \in 1 .. k - 1 : tasks'[j] = tasks[j]
    <3>1. tasks \in Seq(Tasks) /\ tasks' = Front(tasks)
      BY <1>3, ArrayFacts DEF DropTask
    <3>2. /\ k \in Nat \ {0} /\ Last(tasks) = tasks[k]
          /\ Front(tasks) \in Seq(Tasks) /\ Len(Front(tasks)) = k - 1
          /\ \A j \in 1 .. k - 1 : Front(tasks)[j] = tasks[j]
      BY <2>1, <3>1, FrontFacts
    <3> QED
      BY <3>1, <3>2
  <2>3. k \in DOMAIN tasks /\ tasks[k].id \in Ids
    BY <2>2, ArrayFacts
  <2>4. \A j \in 1 .. k - 1 : tasks'[j] = IF j < k THEN tasks[j] ELSE tasks[j + 1]
    BY <2>2
  <2>5. /\ Sorted'
        /\ (\A i, j \in DOMAIN tasks : tasks[i].id = tasks[j].id => i = j)'
        /\ \A j \in DOMAIN tasks' : tasks'[j].id # id /\ \E i \in DOMAIN tasks : tasks'[j] = tasks[i]
    BY <2>2, <2>3, <2>4, RemovedKeeps
  <2>6. ran' = ran \union {id}
    BY <1>3, <2>2
  <2>7. TypeOK'
    BY <2>2, <2>3, <2>6 DEF TypeOK, IsrTask, timerVars, Tasks
  <2>8. id \notin cancelled /\ id < counter /\ \A d \in Cpus : Adds(d) => new[d].id # id
    BY <2>3 DEF Fates, Numbered
  <2> HIDE DEF id
  <2>9. Fates'
    BY <1>1, <2>5, <2>6, <2>8 DEF Fates
  <2>10. Numbered'
    BY <1>1, <2>5, <2>6, <2>8 DEF Numbered
  <2> QED
    BY <2>5, <2>7, <2>9, <2>10
<1> QED
  BY <1>2, <1>3 DEF IsrTask

(* IInv is inductive.                                                      *)
LEMMA NextHolds == IInv /\ [Next]_vars => IInv'
<1> SUFFICES ASSUME IInv, [Next]_vars PROVE IInv'
  OBVIOUS
<1>1. CASE UNCHANGED vars
  BY <1>1 DEF vars, listVars, timerVars, IInv, TypeOK, Sorted, Fates, Numbered, Adds
<1>2. CASE Tick
  <2>1. TypeOK'
    BY <1>2, TimerAssumption DEF IInv, Tick, TypeOK, listVars, timerVars
  <2> QED
    BY <1>2, <2>1, ListKept DEF IInv, Tick, Adds
<1>3. ASSUME NEW c \in Cpus, AddNumber(c) \/ SetNextSwitch(c) \/ Step(c) PROVE IInv'
  BY <1>3, AddNumberKeeps, TimersKeep, AddInsertKeeps, IsrTaskKeeps DEF Step
<1>4. ASSUME NEW c \in Cpus, NEW id \in 0 .. counter - 1, Cancel(c, id) PROVE IInv'
  BY <1>4, CancelKeeps
<1> QED
  BY <1>1, <1>2, <1>3, <1>4 DEF Next

(* For any number of CPUs and tasks: whichever of insertion, interrupt and *)
(* cancellation race, a task that was added is pending, has run or was     *)
(* cancelled, and only one of these.                                       *)
THEOREM TimerTasksSound == Spec => []TasksSound
<1>1. IInv => TasksSound
  <2>1. IInv => Pending \intersect ran = {} /\ Pending \intersect cancelled = {}
    BY DEF IInv, Fates, Pending
  <2> QED
    BY <2>1 DEF IInv, Fates, TasksSound, OneFate
<1> QED
  BY <1>1, InitHolds, NextHolds, PTL DEF Spec

(* Only time_cpu_timer_isr calls a callback, and it takes the last task of *)
(* the sorted array: none before its time, none before an earlier one.     *)
THEOREM TimerRunsEarliest == Spec => RunsEarliestInTime
<1>1. IInv /\ [Next]_vars => [RanEarliest]_vars
  <2> SUFFICES ASSUME IInv, Next PROVE RanEarliest
    OBVIOUS
  <2> SUFFICES ASSUME NEW i \in DOMAIN tasks, tasks[i].id \in ran' \ ran
               PROVE  now >= tasks[i].at /\ \A j \in DOMAIN tasks : tasks[i].at <= tasks[j].at
    BY DEF RanEarliest
  <2> USE DEF IInv
  <2>1. PICK c \in Cpus : IsrTask(c)
    BY DEF Next, Tick, AddNumber, SetNextSwitch, Step, AddUnlock, AddInsert, AddFails, Eval,
           Interrupt, IsrPreempt, IsrEval, Cancel, listVars
  <2>2. TaskDue /\ tasks[i].id = Last(tasks).id
    BY <2>1 DEF IsrTask
  <2>3. Len(tasks) \in DOMAIN tasks /\ Last(tasks) = tasks[Len(tasks)]
    <3>1. tasks # <<>> /\ tasks \in Seq(Tasks)
      BY <2>2, ArrayFacts DEF TaskDue
    <3>2. Len(tasks) \in Nat \ {0} /\ Last(tasks) = tasks[Len(tasks)]
      BY <3>1, FrontFacts
    <3> QED
      BY <3>2, ArrayFacts
  <2>4. i = Len(tasks)
    BY <2>2, <2>3 DEF Fates
  <2>5. \A j \in DOMAIN tasks : j <= i
    BY <2>4, ArrayFacts
  <2>6. \A j \in DOMAIN tasks : tasks[i].at <= tasks[j].at
    <3> TAKE j \in DOMAIN tasks
    <3>1. CASE j = i
      BY <3>1, ArrayFacts
    <3>2. CASE j < i
      BY <3>2 DEF Sorted
    <3> QED
      BY <2>5, <3>1, <3>2, ArrayFacts
  <2> QED
    BY <2>2, <2>3, <2>4, <2>6 DEF TaskDue
<1> QED
  BY <1>1, InitHolds, NextHolds, PTL DEF Spec, RunsEarliestInTime
=============================================================================
