-------------------------- MODULE HousekeepingProofs --------------------------
(***************************************************************************)
(* Proofs about the housekeeping queue, for any number of clients, tasks,  *)
(* times and intervals, with hk_cancel and with a queue that cannot grow.  *)
(***************************************************************************)
EXTENDS Housekeeping, ArrayLemmas

(* The queue is sorted by time.                                            *)
Sorted == \A i, j \in DOMAIN queue : i < j => queue[i].at <= queue[j].at

(* Whoever is inside a call holds hk_mtx, and calls have their own steps.  *)
Excluded ==
  /\ pc[Hk] \in {"idle", "check", "call"} /\ (pc[Hk] # "idle" => mtx = Hk)
  /\ \A c \in Clients : pc[c] \in {"idle", "add", "cancel"} /\ (pc[c] # "idle" => mtx = c)

(* A number is given to one task: the next one is taskno_ctr, and only the *)
(* holder of hk_mtx has it in hand.                                        *)
Numbered ==
  /\ \A i \in DOMAIN queue : queue[i].no < ctr
  /\ \A i, j \in DOMAIN queue : queue[i].no = queue[j].no => i = j
  /\ pc[Hk] = "call" => task.no < ctr /\ \A i \in DOMAIN queue : queue[i].no # task.no
  /\ ctr <= adds
  /\ \A c \in Clients : pc[c] = "add" => arg[c].no = ctr /\ ctr < adds

(* The time of the pass is not in the future.                              *)
IInv == TypeOK /\ Sorted /\ Excluded /\ Numbered /\ seen <= now

(* The queue has its places, and tasks in them.                            *)
LEMMA QueueFacts ==
  ASSUME TypeOK
  PROVE  /\ queue \in Seq(Tasks) /\ Len(queue) \in Nat /\ DOMAIN queue = 1 .. Len(queue)
         /\ \A i \in DOMAIN queue : /\ queue[i] \in Tasks
                                    /\ queue[i].no \in Nat /\ queue[i].at \in Nat
         /\ ctr \in Nat /\ adds \in Nat /\ MaxTasks \in Nat /\ TsMax \in Nat
<1>1. queue \in Seq(Tasks) /\ MaxTasks \in Nat /\ TsMax \in Nat /\ ctr \in Nat /\ adds \in Nat
  BY HousekeepingAssumption DEF TypeOK
<1>2. Len(queue) \in Nat /\ DOMAIN queue = 1 .. Len(queue) /\ \A i \in DOMAIN queue : queue[i] \in Tasks
  BY <1>1, SeqFacts
<1> QED
  BY <1>1, <1>2 DEF Tasks

(* The empty task is one.                                                  *)
LEMMA NoTaskType == NoTask \in Tasks
BY HousekeepingAssumption DEF NoTask, Tasks

(* The queue is empty, and nobody is in a call.                            *)
LEMMA InitHolds == Init => IInv
<1> SUFFICES ASSUME Init PROVE IInv
  OBVIOUS
<1>1. queue = <<>> /\ <<>> \in Seq(Tasks) /\ DOMAIN queue = {}
  BY EmptyFacts DEF Init
<1> MaxTasks \in Nat /\ MaxTime \in Nat
  BY HousekeepingAssumption
<1> 0 \in 0 .. MaxTasks /\ 0 \in 0 .. MaxTime
  OBVIOUS
<1>2. TypeOK
  <2>1. asleep \in BOOLEAN
    BY DEF Init
  <2>2. pc \in [Clients \union {Hk} -> {"idle", "add", "cancel", "check", "call"}]
    BY DEF Init
  <2> QED
    BY <1>1, <2>1, <2>2, NoTaskType DEF Init, TypeOK
<1>3. Sorted /\ Excluded /\ Numbered /\ seen <= now
  BY <1>1, HousekeepingAssumption DEF Init, Sorted, Excluded, Numbered
<1> QED
  BY <1>2, <1>3 DEF IInv

(* A task put in a place that is not before an earlier one nor after a     *)
(* later one, with a number that no queued task has.                       *)
LEMMA InsertKeeps ==
  ASSUME TypeOK, Sorted, NEW t \in Tasks, NEW i \in 1 .. Len(queue) + 1,
         \A j \in 1 .. i - 1 : queue[j].at <= t.at,
         \A j \in i .. Len(queue) : t.at <= queue[j].at,
         \A j \in DOMAIN queue : queue[j].no # t.no,
         \A j, k \in DOMAIN queue : queue[j].no = queue[k].no => j = k,
         queue' = InsertAt(queue, i, t)
  PROVE  /\ queue' \in Seq(Tasks) /\ Sorted'
         /\ (\A j, k \in DOMAIN queue : queue[j].no = queue[k].no => j = k)'
         /\ \A j \in DOMAIN queue' : queue'[j] = t \/ \E k \in DOMAIN queue : queue'[j] = queue[k]
<1> DEFINE n == Len(queue)
<1>1. /\ n \in Nat /\ DOMAIN queue = 1 .. n /\ queue \in Seq(Tasks)
      /\ \A j \in 1 .. n : queue[j].at \in Nat
      /\ i \in 1 .. n + 1
  BY QueueFacts
<1>2. \A q \in Seq(Tasks) : \A j \in 1 .. Len(q) + 1 :
        /\ InsertAt(q, j, t) \in Seq(Tasks) /\ Len(InsertAt(q, j, t)) = Len(q) + 1
        /\ \A k \in 1 .. Len(q) + 1 : InsertAt(q, j, t)[k] =
             IF k < j THEN q[k] ELSE IF k = j THEN t ELSE q[k - 1]
  BY InsertAtFacts
<1>3. /\ queue' \in Seq(Tasks) /\ Len(queue') = n + 1
      /\ \A j \in 1 .. n + 1 : queue'[j] = IF j < i THEN queue[j] ELSE IF j = i THEN t ELSE queue[j - 1]
  BY <1>1, <1>2
<1>4. DOMAIN queue' = 1 .. n + 1
  BY <1>3, SeqFacts
<1>5. /\ \A x, y \in 1 .. n : x < y => queue[x].at <= queue[y].at
      /\ \A x \in 1 .. i - 1 : queue[x].at <= t.at
      /\ \A x \in i .. n : t.at <= queue[x].at
      /\ \A x \in 1 .. n : queue[x].no # t.no
      /\ \A x, y \in 1 .. n : queue[x].no = queue[y].no => x = y
  BY <1>1 DEF Sorted
<1> HIDE DEF n
<1>6. ASSUME NEW j \in 1 .. n + 1, NEW k \in 1 .. n + 1, j < k
      PROVE  queue'[j].at <= queue'[k].at
  <2>1. j \in Nat /\ k \in Nat /\ j \in 1 .. n /\ k - 1 \in 1 .. n /\ j < k
    BY <1>1, <1>6
  <2>2. CASE k < i
    BY <1>1, <1>3, <1>5, <2>1, <2>2
  <2>3. CASE j < i /\ i < k
    <3>1. queue'[j] = queue[j] /\ queue'[k] = queue[k - 1] /\ j < k - 1
      BY <1>1, <1>3, <2>1, <2>3
    <3> QED
      BY <1>5, <2>1, <3>1
  <2>4. CASE i < j
    <3>1. queue'[j] = queue[j - 1] /\ queue'[k] = queue[k - 1] /\ j - 1 < k - 1 /\ j - 1 \in 1 .. n
      BY <1>1, <1>3, <2>1, <2>4
    <3> QED
      BY <1>5, <2>1, <3>1
  <2>5. CASE j = i
    BY <1>1, <1>3, <1>5, <2>1, <2>5
  <2>6. CASE k = i
    BY <1>1, <1>3, <1>5, <2>1, <2>6
  <2> QED
    BY <1>1, <2>1, <2>2, <2>3, <2>4, <2>5, <2>6
<1>7. Sorted'
  BY <1>4, <1>6 DEF Sorted
<1>8. ASSUME NEW j \in 1 .. n + 1, NEW k \in 1 .. n + 1, queue'[j].no = queue'[k].no
      PROVE  j = k
  <2> DEFINE old(x) == IF x < i THEN x ELSE x - 1
  <2>1. queue'[i] = t /\ \A x \in 1 .. n + 1 : x # i => old(x) \in 1 .. n /\ queue'[x] = queue[old(x)]
    BY <1>1, <1>3
  <2>2. \A x, y \in 1 .. n + 1 : x # i /\ y # i /\ old(x) = old(y) => x = y
    BY <1>1
  <2> HIDE DEF old
  <2> QED
    BY <1>5, <1>8, <2>1, <2>2
<1>9. \A j \in 1 .. n + 1 : queue'[j] = t \/ \E k \in 1 .. n : queue'[j] = queue[k]
  BY <1>1, <1>3
<1> QED
  BY <1>1, <1>3, <1>4, <1>7, <1>8, <1>9

(* A task taken out of the queue.                                          *)
LEMMA RemoveKeeps ==
  ASSUME TypeOK, Sorted, NEW k \in DOMAIN queue,
         \A i, j \in DOMAIN queue : queue[i].no = queue[j].no => i = j,
         queue' \in Seq(Tasks), Len(queue') = Len(queue) - 1,
         \A j \in 1 .. Len(queue) - 1 : queue'[j] = IF j < k THEN queue[j] ELSE queue[j + 1]
  PROVE  /\ Sorted'
         /\ (\A i, j \in DOMAIN queue : queue[i].no = queue[j].no => i = j)'
         /\ \A j \in DOMAIN queue' :
              queue'[j].no # queue[k].no /\ \E i \in DOMAIN queue : queue'[j] = queue[i]
<1> DEFINE n == Len(queue)
<1>1. n \in Nat /\ DOMAIN queue = 1 .. n /\ DOMAIN queue' = 1 .. n - 1
  BY QueueFacts, SeqFacts
<1>2. \A j \in 1 .. n - 1 : queue'[j] = IF j < k THEN queue[j] ELSE queue[j + 1]
  OBVIOUS
<1>3. \A x, y \in 1 .. n : x < y => queue[x].at <= queue[y].at
  BY <1>1 DEF Sorted
<1>4. \A x, y \in 1 .. n : queue[x].no = queue[y].no => x = y
  BY <1>1
<1>5. k \in 1 .. n
  BY <1>1
<1> HIDE DEF n
<1>6. ASSUME NEW x \in 1 .. n - 1, NEW y \in 1 .. n - 1, x < y
      PROVE  queue'[x].at <= queue'[y].at
  BY <1>1, <1>2, <1>3, <1>5, <1>6
<1>7. Sorted'
  BY <1>1, <1>6 DEF Sorted
<1>8. \A x, y \in 1 .. n - 1 : queue'[x].no = queue'[y].no => x = y
  BY <1>1, <1>2, <1>4, <1>5
<1>9. \A j \in 1 .. n - 1 : queue'[j].no # queue[k].no /\ \E i \in 1 .. n : queue'[j] = queue[i]
  <2> TAKE j \in 1 .. n - 1
  <2>1. CASE j < k
    BY <1>1, <1>2, <1>4, <1>5, <2>1
  <2>2. CASE ~(j < k)
    <3>1. queue'[j] = queue[j + 1] /\ j + 1 \in 1 .. n /\ j + 1 # k
      BY <1>1, <1>2, <1>5, <2>2
    <3> QED
      BY <1>4, <1>5, <3>1
  <2> QED
    BY <2>1, <2>2
<1> QED
  BY <1>1, <1>7, <1>8, <1>9

(* Both ways to insert a task find it such a place.                        *)
LEMMA InsertPlace ==
  ASSUME TypeOK, NEW t \in Tasks,
         queue' \in Insert(t) \/ queue' \in SortedInsert(queue, t)
  PROVE  \E i \in 1 .. Len(queue) + 1 :
           /\ \A j \in 1 .. i - 1 : queue[j].at <= t.at
           /\ \A j \in i .. Len(queue) : t.at <= queue[j].at
           /\ queue' = InsertAt(queue, i, t)
<1>1. CASE queue' \in SortedInsert(queue, t)
  BY <1>1 DEF SortedInsert
<1>2. CASE queue' = InsertAt(queue, 1, t) /\ t.at <= 0
  <2>1. Len(queue) \in Nat /\ \A j \in 1 .. Len(queue) : queue[j].at \in Nat
    BY QueueFacts
  <2>2. t.at = 0
    BY <1>2, HousekeepingAssumption DEF Tasks
  <2> QED
    BY <1>2, <2>1, <2>2
<1> QED
  BY <1>1, <1>2 DEF Insert

(* Who holds hk_mtx keeps the others out.                                  *)
LEMMA Alone ==
  ASSUME IInv
  PROVE  /\ Hk \notin Clients /\ Nobody \notin Clients /\ Hk # Nobody
         /\ mtx = Nobody => \A c \in Clients \union {Hk} : pc[c] = "idle"
         /\ \A c \in Clients : pc[c] # "idle" =>
              mtx = c /\ \A d \in Clients \union {Hk} : d # c => pc[d] = "idle"
         /\ pc[Hk] # "idle" => mtx = Hk /\ \A c \in Clients : pc[c] = "idle"
BY HousekeepingAssumption DEF IInv, Excluded, Hk, Nobody

(* hk_add_repeated and hk_cancel take hk_mtx; the addition has the next    *)
(* number.                                                                 *)
LEMMA CallsKeep ==
  ASSUME IInv, NEW c \in Clients, AddCall(c) \/ CancelCall(c)
  PROVE  IInv'
<1> USE DEF IInv
<1>1. /\ mtx = Nobody /\ mtx' = c /\ queue' = queue /\ ctr' = ctr /\ given' = given /\ gone' = gone
      /\ asleep' = asleep /\ seen' = seen /\ task' = task /\ ran' = ran /\ now' = now
  BY DEF AddCall, CancelCall, Acquire, hkVars
<1>2. \A d \in Clients \union {Hk} : pc[d] = "idle"
  BY <1>1, Alone
<1>3. Sorted' /\ seen' <= now'
  BY <1>1 DEF Sorted
<1>4. CASE AddCall(c)
  <2>1. PICK t \in Times, i \in Intervals :
          arg' = [arg EXCEPT ![c] = [no |-> ctr, at |-> t, every |-> i]]
    BY <1>4 DEF AddCall
  <2>2. [no |-> ctr, at |-> t, every |-> i] \in Tasks
    BY HousekeepingAssumption DEF TypeOK, Tasks
  <2>3. arg' \in [Clients -> Tasks] /\ arg'[c].no = ctr
    BY <2>1, <2>2 DEF TypeOK
  <2>4. adds' = adds + 1 /\ adds' \in 0 .. MaxTasks
    BY <1>4, HousekeepingAssumption DEF AddCall, TypeOK
  <2>5. /\ pc' \in [Clients \union {Hk} -> {"idle", "add", "cancel", "check", "call"}]
        /\ pc'[c] = "add" /\ \A d \in Clients \union {Hk} : d # c => pc'[d] = "idle"
    BY <1>2, <1>4 DEF AddCall, Goto, TypeOK
  <2>6. TypeOK'
    BY <1>1, <2>3, <2>4, <2>5 DEF TypeOK
  <2>7. Excluded'
    BY <1>1, <2>5, Alone DEF Excluded
  <2>8. Numbered'
    BY <1>1, <2>3, <2>4, <2>5, QueueFacts, Alone DEF Numbered
  <2> QED
    BY <1>3, <2>6, <2>7, <2>8
<1>5. CASE CancelCall(c)
  <2>1. PICK no \in given : arg' = [arg EXCEPT ![c] = [NoTask EXCEPT !.no = no]]
    BY <1>5 DEF CancelCall
  <2>2. [NoTask EXCEPT !.no = no] \in Tasks
    BY NoTaskType DEF TypeOK, Tasks
  <2>3. arg' \in [Clients -> Tasks] /\ adds' = adds
    BY <1>5, <2>1, <2>2 DEF TypeOK, CancelCall
  <2>4. /\ pc' \in [Clients \union {Hk} -> {"idle", "add", "cancel", "check", "call"}]
        /\ pc'[c] = "cancel" /\ \A d \in Clients \union {Hk} : d # c => pc'[d] = "idle"
    BY <1>2, <1>5 DEF CancelCall, Goto, TypeOK
  <2>5. TypeOK'
    BY <1>1, <2>3, <2>4 DEF TypeOK
  <2>6. Excluded'
    BY <1>1, <2>4, Alone DEF Excluded
  <2>7. Numbered'
    BY <1>1, <2>3, <2>4, Alone DEF Numbered
  <2> QED
    BY <1>3, <2>5, <2>6, <2>7
<1> QED
  BY <1>4, <1>5

(* A client that returns leaves everybody outside.                         *)
LEMMA ReturnFacts ==
  ASSUME IInv, NEW c \in Clients, pc[c] # "idle", Return(c)
  PROVE  /\ arg' \in [Clients -> Tasks]
         /\ pc' \in [Clients \union {Hk} -> {"idle", "add", "cancel", "check", "call"}]
         /\ \A d \in Clients \union {Hk} : pc'[d] = "idle"
BY Alone, NoTaskType DEF IInv, TypeOK, Return, Goto

(* The queue takes the new task, and taskno_ctr moves past its number; or  *)
(* neither.                                                                *)
LEMMA AddReturnKeeps ==
  ASSUME IInv, NEW c \in Clients, AddReturn(c)
  PROVE  IInv'
<1> USE DEF IInv
<1>1. /\ pc[c] = "add" /\ Return(c) /\ mtx' = Nobody
      /\ given' = given \union {arg[c].no} /\ gone' = gone /\ adds' = adds
      /\ seen' = seen /\ task' = task /\ ran' = ran /\ now' = now
  BY DEF AddReturn, Release
<1> asleep' \in BOOLEAN
  BY DEF AddReturn, Release, TypeOK
<1>2. /\ arg' \in [Clients -> Tasks]
      /\ pc' \in [Clients \union {Hk} -> {"idle", "add", "cancel", "check", "call"}]
      /\ \A d \in Clients \union {Hk} : pc'[d] = "idle"
  BY <1>1, ReturnFacts
<1>3. Excluded'
  BY <1>2 DEF Excluded
<1>4. arg[c] \in Tasks /\ arg[c].no = ctr /\ ctr < adds /\ arg[c].no \in 0 .. MaxTasks
  BY <1>1 DEF TypeOK, Numbered, Tasks
<1>5. CASE UNCHANGED <<queue, ctr>>
  <2>1. TypeOK'
    BY <1>1, <1>2, <1>4, <1>5 DEF TypeOK
  <2>2. Sorted' /\ Numbered'
    BY <1>1, <1>2, <1>5 DEF Sorted, Numbered
  <2> QED
    BY <1>1, <1>3, <2>1, <2>2
<1>6. CASE queue' \in Insert(arg[c]) /\ ctr' = ctr + 1
  <2> DEFINE t == arg[c]
  <2>1. PICK i \in 1 .. Len(queue) + 1 :
           /\ \A j \in 1 .. i - 1 : queue[j].at <= t.at
           /\ \A j \in i .. Len(queue) : t.at <= queue[j].at
           /\ queue' = InsertAt(queue, i, t)
    BY <1>4, <1>6, InsertPlace
  <2>2. \A j \in DOMAIN queue : queue[j].no \in Nat /\ queue[j].no < ctr
    BY QueueFacts DEF Numbered
  <2>3. /\ t \in Tasks /\ t.no = ctr /\ ctr \in Nat /\ \A j \in DOMAIN queue : queue[j].no # t.no
        /\ \A j, k \in DOMAIN queue : queue[j].no = queue[k].no => j = k
    BY <1>4, <2>2, QueueFacts DEF Numbered
  <2> HIDE DEF t
  <2>4. /\ queue' \in Seq(Tasks) /\ Sorted'
        /\ (\A j, k \in DOMAIN queue : queue[j].no = queue[k].no => j = k)'
        /\ \A j \in DOMAIN queue' : queue'[j] = t \/ \E k \in DOMAIN queue : queue'[j] = queue[k]
    BY <2>1, <2>3, InsertKeeps
  <2>5. \A j \in DOMAIN queue' : queue'[j].no < ctr'
    BY <1>6, <2>2, <2>3, <2>4
  <2>6. ctr' \in 0 .. MaxTasks /\ ctr' <= adds'
    BY <1>1, <1>4, <1>6, HousekeepingAssumption DEF TypeOK
  <2>7. TypeOK'
    BY <1>1, <1>2, <1>4, <2>4, <2>6 DEF TypeOK
  <2>8. Numbered'
    BY <1>2, <2>4, <2>5, <2>6 DEF Numbered
  <2> QED
    BY <1>1, <1>3, <2>4, <2>7, <2>8
<1> QED
  BY <1>5, <1>6 DEF AddReturn, NextNumber

(* hk_cancel takes the task out, and keeps hk_mtx if it found it.          *)
LEMMA CancelReturnKeeps ==
  ASSUME IInv, NEW c \in Clients, CancelReturn(c)
  PROVE  IInv'
<1> USE DEF IInv
<1>1. /\ pc[c] = "cancel" /\ Return(c) /\ mtx' \in {mtx, Nobody}
      /\ given' = given /\ adds' = adds /\ ctr' = ctr
      /\ seen' = seen /\ task' = task /\ ran' = ran /\ now' = now
  BY DEF CancelReturn, Release
<1> asleep' \in BOOLEAN
  BY DEF CancelReturn, Release, TypeOK
<1>2. /\ arg' \in [Clients -> Tasks]
      /\ pc' \in [Clients \union {Hk} -> {"idle", "add", "cancel", "check", "call"}]
      /\ \A d \in Clients \union {Hk} : pc'[d] = "idle"
  BY <1>1, ReturnFacts
<1>3. Excluded'
  BY <1>2 DEF Excluded
<1>4. CASE UNCHANGED <<queue, gone>>
  <2>1. TypeOK'
    BY <1>1, <1>2, <1>4 DEF TypeOK
  <2>2. Sorted' /\ Numbered'
    BY <1>1, <1>2, <1>4 DEF Sorted, Numbered
  <2> QED
    BY <1>1, <1>3, <2>1, <2>2
<1>5. ASSUME NEW k \in DOMAIN queue, queue' = RemoveAt(queue, k), gone' = gone \union {arg[c].no}
      PROVE  IInv'
  <2>1. /\ queue' \in Seq(Tasks) /\ Len(queue') = Len(queue) - 1
        /\ \A j \in 1 .. Len(queue) - 1 : queue'[j] = IF j < k THEN queue[j] ELSE queue[j + 1]
    <3>1. \A q \in Seq(Tasks) : \A i \in 1 .. Len(q) :
            /\ RemoveAt(q, i) \in Seq(Tasks) /\ Len(RemoveAt(q, i)) = Len(q) - 1
            /\ \A j \in 1 .. Len(q) - 1 : RemoveAt(q, i)[j] = IF j < i THEN q[j] ELSE q[j + 1]
      BY RemoveAtFacts
    <3>2. queue \in Seq(Tasks) /\ k \in 1 .. Len(queue)
      BY QueueFacts
    <3> QED
      BY <1>5, <3>1, <3>2
  <2>2. /\ Sorted'
        /\ (\A i, j \in DOMAIN queue : queue[i].no = queue[j].no => i = j)'
        /\ \A j \in DOMAIN queue' : \E i \in DOMAIN queue : queue'[j] = queue[i]
    BY <2>1, RemoveKeeps DEF Numbered
  <2>3. arg[c].no \in 0 .. MaxTasks
    BY DEF TypeOK, Tasks
  <2>4. TypeOK'
    BY <1>1, <1>2, <1>5, <2>1, <2>3 DEF TypeOK
  <2>5. Numbered'
    BY <1>1, <1>2, <2>2 DEF Numbered
  <2> QED
    BY <1>1, <1>3, <2>2, <2>4, <2>5
<1> QED
  BY <1>4, <1>5 DEF CancelReturn

(* The pass begins and ends with hk_mtx in the hands of the thread.        *)
LEMMA PassKeeps ==
  ASSUME IInv, PassStart \/ PassEnd
  PROVE  IInv'
<1> USE DEF IInv
<1>1. /\ queue' = queue /\ ctr' = ctr /\ arg' = arg /\ adds' = adds /\ given' = given /\ gone' = gone
      /\ task' = task /\ ran' = ran /\ now' = now /\ seen' \in {0, now} /\ mtx' \in {Hk, Nobody}
      /\ asleep' = asleep
  BY DEF PassStart, PassEnd, Acquire, clientVars
<1>2. \A c \in Clients : pc[c] = "idle"
  BY Alone DEF PassStart, PassEnd, Acquire
<1>3. /\ pc' \in [Clients \union {Hk} -> {"idle", "add", "cancel", "check", "call"}]
      /\ \A c \in Clients : pc'[c] = "idle"
      /\ pc'[Hk] \in {"check", "idle"} /\ (pc'[Hk] = "check" => mtx' = Hk)
  BY <1>2, Alone DEF PassStart, PassEnd, Acquire, Goto, TypeOK
<1>4. seen' \in 0 .. MaxTime /\ seen' <= now'
  BY <1>1, HousekeepingAssumption DEF TypeOK
<1>5. TypeOK'
  BY <1>1, <1>3, <1>4 DEF TypeOK
<1>6. Sorted' /\ Excluded' /\ Numbered'
  BY <1>1, <1>3 DEF Sorted, Excluded, Numbered
<1> QED
  BY <1>4, <1>5, <1>6

(* The task that is taken is the first, and no other has its number.       *)
LEMMA TakeTaskKeeps ==
  ASSUME IInv, TakeTask
  PROVE  IInv'
<1> USE DEF IInv
<1>1. /\ ctr' = ctr /\ arg' = arg /\ adds' = adds /\ given' = given /\ gone' = gone
      /\ mtx' = mtx /\ now' = now /\ seen' = seen /\ asleep' = asleep
      /\ pc[Hk] = "check" /\ queue # <<>> /\ queue' = Tail(queue) /\ task' = Head(queue)
      /\ ran' = ran \union {task'.no}
  BY DEF TakeTask, TaskDue, clientVars
<1>2. /\ Len(queue) \in Nat \ {0} /\ Head(queue) = queue[1] /\ 1 \in DOMAIN queue
      /\ queue' \in Seq(Tasks) /\ Len(queue') = Len(queue) - 1
      /\ \A j \in 1 .. Len(queue) - 1 : queue'[j] = queue[j + 1]
  BY <1>1, QueueFacts, TailFacts
<1>3. \A j \in 1 .. Len(queue) - 1 : queue'[j] = IF j < 1 THEN queue[j] ELSE queue[j + 1]
  BY <1>2
<1>4. /\ Sorted'
      /\ (\A i, j \in DOMAIN queue : queue[i].no = queue[j].no => i = j)'
      /\ \A j \in DOMAIN queue' :
           queue'[j].no # queue[1].no /\ \E i \in DOMAIN queue : queue'[j] = queue[i]
  BY <1>2, <1>3, RemoveKeeps DEF Numbered
<1>5. /\ pc' \in [Clients \union {Hk} -> {"idle", "add", "cancel", "check", "call"}]
      /\ \A c \in Clients : pc'[c] = pc[c]
      /\ pc'[Hk] = "call"
  BY Alone DEF TakeTask, Goto, TypeOK
<1>6. task' \in Tasks /\ task' = queue[1] /\ task'.no \in 0 .. MaxTasks
  BY <1>1, <1>2, QueueFacts DEF Tasks
<1>7. TypeOK'
  BY <1>1, <1>2, <1>5, <1>6 DEF TypeOK
<1>8. Excluded'
  BY <1>1, <1>5 DEF Excluded
<1>9. Numbered'
  BY <1>1, <1>2, <1>4, <1>5, <1>6 DEF Numbered
<1> QED
  BY <1>1, <1>4, <1>7, <1>8, <1>9

(* A repeated task goes back to a place that fits its next time.           *)
LEMMA TaskReturnsKeeps ==
  ASSUME IInv, TaskReturns
  PROVE  IInv'
<1> USE DEF IInv
<1>1. /\ ctr' = ctr /\ arg' = arg /\ adds' = adds /\ given' = given /\ gone' = gone
      /\ mtx' = mtx /\ now' = now /\ seen' = seen /\ ran' = ran /\ asleep' = asleep
      /\ pc[Hk] = "call" /\ task' = NoTask
  BY DEF TaskReturns, clientVars
<1>2. /\ pc' \in [Clients \union {Hk} -> {"idle", "add", "cancel", "check", "call"}]
      /\ \A c \in Clients : pc'[c] = pc[c]
      /\ pc'[Hk] = "check"
  BY Alone DEF TaskReturns, Goto, TypeOK
<1>3. Excluded'
  BY <1>1, <1>2 DEF Excluded
<1>4. CASE queue' = queue
  <2>1. TypeOK'
    BY <1>1, <1>2, <1>4, NoTaskType DEF TypeOK
  <2>2. Sorted' /\ Numbered'
    BY <1>1, <1>2, <1>4 DEF Sorted, Numbered
  <2> QED
    BY <1>1, <1>3, <2>1, <2>2
<1>5. CASE Repeats /\ queue' \in SortedInsert(queue, [task EXCEPT !.at = NextTime])
  <2> DEFINE t == [task EXCEPT !.at = NextTime]
  <2>1. /\ task \in Tasks /\ task.at \in Nat /\ task.every \in Nat /\ TsMax \in Nat
        /\ task.every > 0 /\ task.at <= TsMax - task.every
    BY <1>5, HousekeepingAssumption DEF Repeats, TypeOK, Tasks
  <2>2. NextTime \in 0 .. TsMax
    BY <2>1 DEF NextTime
  <2>3. t \in Tasks /\ t.no = task.no
    BY <2>1, <2>2 DEF Tasks
  <2>4. queue' \in SortedInsert(queue, t)
    BY <1>5
  <2> HIDE DEF t
  <2>5. PICK i \in 1 .. Len(queue) + 1 :
           /\ \A j \in 1 .. i - 1 : queue[j].at <= t.at
           /\ \A j \in i .. Len(queue) : t.at <= queue[j].at
           /\ queue' = InsertAt(queue, i, t)
    BY <2>3, <2>4, InsertPlace
  <2>6. t.no < ctr /\ \A j \in DOMAIN queue : queue[j].no # t.no
    BY <1>1, <2>3 DEF Numbered
  <2>7. /\ queue' \in Seq(Tasks) /\ Sorted'
        /\ (\A j, k \in DOMAIN queue : queue[j].no = queue[k].no => j = k)'
        /\ \A j \in DOMAIN queue' : queue'[j] = t \/ \E k \in DOMAIN queue : queue'[j] = queue[k]
    BY <2>3, <2>5, <2>6, InsertKeeps DEF Numbered
  <2>8. TypeOK'
    BY <1>1, <1>2, <2>7, NoTaskType DEF TypeOK
  <2>9. Numbered'
    BY <1>1, <1>2, <2>6, <2>7 DEF Numbered
  <2> QED
    BY <1>1, <1>3, <2>7, <2>8, <2>9
<1> QED
  BY <1>4, <1>5 DEF TaskReturns

(* IInv is inductive.                                                      *)
LEMMA NextHolds == IInv /\ [Next]_vars => IInv'
<1> SUFFICES ASSUME IInv, [Next]_vars PROVE IInv'
  OBVIOUS
<1>1. CASE UNCHANGED vars
  BY <1>1 DEF vars, clientVars, hkVars, IInv, TypeOK, Sorted, Excluded, Numbered
<1>2. CASE Tick
  <2>1. /\ now' = now + 1 /\ now' \in 0 .. MaxTime /\ seen' <= now'
    BY <1>2, HousekeepingAssumption DEF IInv, Tick, TypeOK, hkVars
  <2>2. TypeOK'
    BY <1>2, <2>1 DEF IInv, Tick, TypeOK, clientVars, hkVars
  <2>3. Sorted' /\ Excluded' /\ Numbered'
    BY <1>2 DEF IInv, Tick, Sorted, Excluded, Numbered, clientVars, hkVars
  <2> QED
    BY <2>1, <2>2, <2>3 DEF IInv
<1>3. CASE PassWaits
  BY <1>3 DEF IInv, PassWaits, clientVars, TypeOK, Sorted, Excluded, Numbered
<1> QED
  BY <1>1, <1>2, <1>3, PassKeeps, TakeTaskKeeps, TaskReturnsKeeps, CallsKeep, AddReturnKeeps,
     CancelReturnKeeps DEF Next, HkStep

(* For any number of clients and tasks: the queue is well formed, and a    *)
(* number identifies one task, also while hk_thread_func runs a task, puts *)
(* a repeated one back or finds the queue unable to grow.                  *)
THEOREM HousekeepingQueueSound == Spec => []QueueSound
<1>1. IInv => QueueSound
  BY DEF IInv, Numbered, QueueSound, NumbersUnique, Queued
<1> QED
  BY <1>1, InitHolds, NextHolds, PTL DEF Spec

(* hk_thread_func runs no task before its time, and none while an earlier  *)
(* one is queued.                                                          *)
THEOREM HousekeepingRunsInOrder == Spec => RunsInOrder
<1>1. IInv /\ [Next]_vars => [TookFirst]_vars
  <2> SUFFICES ASSUME IInv, Next, pc[Hk] # "call", pc'[Hk] = "call"
               PROVE  task'.at <= now /\ \A i \in DOMAIN queue : task'.at <= queue[i].at
    BY DEF TookFirst
  <2>1. TakeTask
    BY Alone DEF IInv, TypeOK, Next, Tick, HkStep, PassStart, PassWaits, TaskReturns, PassEnd, AddCall,
           AddReturn, CancelCall, CancelReturn, Return, Goto
  <2>2. queue # <<>> /\ Head(queue).at <= seen /\ task' = Head(queue)
    BY <2>1 DEF TakeTask, TaskDue
  <2>3. 1 \in DOMAIN queue /\ Head(queue) = queue[1]
    BY <2>2, QueueFacts, TailFacts DEF IInv
  <2>4. queue[1].at \in Nat /\ seen \in Nat /\ now \in Nat /\ seen <= now
    BY <2>3, QueueFacts, HousekeepingAssumption DEF IInv, TypeOK
  <2>5. task'.at <= now
    BY <2>2, <2>3, <2>4
  <2>6. \A i \in DOMAIN queue : i = 1 \/ 1 < i
    BY QueueFacts DEF IInv
  <2>7. \A i \in DOMAIN queue : task'.at <= queue[i].at
    BY <2>2, <2>3, <2>4, <2>6 DEF IInv, Sorted
  <2> QED
    BY <2>5, <2>7
<1> QED
  BY <1>1, InitHolds, NextHolds, PTL DEF Spec, RunsInOrder
=============================================================================
