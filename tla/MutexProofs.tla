----------------------------- MODULE MutexProofs -----------------------------
(***************************************************************************)
(* The inductive invariant of the mutex, and the theorems about it, for    *)
(* every finite set of threads and handlers, every EXCLUSIVE_MAGIC and     *)
(* every configuration.                                                    *)
(*                                                                         *)
(* WakersFit says where every thread is that mutex_wait has taken from the *)
(* run queue, and who will resume it; without it a caller could be sent    *)
(* back to the wrong loop.  CallsFit says what a caller may hold in each   *)
(* loop, and LockFits what "shares" stands for.                            *)
(***************************************************************************)
EXTENDS Mutex, ArrayLemmas, FiniteSetTheorems

Waiting == {"append", "listed", "blocked"}

Won(u) == cb[u] = "won"

UserFits(u) ==
  /\ pc[u] \in Waiting <=> u \in blocked \/ Resumed(u) \/ Won(u)
  /\ u \in blocked => ~Resumed(u) /\ ~Won(u)
  /\ Resumed(u) => Waits(u) /\ ~Won(u)
  /\ pc[u] = "resume" <=> target[u] # None
  /\ Listed(u) <=> Waits(u) /\ ~Resumed(u)
  /\ ~conf.smp /\ pc[u] \in {"append", "listed"} => u \in blocked /\ cb[u] = None

TargetsDiffer == \A v, w \in Users : target[v] = target[w] => v = w \/ target[v] = None

ListedOnce == \A i, j \in DOMAIN waiting : waiting[i] = waiting[j] => i = j

WakersFit == (\A u \in Users : UserFits(u)) /\ TargetsDiffer /\ ListedOnce

(* Where each caller is fits what it holds.                                *)
CallsFit ==
  \A u \in Users :
    /\ pc[u] \in Waiting \union {"loop", "block", "check"} =>
         hold[u] # "shared" /\ (op[u] = "add" => hold[u] = None)
    /\ pc[u] = "sub" => hold[u] = "shared"

LockFits ==
  /\ SharesCountHolders
  /\ Cardinality(Readers) < Magic
  /\ \A u, v \in Users : hold[u] = "excl" => v = u \/ hold[v] = None

IInv == TypeOK /\ WakersFit /\ CallsFit /\ LockFits

(* The configuration is one of the given ones, and its users are users.    *)
LEMMA ConfFacts ==
  ASSUME TypeOK
  PROVE  /\ conf.users \subseteq Users /\ conf.timeouts \subseteq Nat
         /\ conf.maxTime \in Nat /\ conf.smp \in BOOLEAN /\ Forever \in Nat
BY ConfigsAssumption, Zenon DEF TypeOK

(* An entry of the waiting list is a user.                                 *)
LEMMA WaitingFacts ==
  ASSUME TypeOK
  PROVE  /\ DOMAIN waiting = 1 .. Len(waiting) /\ Len(waiting) \in Nat
         /\ \A i \in DOMAIN waiting : waiting[i] \in Users
BY SeqFacts, Zenon DEF TypeOK

(* A deadline is a time.                                                   *)
LEMMA DeadlineType ==
  ASSUME TypeOK, NEW d \in Deadlines
  PROVE  d \in Nat
BY ConfFacts DEF TypeOK, Deadlines

(* The types are kept when a call starts.                                  *)
LEMMA EnterTypes ==
  ASSUME TypeOK, NEW u \in Users, UNCHANGED conf,
         Acquire(u) \/ AcquireShared(u) \/ Release(u) \/ ReleaseShared(u)
  PROVE  TypeOK'
<1>1. PICK what \in {"swap", "add"}, at \in {"loop", "sub"}, until \in Nat, seen \in 0 .. Magic :
        Enter(u, what, at, until, seen)
  <2>1. 0 \in 0 .. Magic
    BY MagicAssumption
  <2>2. shares \in 0 .. Magic /\ Forever \in Nat /\ \A d \in Deadlines : d \in Nat
    BY DeadlineType, ConfFacts, Zenon DEF TypeOK
  <2>3. ASSUME NEW d \in Deadlines
        PROVE  /\ Enter(u, "swap", "loop", d, 0) \/ Enter(u, "add", "loop", d, shares) =>
                    \E what \in {"swap", "add"}, at \in {"loop", "sub"}, until \in Nat, seen \in 0 .. Magic :
                      Enter(u, what, at, until, seen)
    BY <2>1, <2>2, Zenon
  <2> QED
    BY <2>1, <2>2, <2>3, Zenon DEF Acquire, AcquireShared, Release, ReleaseShared
<1> QED
  BY <1>1, Zenon DEF TypeOK, Enter, Goto, Pcs, lockVars, waitVars, timeVars

(* A return sets the locals to values of their types.                      *)
LEMMA LeaveTypes ==
  ASSUME TypeOK, NEW u, NEW at \in Pcs, Leave(u, at)
  PROVE  /\ pc' \in [Users -> Pcs] /\ op' \in [Users -> {"swap", "add"}]
         /\ old' \in [Users -> 0 .. Magic] /\ deadline' \in [Users -> Nat]
<1>1. 0 \in 0 .. Magic
  BY MagicAssumption
<1>2. Forever \in Nat
  BY ConfFacts, Zenon
<1> QED
  BY <1>1, <1>2, Zenon DEF TypeOK, Leave, Goto

(* The types are kept when an exchange succeeds.                           *)
LEMMA TakeTypes ==
  ASSUME TypeOK, NEW u \in Users, UNCHANGED conf, SwapOk(u) \/ AddOk(u) \/ SubOk(u)
  PROVE  TypeOK'
<1>1. shares' \in 0 .. Magic
  <2>1. CASE SwapOk(u)
    BY <2>1, MagicAssumption DEF SwapOk, NewValue, Expected
  <2>2. CASE AddOk(u)
    BY <2>2, MagicAssumption DEF TypeOK, AddOk, BelowThreshold
  <2>3. CASE SubOk(u)
    BY <2>3, MagicAssumption DEF TypeOK, SubOk, SubStore
  <2> QED
    BY <2>1, <2>2, <2>3, Zenon
<1>2. hold' \in [Users -> {None, "excl", "shared"}]
  BY Zenon DEF TypeOK, SwapOk, AddOk, SubOk, SubStore
<1>3. PICK at \in Pcs : Leave(u, at) /\ UNCHANGED <<waitVars, timeVars>>
  BY Zenon DEF SwapOk, AddOk, SubOk, SubStore, Pcs
<1> QED
  BY <1>1, <1>2, <1>3, LeaveTypes, Zenon DEF TypeOK, waitVars, timeVars

(* The types are kept when an exchange fails, and when a caller looks at   *)
(* its deadline.                                                           *)
LEMMA FailTypes ==
  ASSUME TypeOK, NEW u \in Users, UNCHANGED conf,
         SwapFail(u) \/ AddFail(u) \/ SubFail(u) \/ Check(u)
  PROVE  TypeOK'
<1>1. CASE SwapFail(u)
  BY <1>1, Zenon DEF TypeOK, SwapFail, Retry, Goto, Pcs, lockVars, waitVars, timeVars
<1>2. CASE AddFail(u)
  <2>1. old' \in [Users -> 0 .. Magic] /\ pc' \in [Users -> Pcs]
    BY <1>2, Zenon DEF TypeOK, AddFail, Retry, Goto, Pcs
  <2> QED
    BY <1>2, <2>1, Zenon DEF TypeOK, AddFail, lockVars, waitVars, timeVars
<1>3. CASE SubFail(u)
  <2>1. /\ old' = [old EXCEPT ![u] = shares]
        /\ UNCHANGED <<lockVars, waitVars, timeVars, pc, op, deadline>>
    BY <1>3, Zenon DEF SubFail
  <2> QED
    BY <2>1, Zenon DEF TypeOK, lockVars, waitVars, timeVars
<1>4. CASE Check(u)
  <2>1. \/ Goto(u, "loop") /\ UNCHANGED <<op, old, deadline>>
        \/ Leave(u, "idle")
    BY <1>4, Zenon DEF Check
  <2>2. /\ pc' \in [Users -> Pcs] /\ op' \in [Users -> {"swap", "add"}]
        /\ old' \in [Users -> 0 .. Magic] /\ deadline' \in [Users -> Nat]
    <3>1. CASE Goto(u, "loop") /\ UNCHANGED <<op, old, deadline>>
      BY <3>1, Zenon DEF TypeOK, Goto, Pcs
    <3>2. CASE Leave(u, "idle")
      BY <3>2, LeaveTypes, Zenon DEF Pcs
    <3> QED
      BY <2>1, <3>1, <3>2, Zenon
  <2>3. UNCHANGED <<lockVars, waitVars, timeVars>>
    BY <1>4, Zenon DEF Check
  <2> QED
    BY <2>2, <2>3, Zenon DEF TypeOK, lockVars, waitVars, timeVars
<1> QED
  BY <1>1, <1>2, <1>3, <1>4, Zenon

(* The types are kept by mutex_wait.                                       *)
LEMMA WaitTypes ==
  ASSUME TypeOK, NEW u \in Users, UNCHANGED conf,
         WaitBlock(u) \/ WaitAppend(u) \/ WaitYield(u)
  PROVE  TypeOK'
<1>1. NewTimer(u) \in Nat \union {NoTimer}
  BY ConfFacts DEF TypeOK, NewTimer
<1>2. CASE WaitBlock(u)
  BY <1>1, <1>2, Zenon DEF TypeOK, WaitBlock, Goto, Pcs, lockVars
<1>3. CASE WaitAppend(u)
  BY <1>3, AppendFacts, Zenon DEF TypeOK, WaitAppend, Goto, Pcs, lockVars, timeVars
<1>4. CASE WaitYield(u)
  BY <1>4, Zenon DEF TypeOK, WaitYield, Goto, Pcs, lockVars, waitVars, timeVars
<1> QED
  BY <1>2, <1>3, <1>4, Zenon

(* The types are kept by mutex_notify.                                     *)
LEMMA NotifyTypes ==
  ASSUME TypeOK, WakersFit, NEW u \in Users, UNCHANGED conf, Notify(u) \/ NotifyResume(u)
  PROVE  TypeOK'
<1>1. CASE Notify(u) /\ UNCHANGED waitVars
  BY <1>1, Zenon DEF TypeOK, Notify, Goto, Pcs, lockVars, waitVars, timeVars
<1>2. CASE Notify(u) /\ ~UNCHANGED waitVars
  <2>1. PICK i \in Live : /\ waiting' = RemoveAt(waiting, i)
                          /\ blocked' = blocked \ {waiting[i]}
                          /\ target' = [target EXCEPT ![u] = waiting[i]]
                          /\ Goto(u, "resume")
    BY <1>2, Zenon DEF Notify
  <2>2. i \in 1 .. Len(waiting) /\ waiting[i] \in Users
    BY WaitingFacts, Zenon DEF Live
  <2>3. waiting' \in Seq(Users)
    BY <2>1, <2>2, RemoveAtFacts, Zenon DEF TypeOK
  <2> QED
    BY <1>2, <2>1, <2>2, <2>3, Zenon DEF TypeOK, Notify, Goto, Pcs, lockVars, timeVars
<1>3. CASE NotifyResume(u)
  BY <1>3, Zenon DEF TypeOK, NotifyResume, Pcs, lockVars
<1> QED
  BY <1>1, <1>2, <1>3, Zenon

(* The types are kept by the timer and by the clock.                       *)
LEMMA TimerTypes ==
  ASSUME TypeOK, NEW u \in Users, UNCHANGED conf,
         TimerExpires(u) \/ TimerCallback(u) \/ TimerResume(u)
  PROVE  TypeOK'
<1>1. CASE TimerExpires(u) \/ TimerCallback(u)
  BY <1>1, Zenon DEF TypeOK, TimerExpires, TimerCallback, lockVars, waitVars, callVars
<1>2. CASE TimerResume(u)
  <2>1. PICK i \in DOMAIN waiting : TimerHandoff(u, RemoveAt(waiting, i))
    BY <1>2, Zenon DEF TimerResume
  <2>2. waiting' \in Seq(Users)
    BY <2>1, WaitingFacts, RemoveAtFacts DEF TypeOK, TimerHandoff
  <2> QED
    BY <2>1, <2>2, Zenon DEF TypeOK, TimerHandoff, Goto, Pcs, lockVars
<1> QED
  BY <1>1, <1>2, Zenon

(* Every step keeps the types.                                             *)
LEMMA NextTypes == TypeOK /\ WakersFit /\ [Next]_vars => TypeOK'
<1> SUFFICES ASSUME TypeOK, WakersFit, [Next]_vars PROVE TypeOK'
  BY Zenon
<1>1. CASE UNCHANGED vars
  BY <1>1, Zenon DEF vars, lockVars, waitVars, timeVars, callVars, TypeOK
<1>2. CASE Tick /\ UNCHANGED conf
  BY <1>2, ConfFacts DEF TypeOK, Tick, lockVars, waitVars, callVars
<1>3. CASE Next /\ ~Tick
  <2>1. PICK u \in conf.users : \/ Acquire(u) \/ AcquireShared(u)
                                \/ Release(u) \/ ReleaseShared(u)
                                \/ Step(u) \/ TimerExpires(u)
    BY <1>3, Zenon DEF Next
  <2>2. u \in Users /\ UNCHANGED conf
    BY <1>3, ConfFacts, Zenon DEF Next
  <2> QED
    BY <2>1, <2>2, EnterTypes, TakeTypes, FailTypes, WaitTypes, NotifyTypes, TimerTypes, Zenon DEF Step
<1> QED
  BY <1>1, <1>2, <1>3, Zenon DEF Next

-----------------------------------------------------------------------------
(***************************************************************************)
(* Every step of the mutex keeps WakersFit: a thread that waits is in the  *)
(* list, or in the hands of exactly one of mutex_notify and                *)
(* mutex_resume_timer.                                                     *)
(***************************************************************************)

(* What a user is to its wakers depends on a few variables only.           *)
LEMMA SameWakers ==
  ASSUME UNCHANGED <<target, cb>>, NEW v \in Users
  PROVE  (Resumed(v)' <=> Resumed(v)) /\ (Won(v)' <=> Won(v))
<1>1. Resumed(v)' <=> Resumed(v)
  BY Zenon DEF Resumed
<1>2. Won(v)' <=> Won(v)
  BY Zenon DEF Won
<1> QED
  BY <1>1, <1>2, Zenon

LEMMA SameList ==
  ASSUME UNCHANGED waiting, NEW v \in Users
  PROVE  Listed(v)' <=> Listed(v)
BY Zenon DEF Listed

(* A step of one caller moves nobody else.                                 *)
LEMMA OneMoves ==
  ASSUME TypeOK, NEW at, NEW u \in Users, pc' = [pc EXCEPT ![u] = at], NEW v \in Users
  PROVE  pc'[v] = IF v = u THEN at ELSE pc[v]
BY Zenon DEF TypeOK

(* Outside of mutex_wait and mutex_notify a step of a caller leaves the    *)
(* waiting threads alone.                                                  *)
LEMMA InsideKeepsWakers ==
  ASSUME TypeOK, WakersFit, NEW u \in Users, pc[u] \notin Waiting \union {"resume"},
         NEW at, at \notin Waiting \union {"resume"}, pc' = [pc EXCEPT ![u] = at],
         UNCHANGED <<waiting, blocked, target, cb, conf>>
  PROVE  WakersFit'
<1>1. ASSUME NEW v \in Users PROVE UserFits(v)'
  <2>1. UserFits(v)
    BY Zenon DEF WakersFit
  <2>2. /\ pc'[v] \in Waiting <=> pc[v] \in Waiting
        /\ Waits(v)' <=> Waits(v)
        /\ pc'[v] = "resume" <=> pc[v] = "resume"
        /\ pc'[v] \in {"append", "listed"} <=> pc[v] \in {"append", "listed"}
    BY OneMoves DEF Waiting, Waits
  <2> QED
    BY <2>1, <2>2, SameWakers, SameList, Zenon DEF UserFits
<1> QED
  BY <1>1, Zenon DEF WakersFit, TargetsDiffer, ListedOnce

(* mutex_wait: THREAD_BLOCKED is set, and nobody has won the thread yet.   *)
LEMMA BlockKeepsWakers ==
  ASSUME TypeOK, WakersFit, NEW u \in Users, UNCHANGED conf, WaitBlock(u)
  PROVE  WakersFit'
<1>1. /\ UNCHANGED <<waiting, target, cb, conf>> /\ blocked' = blocked \union {u}
      /\ pc[u] = "block" /\ pc' = [pc EXCEPT ![u] = "append"]
      /\ conf.smp \/ cb[u] = None
  BY Zenon DEF WaitBlock, Goto, ThreadRuns
<1>2. ASSUME NEW v \in Users PROVE UserFits(v)'
  <2> UserFits(v)
    BY Zenon DEF WakersFit
  <2>1. pc'[v] = IF v = u THEN "append" ELSE pc[v]
    BY <1>1, Zenon DEF TypeOK
  <2>2. /\ Resumed(v)' <=> Resumed(v)
        /\ Won(v)' <=> Won(v)
        /\ Listed(v)' <=> Listed(v)
    BY <1>1, SameWakers, SameList, Zenon
  <2>3. CASE v = u
    BY <1>1, <2>1, <2>2, <2>3 DEF UserFits, Waiting, Waits
  <2>4. CASE v # u
    BY <1>1, <2>1, <2>2, <2>4, Zenon DEF UserFits, Waiting, Waits
  <2> QED
    BY <2>3, <2>4, Zenon
<1> QED
  BY <1>1, <1>2, Zenon DEF WakersFit, TargetsDiffer, ListedOnce

(* The thread is appended to the list once.                                *)
LEMMA AppendKeepsWakers ==
  ASSUME TypeOK, WakersFit, NEW u \in Users, UNCHANGED conf, WaitAppend(u)
  PROVE  WakersFit'
<1>1. /\ UNCHANGED <<blocked, target, cb, conf>> /\ waiting' = Append(waiting, u)
      /\ pc[u] = "append" /\ pc' = [pc EXCEPT ![u] = "listed"]
  BY Zenon DEF WaitAppend, Goto, timeVars
<1>2. ~Resumed(u) /\ ~Won(u) /\ ~Listed(u)
  BY <1>1, Zenon DEF WakersFit, UserFits, WaitAppend, Waits, ThreadRuns, CanRun, Torn, SwitchedOut, Won
<1>3. /\ DOMAIN waiting' = 1 .. Len(waiting) + 1
      /\ \A i \in 1 .. Len(waiting) : waiting'[i] = waiting[i]
      /\ waiting'[Len(waiting) + 1] = u
  BY <1>1, WaitingFacts, AppendFacts DEF TypeOK
<1>4. ListedOnce'
  <2>1. \A i \in 1 .. Len(waiting) : waiting[i] # u
    BY <1>2, WaitingFacts, Zenon DEF Listed
  <2> QED
    BY <1>3, <2>1, WaitingFacts DEF WakersFit, ListedOnce
<1>5. ASSUME NEW v \in Users PROVE UserFits(v)'
  <2> UserFits(v)
    BY Zenon DEF WakersFit
  <2>1. pc'[v] = IF v = u THEN "listed" ELSE pc[v]
    BY <1>1, Zenon DEF TypeOK
  <2>2. Listed(v)' <=> v = u \/ Listed(v)
    BY <1>3, WaitingFacts DEF Listed
  <2>3. (Resumed(v)' <=> Resumed(v)) /\ (Won(v)' <=> Won(v))
    BY <1>1, SameWakers, Zenon
  <2>4. CASE v = u
    BY <1>1, <1>2, <2>1, <2>2, <2>3, <2>4 DEF UserFits, Waiting, Waits
  <2>5. CASE v # u
    BY <1>1, <2>1, <2>2, <2>3, <2>5, Zenon DEF UserFits, Waiting, Waits
  <2> QED
    BY <2>4, <2>5, Zenon
<1> QED
  BY <1>1, <1>4, <1>5, Zenon DEF WakersFit, TargetsDiffer

(* The thread is switched out.                                             *)
LEMMA YieldKeepsWakers ==
  ASSUME TypeOK, WakersFit, NEW u \in Users, UNCHANGED conf, WaitYield(u)
  PROVE  WakersFit'
<1>1. /\ UNCHANGED <<waiting, blocked, target, cb, conf>>
      /\ pc[u] = "listed" /\ pc' = [pc EXCEPT ![u] = "blocked"]
  BY Zenon DEF WaitYield, Goto, waitVars, timeVars
<1>2. ASSUME NEW v \in Users PROVE UserFits(v)'
  <2> UserFits(v)
    BY Zenon DEF WakersFit
  <2>1. pc'[v] = IF v = u THEN "blocked" ELSE pc[v]
    BY <1>1, Zenon DEF TypeOK
  <2>2. /\ Resumed(v)' <=> Resumed(v)
        /\ Won(v)' <=> Won(v)
        /\ Listed(v)' <=> Listed(v)
    BY <1>1, SameWakers, SameList, Zenon
  <2> QED
    BY <1>1, <2>1, <2>2 DEF UserFits, Waiting, Waits
<1> QED
  BY <1>1, <1>2, Zenon DEF WakersFit, TargetsDiffer, ListedOnce

(* Removing one entry from the waiting list removes one thread from it.    *)
LEMMA RemoveKeepsList ==
  ASSUME TypeOK, ListedOnce, NEW i \in DOMAIN waiting, waiting' = RemoveAt(waiting, i)
  PROVE  ListedOnce' /\ \A v \in Users : Listed(v)' <=> Listed(v) /\ v # waiting[i]
<1>1. /\ DOMAIN waiting = 1 .. Len(waiting) /\ Len(waiting) \in Nat
      /\ waiting \in Seq(Users) /\ i \in 1 .. Len(waiting)
  BY WaitingFacts, Zenon DEF TypeOK
<1> DEFINE n == Len(waiting)
           At(j) == IF j < i THEN j ELSE j + 1
<1>2. /\ waiting' \in Seq(Users) /\ Len(waiting') = n - 1
      /\ \A j \in 1 .. n - 1 : waiting'[j] = IF j < i THEN waiting[j] ELSE waiting[j + 1]
  BY <1>1, RemoveAtFacts, Zenon
<1>3. DOMAIN waiting' = 1 .. n - 1
  BY <1>2, SeqFacts, Zenon
<1>4. \A j \in 1 .. n - 1 : At(j) \in 1 .. n /\ At(j) # i /\ waiting'[j] = waiting[At(j)]
  BY <1>1, <1>2
<1>5. \A j, k \in 1 .. n - 1 : At(j) = At(k) => j = k
  BY <1>1
<1>6. \A k \in 1 .. n : k # i => \E j \in 1 .. n - 1 : At(j) = k
  <2> SUFFICES ASSUME NEW k \in 1 .. n, k # i PROVE \E j \in 1 .. n - 1 : At(j) = k
    BY Zenon
  <2>1. CASE k < i
    <3>1. k \in 1 .. n - 1 /\ At(k) = k
      BY <1>1, <2>1
    <3> QED
      BY <3>1, Zenon
  <2>2. CASE k > i
    <3>1. k - 1 \in 1 .. n - 1 /\ At(k - 1) = k
      BY <1>1, <2>2
    <3> QED
      BY <3>1, Zenon
  <2> QED
    BY <1>1, <2>1, <2>2
<1> HIDE DEF At
<1>7. ListedOnce'
  BY <1>1, <1>3, <1>4, <1>5 DEF ListedOnce
<1>8. ASSUME NEW v \in Users PROVE Listed(v)' <=> Listed(v) /\ v # waiting[i]
  <2>1. ASSUME Listed(v)' PROVE Listed(v) /\ v # waiting[i]
    <3>1. PICK j \in 1 .. n - 1 : waiting'[j] = v
      BY <1>3, <2>1, Zenon DEF Listed
    <3>2. waiting[At(j)] = v /\ At(j) \in 1 .. n /\ At(j) # i
      BY <1>4, <3>1, Zenon
    <3> QED
      BY <1>1, <3>2, Zenon DEF Listed, ListedOnce
  <2>2. ASSUME Listed(v), v # waiting[i] PROVE Listed(v)'
    <3>1. PICK k \in 1 .. n : waiting[k] = v /\ k # i
      BY <1>1, <2>2, Zenon DEF Listed
    <3>2. PICK j \in 1 .. n - 1 : At(j) = k
      BY <1>6, <3>1, Zenon
    <3> QED
      BY <1>3, <1>4, <3>1, <3>2, Zenon DEF Listed
  <2> QED
    BY <2>1, <2>2, Zenon
<1> QED
  BY <1>7, <1>8, Zenon

(* mutex_notify clears THREAD_BLOCKED of one thread and takes it from the  *)
(* list: it has won that thread, which nobody else had.                    *)
LEMMA NotifyKeepsWakers ==
  ASSUME TypeOK, WakersFit, NEW u \in Users, UNCHANGED conf, Notify(u)
  PROVE  WakersFit'
<1>1. CASE Live = {} /\ Goto(u, "idle") /\ UNCHANGED waitVars
  <2>1. /\ pc[u] = "notify" /\ pc' = [pc EXCEPT ![u] = "idle"]
        /\ UNCHANGED <<waiting, blocked, target, cb, conf>>
    BY <1>1, Zenon DEF Notify, Goto, waitVars, timeVars
  <2>2. "notify" \notin Waiting \union {"resume"} /\ "idle" \notin Waiting \union {"resume"}
    BY Zenon DEF Waiting
  <2> QED
    BY <2>1, <2>2, InsideKeepsWakers, Zenon
<1>2. CASE ~(Live = {} /\ Goto(u, "idle") /\ UNCHANGED waitVars)
  <2>1. PICK i \in Live : /\ waiting' = RemoveAt(waiting, i)
                          /\ blocked' = blocked \ {waiting[i]}
                          /\ target' = [target EXCEPT ![u] = waiting[i]]
                          /\ Goto(u, "resume")
    BY <1>2, Zenon DEF Notify
  <2> DEFINE w == waiting[i]
  <2>2. i \in DOMAIN waiting /\ w \in Users /\ w \in blocked /\ Listed(w)
    BY WaitingFacts, Zenon DEF Live, Listed
  <2>3. ListedOnce' /\ \A v \in Users : Listed(v)' <=> Listed(v) /\ v # w
    BY <2>1, <2>2, RemoveKeepsList, Zenon DEF WakersFit
  <2> HIDE DEF w
  <2>4. /\ pc[u] = "notify" /\ pc' = [pc EXCEPT ![u] = "resume"]
        /\ blocked' = blocked \ {w} /\ target' = [target EXCEPT ![u] = w]
        /\ UNCHANGED <<cb, conf>>
    BY <2>1, Zenon DEF Notify, Goto, timeVars, w
  <2>5. w # None /\ w # u /\ target[u] = None /\ ~Resumed(w) /\ ~Won(w) /\ Waits(w)
    <3>1. UserFits(w) /\ UserFits(u)
      BY <2>2, Zenon DEF WakersFit
    <3> QED
      BY <2>2, <2>4, <3>1, UsersAssumption, Zenon DEF UserFits, Waiting, Waits
  <2>6. ASSUME NEW v \in Users
        PROVE  /\ Resumed(v)' <=> Resumed(v) \/ v = w
               /\ Won(v)' <=> Won(v)
               /\ target'[v] = IF v = u THEN w ELSE target[v]
    <3>1. \A x \in Users : target'[x] = IF x = u THEN w ELSE target[x]
      BY <2>4, Zenon DEF TypeOK
    <3>2. v # None
      BY UsersAssumption, Zenon
    <3>3. Resumed(v)' <=> Resumed(v) \/ v = w
      BY <3>1, <3>2, <2>5, Zenon DEF Resumed
    <3>4. Won(v)' <=> Won(v)
      BY <2>4, Zenon DEF Won
    <3> QED
      BY <3>1, <3>3, <3>4, Zenon
  <2>7. ASSUME NEW v \in Users PROVE UserFits(v)'
    <3> UserFits(v)
      BY Zenon DEF WakersFit
    <3>1. pc'[v] = IF v = u THEN "resume" ELSE pc[v]
      BY <2>4, Zenon DEF TypeOK
    <3>2. /\ Resumed(v)' <=> Resumed(v) \/ v = w
          /\ Won(v)' <=> Won(v)
          /\ Listed(v)' <=> Listed(v) /\ v # w
          /\ target'[v] = IF v = u THEN w ELSE target[v]
      BY <2>3, <2>6, Zenon
    <3>3. CASE v = u
      BY <2>4, <2>5, <3>1, <3>2, <3>3 DEF UserFits, Waiting, Waits
    <3>4. CASE v = w
      <4>1. conf.smp \/ pc[w] \notin {"append", "listed"}
        BY <2>2, <2>5, Zenon DEF Notify, ThreadRuns, CanRun, IrqOff
      <4> QED
        BY <2>4, <2>5, <3>1, <3>2, <3>4, <4>1, Zenon DEF UserFits, Waiting, Waits
    <3>5. CASE v # u /\ v # w
      BY <2>4, <3>1, <3>2, <3>5, Zenon DEF UserFits, Waiting, Waits
    <3> QED
      BY <3>3, <3>4, <3>5, Zenon
  <2>8. TargetsDiffer'
    <3>1. \A v \in Users : target[v] # w
      BY <2>5, Zenon DEF Resumed
    <3> QED
      BY <2>6, <3>1, Zenon DEF WakersFit, TargetsDiffer
  <2> QED
    BY <2>3, <2>7, <2>8, Zenon DEF WakersFit
<1> QED
  BY <1>1, <1>2, Zenon

(* thread_handoff of the thread that mutex_notify has won: it goes back to *)
(* its loop, and nobody else will resume it.                               *)
LEMMA ResumeKeepsWakers ==
  ASSUME TypeOK, WakersFit, NEW u \in Users, UNCHANGED conf, NotifyResume(u)
  PROVE  WakersFit'
<1> DEFINE w == target[u]
<1>1. /\ pc[u] = "resume" /\ pc' = [pc EXCEPT ![u] = "idle", ![w] = "check"]
      /\ target' = [target EXCEPT ![u] = None] /\ UNCHANGED <<waiting, blocked, cb, conf>>
  BY Zenon DEF NotifyResume
<1>2. w \in Users /\ w # None /\ Resumed(w)
  <2>1. w # None
    BY <1>1, Zenon DEF WakersFit, UserFits
  <2> QED
    BY <2>1, Zenon DEF TypeOK, Resumed
<1> HIDE DEF w
<1>3. Waits(w) /\ w # u /\ w \notin blocked /\ ~Won(w) /\ ~Listed(w)
  BY <1>1, <1>2, Zenon DEF WakersFit, UserFits, Waits
<1>4. \A x \in Users : target'[x] = IF x = u THEN None ELSE target[x]
  BY <1>1, Zenon DEF TypeOK
<1>5. \A x \in Users : target[x] = w <=> x = u
  BY <1>2, Zenon DEF WakersFit, TargetsDiffer, w
<1>6. ASSUME NEW v \in Users PROVE UserFits(v)'
  <2> UserFits(v)
    BY Zenon DEF WakersFit
  <2>1. pc'[v] = IF v = w THEN "check" ELSE IF v = u THEN "idle" ELSE pc[v]
    BY <1>1, <1>2, Zenon DEF TypeOK
  <2>2. v # None
    BY UsersAssumption, Zenon
  <2>3. Resumed(v)' <=> Resumed(v) /\ v # w
    BY <1>2, <1>4, <1>5, <2>2, Zenon DEF Resumed
  <2>4. (Won(v)' <=> Won(v)) /\ (Listed(v)' <=> Listed(v))
    BY <1>1, SameList, Zenon DEF Won
  <2>5. CASE v = w
    BY <1>1, <1>3, <1>4, <2>1, <2>3, <2>4, <2>5 DEF UserFits, Waiting, Waits
  <2>6. CASE v = u
    BY <1>1, <1>3, <1>4, <2>1, <2>3, <2>4, <2>6 DEF UserFits, Waiting, Waits
  <2>7. CASE v # u /\ v # w
    BY <1>1, <1>4, <2>1, <2>3, <2>4, <2>7, Zenon DEF UserFits, Waiting, Waits
  <2> QED
    BY <2>5, <2>6, <2>7, Zenon
<1>7. TargetsDiffer'
  BY <1>4, Zenon DEF WakersFit, TargetsDiffer
<1>8. ListedOnce'
  BY <1>1, Zenon DEF WakersFit, ListedOnce
<1> QED
  BY <1>6, <1>7, <1>8, Zenon DEF WakersFit

(* The timer interrupt finds an expired timer; on one CPU not in a section *)
(* with interrupts disabled.                                               *)
LEMMA ExpiresKeepsWakers ==
  ASSUME TypeOK, WakersFit, NEW u \in Users, UNCHANGED conf, TimerExpires(u)
  PROVE  WakersFit'
<1>1. /\ cb' = [cb EXCEPT ![u] = "fired"] /\ cb[u] = None
      /\ UNCHANGED <<waiting, blocked, target, pc, conf>>
  BY Zenon DEF TimerExpires, waitVars, callVars
<1>2. conf.smp \/ pc[u] \notin {"append", "listed"}
  BY Zenon DEF TimerExpires, IrqOff
<1>3. ASSUME NEW v \in Users PROVE UserFits(v)'
  <2> UserFits(v)
    BY Zenon DEF WakersFit
  <2>1. cb'[v] = IF v = u THEN "fired" ELSE cb[v]
    BY <1>1, Zenon DEF TypeOK
  <2>2. Won(v)' <=> Won(v)
    BY <1>1, <2>1 DEF Won, None
  <2>3. (Resumed(v)' <=> Resumed(v)) /\ (Listed(v)' <=> Listed(v)) /\ (Waits(v)' <=> Waits(v))
    BY <1>1, SameList, Zenon DEF Resumed, Waits
  <2> QED
    BY <1>1, <1>2, <2>1, <2>2, <2>3, Zenon DEF UserFits
<1> QED
  BY <1>1, <1>3, Zenon DEF WakersFit, TargetsDiffer, ListedOnce

(* mutex_resume_timer wins the thread if THREAD_BLOCKED is still set.      *)
LEMMA CallbackKeepsWakers ==
  ASSUME TypeOK, WakersFit, NEW u \in Users, UNCHANGED conf, TimerCallback(u)
  PROVE  WakersFit'
<1>1. /\ cb' = [cb EXCEPT ![u] = IF u \in blocked THEN "won" ELSE None] /\ cb[u] = "fired"
      /\ blocked' = blocked \ {u} /\ UNCHANGED <<waiting, target, pc, conf>>
  BY Zenon DEF TimerCallback, callVars
<1>2. ASSUME NEW v \in Users PROVE UserFits(v)'
  <2> UserFits(v)
    BY Zenon DEF WakersFit
  <2>1. (Resumed(v)' <=> Resumed(v)) /\ (Listed(v)' <=> Listed(v)) /\ (Waits(v)' <=> Waits(v))
    BY <1>1, SameList, Zenon DEF Resumed, Waits
  <2>2. CASE v = u
    <3>1. cb'[u] = IF u \in blocked THEN "won" ELSE None
      BY <1>1, Zenon DEF TypeOK
    <3>2. (Won(u)' <=> u \in blocked) /\ ~Won(u)
      BY <1>1, <3>1 DEF Won, None
    <3>3. conf.smp \/ pc[u] \notin {"append", "listed"}
      BY <1>1, <2>2, Zenon DEF UserFits, None
    <3> QED
      BY <1>1, <2>1, <2>2, <3>2, <3>3, Zenon DEF UserFits
  <2>3. CASE v # u
    <3>1. cb'[v] = cb[v] /\ (Won(v)' <=> Won(v))
      BY <1>1, <2>3, Zenon DEF TypeOK, Won
    <3> QED
      BY <1>1, <2>1, <2>3, <3>1, Zenon DEF UserFits
  <2> QED
    BY <2>2, <2>3, Zenon
<1> QED
  BY <1>1, <1>2, Zenon DEF WakersFit, TargetsDiffer, ListedOnce

(* The timer hands off the thread that it has won.                         *)
LEMMA HandoffKeepsWakers ==
  ASSUME TypeOK, WakersFit, NEW u \in Users, UNCHANGED conf, TimerResume(u)
  PROVE  WakersFit'
<1>1. PICK i \in DOMAIN waiting : waiting[i] = u /\ TimerHandoff(u, RemoveAt(waiting, i))
  BY Zenon DEF TimerResume
<1>2. /\ cb[u] = "won" /\ cb' = [cb EXCEPT ![u] = None]
      /\ waiting' = RemoveAt(waiting, i) /\ pc' = [pc EXCEPT ![u] = "check"]
      /\ UNCHANGED <<blocked, target, conf>>
  BY <1>1, Zenon DEF TimerHandoff, Goto
<1>3. ListedOnce' /\ \A v \in Users : Listed(v)' <=> Listed(v) /\ v # u
  BY <1>1, <1>2, RemoveKeepsList, Zenon DEF WakersFit
<1>4. Won(u) /\ u \notin blocked /\ ~Resumed(u) /\ target[u] = None
  <2>1. Won(u) /\ UserFits(u)
    BY <1>2, Zenon DEF Won, WakersFit
  <2> QED
    BY <2>1, Zenon DEF UserFits, Waiting
<1>5. ASSUME NEW v \in Users PROVE UserFits(v)'
  <2> UserFits(v)
    BY Zenon DEF WakersFit
  <2>1. pc'[v] = (IF v = u THEN "check" ELSE pc[v]) /\ cb'[v] = (IF v = u THEN None ELSE cb[v])
    BY <1>2, Zenon DEF TypeOK
  <2>2. Resumed(v)' <=> Resumed(v)
    BY <1>2, Zenon DEF Resumed
  <2>3. Won(v)' <=> Won(v) /\ v # u
    BY <2>1, Zenon DEF Won, None
  <2>4. CASE v = u
    BY <1>2, <1>3, <1>4, <2>1, <2>2, <2>3, <2>4 DEF UserFits, Waiting, Waits
  <2>5. CASE v # u
    BY <1>2, <1>3, <2>1, <2>2, <2>3, <2>5, Zenon DEF UserFits, Waiting, Waits
  <2> QED
    BY <2>4, <2>5, Zenon
<1> QED
  BY <1>2, <1>3, <1>5, Zenon DEF WakersFit, TargetsDiffer

(* Nothing that WakersFit speaks of changes.                               *)
LEMMA SameWakersFit ==
  ASSUME WakersFit, UNCHANGED <<waiting, blocked, target, cb, pc, conf>>
  PROVE  WakersFit'
BY DEF WakersFit, UserFits, TargetsDiffer, ListedOnce, Resumed, Won, Waits, Listed

(* The calls, and their loops on "shares", leave the waiting threads alone.*)
LEMMA LoopsKeepWakers ==
  ASSUME TypeOK, WakersFit, NEW u \in Users, UNCHANGED conf,
         \/ Acquire(u) \/ AcquireShared(u) \/ Release(u) \/ ReleaseShared(u)
         \/ SwapOk(u) \/ SwapFail(u) \/ AddOk(u) \/ AddFail(u) \/ Check(u) \/ SubOk(u)
  PROVE  WakersFit'
<1> DEFINE Moves(at) == /\ pc[u] \notin Waiting \union {"resume"}
                        /\ at \notin Waiting \union {"resume"}
                        /\ pc' = [pc EXCEPT ![u] = at]
                        /\ UNCHANGED <<waiting, blocked, target, cb, conf>>
<1>1. CASE Acquire(u) \/ AcquireShared(u) \/ Release(u) \/ ReleaseShared(u)
  <2>1. Moves("loop") \/ Moves("sub")
    BY <1>1, Zenon DEF Acquire, AcquireShared, Release, ReleaseShared, Enter, Goto, Waiting,
                waitVars, timeVars
  <2> QED
    BY <2>1, InsideKeepsWakers, Zenon
<1>2. CASE SwapOk(u) \/ AddOk(u) \/ SubOk(u)
  <2>1. PICK at \in {"idle", "notify"} : Leave(u, at) /\ UNCHANGED <<waitVars, timeVars>>
    BY <1>2, Zenon DEF SwapOk, AddOk, SubOk, SubStore
  <2>2. pc[u] \in {"loop", "sub"}
    BY <1>2, Zenon DEF SwapOk, AddOk, SubOk, SubStore
  <2>3. Moves(at)
    BY <2>1, <2>2, Zenon DEF Leave, Goto, Waiting, waitVars, timeVars
  <2> QED
    BY <2>3, InsideKeepsWakers, Zenon
<1>3. CASE SwapFail(u) \/ AddFail(u)
  <2>1. Moves("check") \/ Moves("block")
    BY <1>3, Zenon DEF SwapFail, AddFail, Retry, Goto, Waiting, waitVars, timeVars
  <2> QED
    BY <2>1, InsideKeepsWakers, Zenon
<1>4. CASE Check(u)
  <2>1. Moves("loop") \/ Moves("idle")
    BY <1>4, Zenon DEF Check, Leave, Goto, Waiting, waitVars, timeVars
  <2> QED
    BY <2>1, InsideKeepsWakers, Zenon
<1> QED
  BY <1>1, <1>2, <1>3, <1>4, Zenon

(* Every step keeps account of who waits and who resumes.                  *)
LEMMA NextWakers == TypeOK /\ WakersFit /\ [Next]_vars => WakersFit'
<1> SUFFICES ASSUME TypeOK, WakersFit, [Next]_vars PROVE WakersFit'
  BY Zenon
<1>1. CASE UNCHANGED vars
  BY <1>1, SameWakersFit, Zenon DEF vars, waitVars, timeVars, callVars
<1>2. CASE Tick /\ UNCHANGED conf
  BY <1>2, SameWakersFit, Zenon DEF Tick, waitVars, callVars
<1>3. CASE Next /\ ~Tick
  <2>1. PICK u \in conf.users : \/ Acquire(u) \/ AcquireShared(u)
                                \/ Release(u) \/ ReleaseShared(u)
                                \/ Step(u) \/ TimerExpires(u)
    BY <1>3, Zenon DEF Next
  <2>2. u \in Users /\ UNCHANGED conf
    BY <1>3, ConfFacts, Zenon DEF Next
  <2>3. CASE SubFail(u)
    BY <2>2, <2>3, SameWakersFit, Zenon DEF SubFail, waitVars, timeVars
  <2> QED
    BY <2>1, <2>2, <2>3, LoopsKeepWakers, BlockKeepsWakers, AppendKeepsWakers, YieldKeepsWakers,
       NotifyKeepsWakers, ResumeKeepsWakers, ExpiresKeepsWakers, CallbackKeepsWakers,
       HandoffKeepsWakers, Zenon DEF Step
<1> QED
  BY <1>1, <1>2, <1>3, Zenon DEF Next

-----------------------------------------------------------------------------
(* The initial mutex is free, and nobody is in a call.                     *)
LEMMA InitHolds == Init => IInv
<1> SUFFICES ASSUME Init PROVE IInv
  BY Zenon
<1>1. TypeOK
  BY ConfigsAssumption, MagicAssumption, EmptyFacts DEF Init, TypeOK, Pcs, None, NoTimer
<1>2. Writers = {} /\ Readers = {}
  BY Zenon DEF Init, Writers, Readers, None
<1>3. LockFits
  BY <1>2, FS_EmptySet, MagicAssumption DEF Init, LockFits, SharesCountHolders, None
<1>4. CallsFit
  BY Zenon DEF Init, CallsFit, Waiting
<1>5. WakersFit
  BY UsersAssumption DEF Init, WakersFit, UserFits, TargetsDiffer, ListedOnce, Waiting, Won, Resumed, Waits, Listed, None
<1> QED
  BY <1>1, <1>3, <1>4, <1>5, Zenon DEF IInv

(* Each caller stays in the loop that fits what it holds: whoever resumes  *)
(* a thread finds it in mutex_wait, and sends it back to its own loop.     *)
LEMMA NextCalls == TypeOK /\ WakersFit /\ CallsFit /\ [Next]_vars => CallsFit'
<1> SUFFICES ASSUME TypeOK, WakersFit, CallsFit, [Next]_vars PROVE CallsFit'
  BY Zenon
<1> DEFINE Fit(v) ==
      /\ pc[v] \in Waiting \union {"loop", "block", "check"} =>
           hold[v] # "shared" /\ (op[v] = "add" => hold[v] = None)
      /\ pc[v] = "sub" => hold[v] = "shared"
<1>1. CASE UNCHANGED <<pc, hold, op>>
  BY <1>1, Zenon DEF CallsFit
<1>2. ASSUME NEW u \in Users, UNCHANGED <<hold, op>>,
             pc[u] \in Waiting \union {"loop", "block", "check"},
             NEW at \in Waiting \union {"loop", "block", "check"},
             pc' = [pc EXCEPT ![u] = at]
      PROVE  CallsFit'
  BY <1>2, Zenon DEF CallsFit, TypeOK, Waiting
<1>3. ASSUME NEW u \in Users, UNCHANGED <<hold, op>>, pc[u] = "notify",
             NEW at \in {"idle", "resume"}, pc' = [pc EXCEPT ![u] = at]
      PROVE  CallsFit'
  BY <1>3, Zenon DEF CallsFit, TypeOK, Waiting
<1>4. ASSUME NEW u \in Users, NotifyResume(u) PROVE CallsFit'
  <2>1. target[u] \in Users /\ pc[target[u]] \in Waiting /\ pc[u] = "resume"
    <3>1. pc[u] = "resume" /\ UserFits(u)
      BY <1>4, Zenon DEF NotifyResume, WakersFit
    <3>2. target[u] \in Users
      BY <3>1, Zenon DEF UserFits, TypeOK
    <3>3. Resumed(target[u]) /\ UserFits(target[u])
      BY <3>2, Zenon DEF Resumed, WakersFit
    <3> QED
      BY <3>1, <3>2, <3>3, Zenon DEF UserFits
  <2>2. /\ UNCHANGED <<hold, op>>
        /\ pc' = [pc EXCEPT ![u] = "idle", ![target[u]] = "check"]
    BY <1>4, Zenon DEF NotifyResume, lockVars
  <2>3. ASSUME NEW v \in Users PROVE Fit(v)'
    <3>1. Fit(v) /\ (v = target[u] => pc[v] \in Waiting)
      BY <2>1, Zenon DEF CallsFit
    <3>2. pc'[v] = IF v = target[u] THEN "check" ELSE IF v = u THEN "idle" ELSE pc[v]
      BY <2>1, <2>2, Zenon DEF TypeOK
    <3> QED
      BY <2>2, <3>1, <3>2 DEF Waiting
  <2> QED
    BY <2>3, Zenon DEF CallsFit
<1>5. ASSUME NEW u \in Users, TimerResume(u) PROVE CallsFit'
  <2>1. /\ UNCHANGED <<hold, op>> /\ pc' = [pc EXCEPT ![u] = "check"] /\ Won(u)
    BY <1>5, Zenon DEF TimerResume, TimerHandoff, Goto, lockVars, Won
  <2>2. pc[u] \in Waiting
    BY <2>1, Zenon DEF WakersFit, UserFits
  <2> QED
    BY <1>2, <2>1, <2>2, Zenon
<1>6. ASSUME NEW u \in Users,
             Acquire(u) \/ AcquireShared(u) \/ Release(u) \/ ReleaseShared(u)
      PROVE  CallsFit'
  <2>1. /\ UNCHANGED hold
        /\ \/ /\ pc' = [pc EXCEPT ![u] = "loop"] /\ hold[u] \in {None, "excl"}
              /\ op' = [op EXCEPT ![u] = "swap"]
           \/ /\ pc' = [pc EXCEPT ![u] = "loop"] /\ hold[u] = None
              /\ op' = [op EXCEPT ![u] = "add"]
           \/ /\ pc' = [pc EXCEPT ![u] = "sub"] /\ hold[u] = "shared"
              /\ op' = [op EXCEPT ![u] = "swap"]
    BY <1>6, Zenon DEF Acquire, AcquireShared, Release, ReleaseShared, Enter, Goto, lockVars
  <2> QED
    BY <2>1 DEF CallsFit, TypeOK, Waiting, None
<1>7. ASSUME NEW u \in Users, SwapOk(u) \/ AddOk(u) \/ SubOk(u) PROVE CallsFit'
  <2>1. PICK at \in {"idle", "notify"}, h \in {None, "excl", "shared"} :
          /\ pc' = [pc EXCEPT ![u] = at] /\ op' = [op EXCEPT ![u] = "swap"]
          /\ hold' = [hold EXCEPT ![u] = h]
    BY <1>7, Zenon DEF SwapOk, AddOk, SubOk, SubStore, Leave, Goto, TypeOK
  <2> QED
    BY <2>1, Zenon DEF CallsFit, TypeOK, Waiting
<1>8. ASSUME NEW u \in Users, Check(u) PROVE CallsFit'
  <2>1. CASE Leave(u, "idle")
    BY <1>8, <2>1, Zenon DEF Check, Leave, Goto, lockVars, CallsFit, TypeOK, Waiting
  <2>2. CASE Goto(u, "loop") /\ UNCHANGED op
    BY <1>2, <1>8, <2>2, Zenon DEF Check, Goto, lockVars
  <2> QED
    BY <1>8, <2>1, <2>2, Zenon DEF Check
<1>9. ASSUME NEW u \in Users, SwapFail(u) \/ AddFail(u) PROVE CallsFit'
  BY <1>2, <1>9, Zenon DEF SwapFail, AddFail, Retry, Goto, lockVars
<1>10. ASSUME NEW u \in Users, WaitBlock(u) \/ WaitAppend(u) \/ WaitYield(u) PROVE CallsFit'
  BY <1>2, <1>10, Zenon DEF WaitBlock, WaitAppend, WaitYield, Goto, lockVars, Waiting
<1>11. ASSUME NEW u \in Users, Notify(u) PROVE CallsFit'
  BY <1>3, <1>11, Zenon DEF Notify, Goto, lockVars
<1>12. ASSUME NEW u \in Users, SubFail(u) \/ TimerExpires(u) \/ TimerCallback(u) PROVE CallsFit'
  BY <1>1, <1>12, Zenon DEF SubFail, TimerExpires, TimerCallback, lockVars, callVars
<1>13. CASE UNCHANGED vars \/ Tick
  BY <1>1, <1>13, Zenon DEF vars, Tick, lockVars, callVars
<1> QED
  <2>1. CASE Next /\ ~Tick
    <3>1. PICK u \in conf.users : \/ Acquire(u) \/ AcquireShared(u)
                                  \/ Release(u) \/ ReleaseShared(u)
                                  \/ Step(u) \/ TimerExpires(u)
      BY <2>1, Zenon DEF Next
    <3>2. u \in Users
      BY ConfFacts, Zenon
    <3> QED
      BY <3>1, <3>2, <1>4, <1>5, <1>6, <1>7, <1>8, <1>9, <1>10, <1>11, <1>12, Zenon DEF Step
  <2> QED
    BY <1>13, <2>1, Zenon

(* The readers are finite in number.                                       *)
LEMMA ReadersFinite ==
  IsFiniteSet(Readers) /\ Cardinality(Readers) \in Nat /\ (Cardinality(Readers) = 0 <=> Readers = {})
<1>1. IsFiniteSet(Readers)
  BY UsersAssumption, FS_Subset, Zenon DEF Readers
<1> QED
  BY <1>1, FS_CardinalityType, FS_EmptySet, Zenon

(* How the holders change when one caller is granted or gives back.        *)
LEMMA HoldersMove ==
  ASSUME TypeOK, NEW u \in Users
  PROVE  /\ hold' = [hold EXCEPT ![u] = "excl"]
              => Writers' = Writers \union {u} /\ Readers' = Readers \ {u}
         /\ hold' = [hold EXCEPT ![u] = "shared"]
              => Writers' = Writers \ {u} /\ Readers' = Readers \union {u}
         /\ hold' = [hold EXCEPT ![u] = None]
              => Writers' = Writers \ {u} /\ Readers' = Readers \ {u}
BY DEF TypeOK, Writers, Readers, None

(* A writer is the only holder.                                            *)
LEMMA WriterAlone ==
  ASSUME TypeOK, LockFits, NEW u \in Writers
  PROVE  Writers = {u} /\ Readers = {}
BY Zenon DEF LockFits, TypeOK, Writers, Readers, None

(* await_swap_atomic_int acquires a mutex that nobody holds, or releases   *)
(* one that its caller alone holds.                                        *)
LEMMA SwapFinds ==
  ASSUME IInv, NEW u \in Users, SwapOk(u)
  PROVE  \/ /\ Writers = {} /\ Readers = {} /\ Writers' = {u} /\ Readers' = {}
            /\ shares' = Magic
         \/ /\ Writers = {u} /\ Readers = {} /\ Writers' = {} /\ Readers' = {}
            /\ shares' = 0
<1> USE DEF IInv
<1>1. hold[u] \in {None, "excl"}
  BY Zenon DEF CallsFit, TypeOK, SwapOk
<1>2. CASE hold[u] = None
  <2>1. shares = 0 /\ shares' = Magic /\ hold' = [hold EXCEPT ![u] = "excl"]
    BY <1>2, MagicAssumption DEF SwapOk, Expected, NewValue
  <2>2. Writers = {} /\ Readers = {}
    BY <2>1, ReadersFinite, MagicAssumption, Zenon DEF LockFits, SharesCountHolders
  <2> QED
    BY <2>1, <2>2, HoldersMove, Zenon
<1>3. CASE hold[u] = "excl"
  <2>1. shares' = 0 /\ hold' = [hold EXCEPT ![u] = None]
    BY <1>3, MagicAssumption DEF SwapOk, Expected, NewValue, None
  <2>2. Writers = {u} /\ Readers = {}
    BY <1>3, WriterAlone, Zenon DEF Writers
  <2> QED
    BY <2>1, <2>2, HoldersMove, Zenon
<1> QED
  BY <1>1, <1>2, <1>3, Zenon

(* thresh_add_atomic_int adds a reader to a mutex without a writer, and    *)
(* stays below EXCLUSIVE_MAGIC.                                            *)
LEMMA AddFinds ==
  ASSUME IInv, NEW u \in Users, AddOk(u)
  PROVE  /\ Writers = {} /\ u \notin Readers
         /\ Writers' = {} /\ Readers' = Readers \union {u}
         /\ shares' = Cardinality(Readers) + 1 /\ shares' < Magic
         /\ Cardinality(Readers') = shares'
<1> USE DEF IInv
<1>1. shares < Magic /\ shares' = shares + 1 /\ shares' < Magic
  BY MagicAssumption DEF AddOk, BelowThreshold, TypeOK
<1>2. Writers = {} /\ shares = Cardinality(Readers)
  BY <1>1, MagicAssumption DEF LockFits, SharesCountHolders
<1>3. hold[u] = None /\ hold' = [hold EXCEPT ![u] = "shared"]
  BY Zenon DEF AddOk, CallsFit
<1>4. u \notin Readers
  BY <1>3, Zenon DEF Readers, None
<1>5. Writers' = {} /\ Readers' = Readers \union {u}
  BY <1>2, <1>3, HoldersMove, Zenon
<1>6. Cardinality(Readers') = Cardinality(Readers) + 1
  BY <1>4, <1>5, ReadersFinite, FS_AddElement, Zenon
<1> QED
  BY <1>1, <1>2, <1>4, <1>5, <1>6, Zenon

(* unequal_sub_atomic_int takes one reader away.                           *)
LEMMA SubFinds ==
  ASSUME IInv, NEW u \in Users, SubOk(u)
  PROVE  /\ Writers = {} /\ u \in Readers
         /\ Writers' = {} /\ Readers' = Readers \ {u}
         /\ shares' = Cardinality(Readers') /\ shares' < Magic
<1> USE DEF IInv
<1>1. hold[u] = "shared" /\ shares' = shares - 1 /\ hold' = [hold EXCEPT ![u] = None]
  BY Zenon DEF SubOk, SubStore, CallsFit
<1>2. u \in Readers /\ Writers = {}
  BY <1>1, WriterAlone, Zenon DEF Readers
<1>3. shares = Cardinality(Readers)
  BY <1>2, Zenon DEF LockFits, SharesCountHolders
<1>4. Writers' = {} /\ Readers' = Readers \ {u}
  BY <1>1, <1>2, HoldersMove, Zenon
<1>5. Cardinality(Readers') = Cardinality(Readers) - 1
  BY <1>2, <1>4, ReadersFinite, FS_RemoveElement, Zenon
<1>6. Cardinality(Readers) < Magic /\ Cardinality(Readers) \in Nat
  BY ReadersFinite, Zenon DEF LockFits
<1> QED
  BY <1>1, <1>2, <1>3, <1>4, <1>5, <1>6, MagicAssumption

(* Only the three exchanges change "shares" or what a caller holds.        *)
LEMMA OthersKeepLock ==
  ASSUME TypeOK, [Next]_vars
  PROVE  \/ UNCHANGED <<shares, hold>>
         \/ \E u \in Users : SwapOk(u) \/ AddOk(u) \/ SubOk(u)
<1>1. CASE UNCHANGED vars \/ Tick
  BY <1>1, Zenon DEF vars, Tick, lockVars
<1>2. CASE Next /\ ~Tick
  <2>1. PICK u \in conf.users : \/ Acquire(u) \/ AcquireShared(u)
                                \/ Release(u) \/ ReleaseShared(u)
                                \/ Step(u) \/ TimerExpires(u)
    BY <1>2, Zenon DEF Next
  <2>2. u \in Users
    BY ConfFacts, Zenon
  <2>3. CASE Acquire(u) \/ AcquireShared(u) \/ Release(u) \/ ReleaseShared(u)
    BY <2>3, Zenon DEF Acquire, AcquireShared, Release, ReleaseShared, Enter, lockVars
  <2>4. CASE SwapFail(u) \/ AddFail(u) \/ Check(u) \/ SubFail(u)
    BY <2>4, Zenon DEF SwapFail, AddFail, Check, SubFail, lockVars
  <2>5. CASE WaitBlock(u) \/ WaitAppend(u) \/ WaitYield(u) \/ Notify(u) \/ NotifyResume(u)
    BY <2>5, Zenon DEF WaitBlock, WaitAppend, WaitYield, Notify, NotifyResume, lockVars
  <2>6. CASE TimerExpires(u) \/ TimerCallback(u) \/ TimerResume(u)
    BY <2>6, Zenon DEF TimerExpires, TimerCallback, TimerResume, TimerHandoff, lockVars
  <2> QED
    BY <2>1, <2>2, <2>3, <2>4, <2>5, <2>6, Zenon DEF Step
<1> QED
  BY <1>1, <1>2, Zenon

(* Every step keeps "shares" and the holders together.                     *)
LEMMA NextLock == IInv /\ [Next]_vars => LockFits'
<1> SUFFICES ASSUME IInv, [Next]_vars PROVE LockFits'
  BY Zenon
<1>1. CASE UNCHANGED <<shares, hold>>
  BY <1>1, Zenon DEF IInv, LockFits, SharesCountHolders, Writers, Readers
<1>2. hold' \in [Users -> {None, "excl", "shared"}]
  BY NextTypes, Zenon DEF IInv, TypeOK
<1>3. ASSUME NEW u \in Users, SwapOk(u) PROVE LockFits'
  <2>1. \/ Writers' = {u} /\ Readers' = {} /\ shares' = Magic
        \/ Writers' = {} /\ Readers' = {} /\ shares' = 0
    BY <1>3, SwapFinds, Zenon
  <2>2. Cardinality(Readers') = 0
    BY <2>1, FS_EmptySet, Zenon
  <2>3. (\A v, w \in Users : hold[v] = "excl" => w = v \/ hold[w] = None)'
    BY <1>2, <2>1 DEF Writers, Readers
  <2> QED
    BY <2>1, <2>2, <2>3, MagicAssumption DEF LockFits, SharesCountHolders
<1>4. ASSUME NEW u \in Users, AddOk(u) \/ SubOk(u) PROVE LockFits'
  <2>1. Writers' = {} /\ shares' = Cardinality(Readers') /\ shares' < Magic
    BY <1>4, AddFinds, SubFinds, Zenon
  <2>2. (\A v, w \in Users : hold[v] = "excl" => w = v \/ hold[w] = None)'
    BY <2>1, Zenon DEF Writers
  <2> QED
    BY <2>1, <2>2, Zenon DEF LockFits, SharesCountHolders
<1> QED
  BY <1>1, <1>3, <1>4, OthersKeepLock, Zenon DEF IInv

(* IInv is inductive.                                                      *)
LEMMA NextHolds == IInv /\ [Next]_vars => IInv'
BY NextTypes, NextWakers, NextCalls, NextLock, Zenon DEF IInv

(* For every number of threads and handlers, on one CPU or several, with   *)
(* spurious failures, time-outs and missing memory: "shares" counts the    *)
(* callers that hold the mutex, and its assertions hold.                   *)
THEOREM MutexLockSound == Spec => []LockSound
<1>1. IInv => LockSound
  BY Zenon DEF IInv, LockFits, LockSound
<1> QED
  BY <1>1, InitHolds, NextHolds, PTL DEF Spec

(* Of mutex_notify and mutex_resume_timer exactly one resumes each thread  *)
(* that waits, and on one CPU it finds the thread switched out.            *)
THEOREM MutexWaitersSound == Spec => []WaitersSound
<1>1. IInv => WaitersSound
  <2> SUFFICES ASSUME IInv PROVE WaitersSound
    BY Zenon
  <2> USE DEF IInv
  <2>1. EachWaiterHasOneWaker
    <3> SUFFICES ASSUME ~Torn PROVE EachWaiterHasOneWaker
      BY Zenon DEF EachWaiterHasOneWaker
    <3>1. ASSUME NEW u \in Users
          PROVE  /\ Listed(u) <=> Waits(u) /\ ~Resumed(u)
                 /\ Waits(u) => (u \in blocked <=> ~Resumed(u) /\ ~Won(u))
                 /\ Won(u) => Waits(u) /\ ~Resumed(u)
                 /\ Resumed(u) => Waits(u)
      <4>1. UserFits(u)
        BY Zenon DEF WakersFit
      <4>2. Won(u) => pc[u] # "append"
        BY Zenon DEF Torn, SwitchedOut, Won
      <4> QED
        BY <4>1, <4>2, Zenon DEF UserFits, Waiting, Waits
    <3> QED
      BY <3>1, Zenon DEF EachWaiterHasOneWaker, WakersFit, TargetsDiffer, ListedOnce, Won
  <2>2. ResumedOnlyWhenSwitchedOut
    <3> SUFFICES ASSUME ~conf.smp, Torn PROVE FALSE
      BY Zenon DEF ResumedOnlyWhenSwitchedOut, PausedWhenListed
    <3>1. PICK u \in Users : (Won(u) \/ Resumed(u)) /\ pc[u] \in {"append", "listed"}
      BY Zenon DEF Torn, SwitchedOut, Won
    <3>2. UserFits(u)
      BY Zenon DEF WakersFit
    <3> QED
      BY <3>1, <3>2, Zenon DEF UserFits
  <2> QED
    BY <2>1, <2>2, Zenon DEF WaitersSound
<1> QED
  BY <1>1, InitHolds, NextHolds, PTL DEF Spec

(* The mutex implements the abstract reader-writer lock: no caller is      *)
(* granted the mutex while another one excludes it.                        *)
THEOREM MutexImplementsRWLock == Spec => ImplementsRWLock
<1>1. Init => Abstract!Init
  BY Zenon DEF Init, Abstract!Init, Writers, Readers, None
<1>2. IInv /\ [Next]_vars => [Abstract!Next]_(Abstract!vars)
  <2> SUFFICES ASSUME IInv, [Next]_vars
               PROVE  Abstract!Next \/ (Writers' = Writers /\ Readers' = Readers)
    BY Zenon DEF Abstract!vars
  <2>1. CASE UNCHANGED <<shares, hold>>
    BY <2>1, Zenon DEF Writers, Readers
  <2>2. ASSUME NEW u \in Users, SwapOk(u) PROVE Abstract!Next
    <3>1. Abstract!AcquireExcl(u) \/ Abstract!ReleaseExcl(u)
      BY <2>2, SwapFinds, Zenon DEF Abstract!AcquireExcl, Abstract!ReleaseExcl
    <3> QED
      BY <3>1, Zenon DEF Abstract!Next
  <2>3. ASSUME NEW u \in Users, AddOk(u) PROVE Abstract!Next
    <3>1. Abstract!AcquireShared(u)
      BY <2>3, AddFinds, Zenon DEF Abstract!AcquireShared
    <3> QED
      BY <3>1, Zenon DEF Abstract!Next
  <2>4. ASSUME NEW u \in Users, SubOk(u) PROVE Abstract!Next
    <3>1. Abstract!ReleaseShared(u)
      BY <2>4, SubFinds, Zenon DEF Abstract!ReleaseShared
    <3> QED
      BY <3>1, Zenon DEF Abstract!Next
  <2> QED
    BY <2>1, <2>2, <2>3, <2>4, OthersKeepLock, Zenon DEF IInv
<1> QED
  BY <1>1, <1>2, InitHolds, NextHolds, PTL DEF Spec, ImplementsRWLock, Abstract!Spec
=============================================================================
