--------------------------- MODULE SchedulerLists ---------------------------
(***************************************************************************)
(* The steps of module Scheduler keep the lists and the CPUs fit.          *)
(***************************************************************************)
EXTENDS SchedulerInvariant, ArrayLemmas

(* The numbers and lists that the types are made of.                       *)
LEMMA Numbers ==
  /\ \A m, n \in Nat : m + n \in Nat /\ m + 1 \in Nat
  /\ \A n \in Nat : 0 .. n \subseteq Nat /\ 0 \in 0 .. n
  /\ \A n \in Nat : \A k \in 0 .. n : k < n => k + 1 \in 0 .. n
  /\ \A n \in Nat : \A k \in 0 .. n : 0 .. k \subseteq 0 .. n /\ 0 .. k \subseteq 0 .. (k + 1)
  /\ \A m \in Int, n \in Nat : m + n \in Int /\ (n # 0 => m \div n \in Int)
  /\ 0 + 0 = 0 /\ \A n \in Nat : n + 1 # 0 /\ ~(0 > n)
  /\ 0 \in Nat /\ 0 \in Int /\ -1 \in Int /\ \A n \in Nat : ~(n < 0)
OBVIOUS

(* Lists of no element and of one.                                         *)
LEMMA ShortLists ==
  /\ \A S : <<>> \in Seq(S)
  /\ Len(<<>>) = 0
  /\ \A x : DOMAIN <<x>> = {1} /\ <<x>>[1] = x
  /\ \A S : \A x \in S : <<x>> \in Seq(S)
OBVIOUS

(* The CPU that boots.                                                     *)
LEMMA ZeroCpu == 0 \in Cpus
BY CpusAssumption DEF Cpus

(* A selection from a list without duplicates.                             *)
LEMMA ThoseSet ==
  ASSUME NEW S, NEW s \in Seq(S), IsInjective(s), NEW T, NEW q \in Those(s, T)
  PROVE  q \in Seq(S) /\ Range(q) = Range(s) \intersect T /\ IsInjective(q)
<1> DEFINE places == {i \in DOMAIN s : s[i] \in T}
<1>1. DOMAIN s = 1 .. Len(s) /\ Len(s) \in Nat /\ \A i \in DOMAIN s : s[i] \in S
  BY SeqFacts, Zenon
<1>. PICK n \in 0 .. Len(s) : \E p \in [1 .. n -> places] :
        /\ Range(p) = places
        /\ \A i, j \in DOMAIN p : i < j => p[i] < p[j]
        /\ q = [i \in DOMAIN p |-> s[p[i]]]
  BY Zenon DEF Those
<1>2. PICK p \in [1 .. n -> places] :
        /\ Range(p) = places
        /\ \A i, j \in DOMAIN p : i < j => p[i] < p[j]
        /\ q = [i \in DOMAIN p |-> s[p[i]]]
  BY Zenon
<1>3. n \in Nat
  BY <1>1
<1>4. \A i \in places : i \in DOMAIN s /\ i \in Nat /\ s[i] \in T /\ s[i] \in S
  BY <1>1
<1>5. \A i \in DOMAIN s : s[i] \in T => i \in places
  BY Zenon
<1> HIDE DEF places
<1>6. DOMAIN p = 1 .. n /\ \A i \in 1 .. n : p[i] \in places /\ q[i] = s[p[i]]
  BY <1>2, Zenon
<1>7. \A i, j \in 1 .. n : p[i] = p[j] => i = j
  <2> SUFFICES ASSUME NEW i \in 1 .. n, NEW j \in 1 .. n, i # j PROVE p[i] # p[j]
    BY Zenon
  <2>1. i \in Nat /\ j \in Nat /\ (i < j \/ j < i)
    BY <1>3
  <2>2. p[i] \in Nat /\ p[j] \in Nat
    BY <1>4, <1>6, Zenon
  <2>3. p[i] < p[j] \/ p[j] < p[i]
    BY <1>2, <1>6, <2>1, Zenon
  <2> QED
    BY <2>2, <2>3
<1>8. \A k \in places : \E i \in 1 .. n : p[i] = k
  BY <1>2, <1>6 DEF Range
<1>9. q \in [1 .. n -> S]
  BY <1>2, <1>4, <1>6, Zenon
<1>10. q \in Seq(S) /\ Len(q) = n
  BY <1>3, <1>9
<1>11. /\ \A x : x \in Range(q) <=> \E i \in 1 .. n : q[i] = x
       /\ IsInjective(q) <=> \A i, j \in 1 .. n : q[i] = q[j] => i = j
  <2>1. /\ \A x : x \in Range(q) <=> \E i \in 1 .. Len(q) : q[i] = x
        /\ IsInjective(q) <=> \A i, j \in 1 .. Len(q) : q[i] = q[j] => i = j
    BY <1>10, RangeFacts, Zenon
  <2> QED
    BY <1>10, <2>1, Zenon
<1>12. /\ \A x : x \in Range(s) <=> \E i \in DOMAIN s : s[i] = x
       /\ \A i, j \in DOMAIN s : s[i] = s[j] => i = j
  BY <1>1, RangeFacts, Zenon
<1>13. ASSUME NEW x PROVE x \in Range(q) <=> x \in Range(s) /\ x \in T
  <2>1. ASSUME x \in Range(q) PROVE x \in Range(s) /\ x \in T
    <3>1. PICK i \in 1 .. n : q[i] = x
      BY <1>11, <2>1, Zenon
    <3>2. p[i] \in places /\ s[p[i]] = x
      BY <1>6, <3>1, Zenon
    <3> QED
      BY <1>4, <1>12, <3>2, Zenon
  <2>2. ASSUME x \in Range(s), x \in T PROVE x \in Range(q)
    <3>1. PICK k \in places : s[k] = x
      BY <1>5, <1>12, <2>2
    <3>2. PICK i \in 1 .. n : p[i] = k
      BY <1>8, Zenon
    <3> QED
      BY <1>6, <1>11, <3>1, <3>2, Zenon
  <2> QED
    BY <2>1, <2>2, Zenon
<1>14. IsInjective(q)
  BY <1>4, <1>6, <1>7, <1>11, <1>12
<1>15. Range(q) = Range(s) \intersect T
  BY <1>13, Zenon
<1> QED
  BY <1>10, <1>14, <1>15, Zenon

(* The lists hold threads.                                                 *)
LEMMA ListTypes ==
  ASSUME TypeOK
  PROVE  /\ \A c \in Cpus : /\ queue[c] \in Seq(Threads) /\ Range(queue[c]) \subseteq Threads
                            /\ incoming[c] \in Seq(Threads) /\ Range(incoming[c]) \subseteq Threads
         /\ dead \in Seq(Threads) /\ Range(dead) \subseteq Threads
<1>1. dead \in Seq(Threads) /\ \A c \in Cpus : queue[c] \in Seq(Threads) /\ incoming[c] \in Seq(Threads)
  BY Zenon DEF TypeOK
<1>2. \A s \in Seq(Threads) : Range(s) \subseteq Threads
  BY RangeFacts, Zenon
<1> QED
  BY <1>1, <1>2, Zenon

(* Two names for the threads that are queued, and that others have in      *)
(* hand.                                                                   *)
LEMMA Places ==
  /\ \A t : t \in Queued <=> \E c \in Cpus : t \in Range(queue[c]) \/ t \in Range(incoming[c])
  /\ \A t : t \in InHand <=> t # NoThread /\ \E r \in Threads : resuming[r] = t
BY DEF Queued, OnCpu, InHand

(* The last thread of a queue is in it.                                    *)
LEMMA LastQueued ==
  ASSUME TypeOK, NEW c \in Cpus, queue[c] # <<>>
  PROVE  Last(queue[c]) \in Range(queue[c])
<1>1. queue[c] \in Seq(Threads)
  BY ListTypes, Zenon
<1>2. Len(queue[c]) \in Nat \ {0} /\ \A i \in 1 .. Len(queue[c]) : queue[c][i] \in Range(queue[c])
  BY <1>1, EmptyFacts, RangeFacts
<1> QED
  BY <1>2 DEF Last

(* The steps, without the workload that chooses among them.                *)
LEMMA NextCases ==
  ASSUME TypeOK, Next
  PROVE  /\ UNCHANGED conf
         /\ \/ Interval
            \/ \E c \in Cpus : \/ Request(c) \/ PlainCall(c)
                               \/ ResumeHandoff(c) \/ Housekeeping(c)
                               \/ "smp" \in conf.ops /\ StartCpu(c)
                               \/ ExitCpu(c)
                               \/ \E t \in Threads : \/ Wake(c, t)
                                                     \/ \E k \in BOOLEAN : Resume(c, t, k)
<1>1. conf.threads \subseteq Threads
  BY ConfigsAssumption, Zenon DEF TypeOK
<1>2. ASSUME NEW c \in Cpus, Call(c)
      PROVE  \/ PlainCall(c) \/ ResumeHandoff(c) \/ Housekeeping(c)
             \/ \E d \in Cpus : ("smp" \in conf.ops /\ StartCpu(d)) \/ ExitCpu(d)
             \/ \E t \in Threads : Wake(c, t) \/ \E k \in BOOLEAN : Resume(c, t, k)
  BY <1>1, <1>2, Zenon DEF Call, PlainCall, Join
<1> QED
  BY <1>2, Zenon DEF Next, PlainCall

(* What the plain calls leave alone.                                       *)
LEMMA PlainFrame ==
  ASSUME TypeOK, NEW c \in Cpus, PlainCall(c)
  PROVE  /\ UNCHANGED <<queue, incoming, dead, freed, resuming, cur, next, schedVars, loadVars>>
         /\ \A t \in Threads : /\ "RUNNING" \in flags'[t] <=> "RUNNING" \in flags[t]
                               /\ "EXITED" \in flags'[t] <=> "EXITED" \in flags[t]
         /\ \A d \in Cpus : d # c => pc'[d] = pc[d]
         /\ pc[c] = "run" /\ pc'[c] \in {"run", "enter"}
<1>1. /\ UNCHANGED <<queue, incoming, dead, freed, resuming, cur, next, schedVars, loadVars>>
  BY Zenon DEF PlainCall, Yield, Exit, SetWakeTime, SleepSuspend, SyscallSleep, SleepReturn, Raise, Lower,
         SetProc, Suspend, Detach, threadVars, listVars, cpuVars
<1>2. /\ pc[c] = "run"
      /\ pc' = pc \/ pc' = [pc EXCEPT ![c] = "enter"] \/ pc' = [pc EXCEPT ![c] = "run"]
  BY Zenon DEF PlainCall, Yield, Exit, SetWakeTime, SleepSuspend, SyscallSleep, SleepReturn, Raise, Lower,
         SetProc, Suspend, Detach, cpuVars, Goto, InKernel
<1>3. \/ flags' = flags
      \/ \E t, on : /\ flags' = [flags EXCEPT ![t] = @ \union on]
                    /\ "RUNNING" \notin on /\ "EXITED" \notin on
      \/ \E t : flags' = [flags EXCEPT ![t] = @ \ {"PRIVILEGED"}]
  BY Zenon DEF PlainCall, Yield, Exit, SetWakeTime, SleepSuspend, SyscallSleep, SleepReturn, Raise, Lower,
         SetProc, Suspend, Detach, threadVars, SetFlags, SuspendFlags
<1>4. \A d \in Cpus : d # c => pc'[d] = pc[d]
  BY <1>2, Zenon DEF TypeOK
<1>5. pc'[c] \in {"run", "enter"}
  BY <1>2, Zenon DEF TypeOK
<1>6. ASSUME NEW t \in Threads
      PROVE  /\ "RUNNING" \in flags'[t] <=> "RUNNING" \in flags[t]
             /\ "EXITED" \in flags'[t] <=> "EXITED" \in flags[t]
  <2>1. flags \in [Threads -> SUBSET Flags]
    BY Zenon DEF TypeOK
  <2>2. CASE flags' = flags
    BY <2>2, Zenon
  <2>3. ASSUME NEW x, NEW on, flags' = [flags EXCEPT ![x] = @ \union on],
               "RUNNING" \notin on, "EXITED" \notin on
        PROVE  /\ "RUNNING" \in flags'[t] <=> "RUNNING" \in flags[t]
               /\ "EXITED" \in flags'[t] <=> "EXITED" \in flags[t]
    BY <2>1, <2>3, Zenon
  <2>4. ASSUME NEW x, flags' = [flags EXCEPT ![x] = @ \ {"PRIVILEGED"}]
        PROVE  /\ "RUNNING" \in flags'[t] <=> "RUNNING" \in flags[t]
               /\ "EXITED" \in flags'[t] <=> "EXITED" \in flags[t]
    BY <2>1, <2>4, Zenon
  <2> QED
    BY <1>3, <2>2, <2>3, <2>4, Zenon
<1> QED
  BY <1>1, <1>2, <1>4, <1>5, <1>6, Zenon

(* What thread_try_mark_running does to the thread that it finds neither   *)
(* RUNNING nor EXITED.                                                     *)
LEMMA MarkFacts ==
  ASSUME TypeOK, NEW t \in Threads, NEW k \in BOOLEAN, MarkRunning(t, k)
  PROVE  /\ t \notin freed /\ "RUNNING" \notin flags[t] /\ "EXITED" \notin flags[t]
         /\ "RUNNING" \in flags'[t] /\ "EXITED" \notin flags'[t]
         /\ \A x \in Threads : x # t => flags'[x] = flags[x]
<1> DEFINE on == (flags[t] \ {"SUSPENDING"}) \union {"RUNNING"} \union (IF k THEN {"STARTNOW"} ELSE {})
<1>1. flags' = [flags EXCEPT ![t] = on] /\ t \notin freed /\ Resumable(t)
  BY Zenon DEF MarkRunning
<1>2. "RUNNING" \notin flags[t] /\ "EXITED" \notin flags[t]
  BY <1>1, Zenon DEF Resumable
<1>3. "RUNNING" \in on /\ "EXITED" \notin on
  BY <1>2, Zenon
<1> HIDE DEF on
<1>4. flags'[t] = on /\ \A x \in Threads : x # t => flags'[x] = flags[x]
  BY <1>1, Zenon DEF TypeOK
<1> QED
  BY <1>1, <1>2, <1>3, <1>4, Zenon

(* thread_handoff: what it does to the lists and the loads.                *)
LEMMA HandoffFacts ==
  ASSUME TypeOK, NEW c \in Cpus, NEW t \in Threads, NEW start, NEW max, Handoff(t, c, start, max)
  PROVE  /\ shares' \in [Cpus -> Nat] /\ incoming' \in [Cpus -> Seq(Threads)]
         /\ est' \in [Cpus -> Nat]
         /\ \/ \E d \in Cpus \ {c} : /\ incoming' = [incoming EXCEPT ![d] = Append(@, t)]
                                     /\ est' = [est EXCEPT ![d] = @ + usage[t]]
                                     /\ d \in FirstRunning(c, start)
            \/ /\ UNCHANGED <<incoming, est>>
               /\ \A d \in FirstRunning(c, start) : ~(est[d] + usage[t] <= max)
<1>1. /\ usage[t] \in Nat /\ est \in [Cpus -> Nat] /\ shares \in [Cpus -> Nat]
      /\ incoming \in [Cpus -> Seq(Threads)]
  BY Zenon DEF TypeOK
<1>2. shares' \in [Cpus -> Nat]
  BY <1>1 DEF Handoff
<1>3. \/ \E d \in Cpus \ {c} : /\ incoming' = [incoming EXCEPT ![d] = Append(@, t)]
                               /\ est' = [est EXCEPT ![d] = @ + usage[t]]
                               /\ d \in FirstRunning(c, start)
      \/ /\ UNCHANGED <<incoming, est>>
         /\ \A d \in FirstRunning(c, start) : ~(est[d] + usage[t] <= max)
  <2>1. FirstRunning(c, start) \subseteq Cpus \ {c}
    BY Zenon DEF FirstRunning
  <2> QED
    BY <2>1, Zenon DEF Handoff
<1>4. \A d \in Cpus : /\ [incoming EXCEPT ![d] = Append(@, t)] \in [Cpus -> Seq(Threads)]
                       /\ [est EXCEPT ![d] = @ + usage[t]] \in [Cpus -> Nat]
  BY <1>1
<1>5. incoming' \in [Cpus -> Seq(Threads)] /\ est' \in [Cpus -> Nat]
  <2>1. ASSUME NEW d \in Cpus, incoming' = [incoming EXCEPT ![d] = Append(@, t)],
               est' = [est EXCEPT ![d] = @ + usage[t]]
        PROVE  incoming' \in [Cpus -> Seq(Threads)] /\ est' \in [Cpus -> Nat]
    BY <1>4, <2>1, Zenon
  <2>2. CASE UNCHANGED <<incoming, est>>
    BY <1>1, <2>2, Zenon
  <2> QED
    BY <1>3, <2>1, <2>2, Zenon
<1> QED
  BY <1>2, <1>3, <1>5, Zenon

(* A queue that loses its head, or has it moved to the end.                *)
LEMMA QueueFacts ==
  ASSUME TypeOK, ListsFit, NEW c \in Cpus, queue[c] # <<>>
  PROVE  /\ Head(queue[c]) \in Threads /\ Head(queue[c]) \in Range(queue[c])
         /\ "RUNNING" \in flags[Head(queue[c])]
         /\ Range(Tail(queue[c])) = Range(queue[c]) \ {Head(queue[c])}
         /\ IsInjective(Tail(queue[c]))
         /\ Range(Rotate(queue[c])) = Range(queue[c]) /\ IsInjective(Rotate(queue[c]))
         /\ Rotate(queue[c]) # <<>> /\ Last(Rotate(queue[c])) = Head(queue[c])
<1> DEFINE q == queue[c]
           h == Head(q)
           r == Tail(q)
<1>1. q \in Seq(Threads) /\ IsInjective(q)
  BY ListTypes, Zenon DEF ListsFit
<1>2. /\ h \in Threads /\ h \in Range(q) /\ r \in Seq(Threads)
      /\ Range(r) = Range(q) \ {h} /\ IsInjective(r)
  BY <1>1, TailSet, Zenon
<1>3. "RUNNING" \in flags[h]
  BY <1>2, Zenon DEF ListsFit
<1>4. Rotate(q) = Append(r, h)
  BY Zenon DEF Rotate
<1> HIDE DEF q, h, r
<1>5. /\ Range(Append(r, h)) = Range(r) \union {h} /\ IsInjective(Append(r, h))
      /\ Append(r, h) # <<>> /\ Last(Append(r, h)) = h
  BY <1>2, AppendSet
<1>6. Range(Rotate(q)) = Range(q)
  BY <1>2, <1>4, <1>5, Zenon
<1> QED
  BY <1>2, <1>3, <1>4, <1>5, <1>6, Zenon DEF q, h, r

(* The incoming list of c becomes a part of its queue.                     *)
LEMMA JoinFacts ==
  ASSUME TypeOK, ListsFit, NEW c \in Cpus, LeaveQueues(c) \/ TakeIncoming(c)
  PROVE  /\ IsInjective(queue'[c]) /\ Range(queue'[c]) = Range(queue[c]) \union Range(incoming[c])
         /\ \A d \in Cpus : d # c => queue'[d] = queue[d]
         /\ incoming' = [incoming EXCEPT ![c] = <<>>]
         /\ UNCHANGED <<flags, dead, freed, resuming>>
<1> USE DEF threadVars, listVars
<1>1. queue \in [Cpus -> Seq(Threads)]
  BY Zenon DEF TypeOK
<1>2. CASE LeaveQueues(c)
  <2>1. /\ queue'[c] = queue[c] \o incoming[c] /\ \A d \in Cpus : d # c => queue'[d] = queue[d]
    BY <1>1, <1>2, Zenon DEF LeaveQueues
  <2>2. incoming' = [incoming EXCEPT ![c] = <<>>] /\ UNCHANGED <<flags, dead, freed, resuming>>
    BY <1>2, Zenon DEF LeaveQueues
  <2>3. /\ queue[c] \in Seq(Threads) /\ incoming[c] \in Seq(Threads)
        /\ IsInjective(queue[c]) /\ IsInjective(incoming[c])
        /\ Range(queue[c]) \intersect Range(incoming[c]) = {}
    BY ListTypes, Zenon DEF ListsFit
  <2>4. Range(queue'[c]) = Range(queue[c]) \union Range(incoming[c]) /\ IsInjective(queue'[c])
    BY <2>1, <2>3, ConcatSet
  <2> QED
    BY <2>1, <2>2, <2>4, Zenon
<1>3. CASE TakeIncoming(c)
  <2>1. PICK front \in Those(incoming[c], StartNow), back \in Those(incoming[c], Threads \ StartNow) :
          queue' = [queue EXCEPT ![c] = Reverse(front) \o @ \o back]
    BY <1>3, Zenon DEF TakeIncoming
  <2>2. /\ queue[c] \in Seq(Threads) /\ incoming[c] \in Seq(Threads) /\ Range(incoming[c]) \subseteq Threads
        /\ IsInjective(queue[c]) /\ IsInjective(incoming[c])
        /\ Range(queue[c]) \intersect Range(incoming[c]) = {}
    BY ListTypes, Zenon DEF ListsFit
  <2>3. /\ front \in Seq(Threads) /\ IsInjective(front) /\ Range(front) = Range(incoming[c]) \intersect StartNow
        /\ back \in Seq(Threads) /\ IsInjective(back)
        /\ Range(back) = Range(incoming[c]) \intersect (Threads \ StartNow)
    BY <2>1, <2>2, ThoseSet
  <2> DEFINE f == Reverse(front)
             q == f \o queue[c]
  <2>4. f \in Seq(Threads) /\ IsInjective(f) /\ Range(f) = Range(front)
    BY <2>3, ReverseSet, Zenon
  <2> HIDE DEF f
  <2>5. q \in Seq(Threads) /\ IsInjective(q) /\ Range(q) = Range(f) \union Range(queue[c])
    <3>1. Range(f) \intersect Range(queue[c]) = {}
      BY <2>2, <2>3, <2>4, Zenon
    <3> QED
      BY <2>2, <2>4, <3>1, ConcatSet
  <2>6. queue'[c] = q \o back /\ \A d \in Cpus : d # c => queue'[d] = queue[d]
    BY <1>1, <2>1, Zenon DEF f
  <2> HIDE DEF q
  <2>7. IsInjective(queue'[c]) /\ Range(queue'[c]) = Range(q) \union Range(back)
    <3>1. Range(q) \intersect Range(back) = {}
      BY <2>2, <2>3, <2>4, <2>5, Zenon
    <3> QED
      BY <2>3, <2>5, <2>6, <3>1, ConcatSet
  <2>8. Range(queue'[c]) = Range(queue[c]) \union Range(incoming[c])
    BY <2>2, <2>3, <2>4, <2>5, <2>7, Zenon
  <2>9. incoming' = [incoming EXCEPT ![c] = <<>>] /\ UNCHANGED <<flags, dead, freed, resuming>>
    BY <1>3, Zenon DEF TakeIncoming
  <2> QED
    BY <2>6, <2>7, <2>8, <2>9, Zenon
<1> QED
  BY <1>2, <1>3, Zenon

(* The thread that an exiting CPU gives up.                                *)
LEMMA EvictFacts ==
  ASSUME TypeOK, ListsFit, NEW c \in Cpus, Evict(c), NEW t, t = Head(queue[c])
  PROVE  /\ t \in Threads /\ t \in Range(queue[c])
         /\ IsInjective(queue'[c]) /\ Range(queue'[c]) = Range(queue[c]) \ {t}
         /\ \A d \in Cpus : d # c => queue'[d] = queue[d]
         /\ UNCHANGED <<flags, dead, freed, resuming>>
         /\ \/ UNCHANGED incoming /\ \A d \in FirstRunning(c, bal[c].i + 1) : ~(est[d] + usage[t] <= IntMax)
            \/ \E d \in Cpus : incoming' = [incoming EXCEPT ![d] = Append(@, t)]
<1>1. queue \in [Cpus -> Seq(Threads)]
  BY Zenon DEF TypeOK
<1>2. queue[c] # <<>> /\ UNCHANGED <<flags, dead, freed, resuming>>
  BY Zenon DEF Evict, threadVars
<1>3. t \in Threads /\ t \in Range(queue[c])
  BY <1>2, QueueFacts, Zenon
<1>4. queue'[c] = Tail(queue[c]) /\ \A d \in Cpus : d # c => queue'[d] = queue[d]
  BY <1>1, Zenon DEF Evict
<1>5. Range(queue'[c]) = Range(queue[c]) \ {t} /\ IsInjective(queue'[c])
  BY <1>2, <1>4, QueueFacts, Zenon
<1>6. \/ UNCHANGED incoming /\ \A d \in FirstRunning(c, bal[c].i + 1) : ~(est[d] + usage[t] <= IntMax)
      \/ \E d \in Cpus : incoming' = [incoming EXCEPT ![d] = Append(@, t)]
  BY <1>3, HandoffFacts, Zenon DEF Evict
<1> QED
  BY <1>2, <1>3, <1>4, <1>5, <1>6, Zenon

(* The thread that c finds to be dead or suspended.                        *)
LEMMA TakenFacts ==
  ASSUME TypeOK, ListsFit, NEW c \in Cpus, PickDead(c) \/ PickSuspended(c), NEW t, t = Head(queue[c])
  PROVE  /\ t \in Threads /\ t \in Range(queue[c])
         /\ IsInjective(queue'[c]) /\ Range(queue'[c]) = Range(queue[c]) \ {t}
         /\ \A d \in Cpus : d # c => queue'[d] = queue[d]
         /\ UNCHANGED <<incoming, freed, resuming>>
         /\ \A x \in Threads : x # t => flags'[x] = flags[x]
         /\ "RUNNING" \notin flags'[t]
         /\ \/ UNCHANGED dead /\ ("EXITED" \in flags'[t] <=> "EXITED" \in flags[t])
            \/ dead' = Append(dead, t) /\ "EXITED" \in flags'[t]
<1>1. queue \in [Cpus -> Seq(Threads)]
  BY Zenon DEF TypeOK
<1>2. queue[c] # <<>> /\ UNCHANGED <<incoming, freed, resuming>>
  BY Zenon DEF PickDead, PickSuspended
<1>3. t \in Threads /\ t \in Range(queue[c])
  BY <1>2, QueueFacts, Zenon
<1>4. queue'[c] = Tail(queue[c]) /\ \A d \in Cpus : d # c => queue'[d] = queue[d]
  BY <1>1, Zenon DEF PickDead, PickSuspended
<1>5. Range(queue'[c]) = Range(queue[c]) \ {t} /\ IsInjective(queue'[c])
  BY <1>2, <1>4, QueueFacts, Zenon
<1>6. \A x \in Threads : x # t => flags'[x] = flags[x]
  BY Zenon DEF PickDead, PickSuspended, TypeOK
<1>7. /\ "RUNNING" \notin flags'[t]
      /\ \/ UNCHANGED dead /\ ("EXITED" \in flags'[t] <=> "EXITED" \in flags[t])
         \/ dead' = Append(dead, t) /\ "EXITED" \in flags'[t]
  <2>1. CASE PickDead(c)
    <3>1. flags'[t] = (flags[t] \union {"EXITED"}) \ {"RUNNING", "EXITING"} /\ dead' = Append(dead, t)
      BY <1>3, <2>1, Zenon DEF PickDead, TypeOK
    <3> QED
      BY <3>1
  <2>2. CASE PickSuspended(c)
    <3>1. flags'[t] = flags[t] \ SuspendClears /\ UNCHANGED dead
      BY <1>3, <2>2, Zenon DEF PickSuspended, TypeOK
    <3> QED
      BY <3>1 DEF SuspendClears
  <2> QED
    BY <2>1, <2>2, Zenon
<1> QED
  BY <1>2, <1>3, <1>4, <1>5, <1>6, <1>7, Zenon

(* The thread that c is going to run moves to the end of the queue.        *)
LEMMA RunnableFacts ==
  ASSUME TypeOK, ListsFit, NEW c \in Cpus, PickRunnable(c)
  PROVE  /\ \A d \in Cpus : IsInjective(queue'[d]) /\ Range(queue'[d]) = Range(queue[d])
         /\ \A d \in Cpus : d # c => queue'[d] = queue[d]
         /\ UNCHANGED <<incoming, dead, freed, resuming>>
         /\ \A t \in Threads : /\ "RUNNING" \in flags'[t] <=> "RUNNING" \in flags[t]
                               /\ "EXITED" \in flags'[t] <=> "EXITED" \in flags[t]
<1>1. queue[c] # <<>> /\ UNCHANGED <<incoming, dead, freed, resuming>>
  BY Zenon DEF PickRunnable
<1>2. queue'[c] = Rotate(queue[c]) /\ \A d \in Cpus : d # c => queue'[d] = queue[d]
  BY Zenon DEF PickRunnable, TypeOK
<1>3. \A d \in Cpus : IsInjective(queue'[d]) /\ Range(queue'[d]) = Range(queue[d])
  <2>1. IsInjective(queue'[c]) /\ Range(queue'[c]) = Range(queue[c])
    BY <1>1, <1>2, QueueFacts, Zenon
  <2>2. \A d \in Cpus : IsInjective(queue[d])
    BY Zenon DEF ListsFit
  <2> QED
    BY <1>2, <2>1, <2>2, Zenon
<1>4. \A t \in Threads : /\ "RUNNING" \in flags'[t] <=> "RUNNING" \in flags[t]
                         /\ "EXITED" \in flags'[t] <=> "EXITED" \in flags[t]
  BY Zenon DEF PickRunnable, SetSwitch, TypeOK
<1> QED
  BY <1>1, <1>2, <1>3, <1>4, Zenon

-----------------------------------------------------------------------------
(* ListsFit, for every step.                                               *)
LEMMA ListsHold == IInv /\ TypeOK' /\ Next => ListsFit'
(* ListsFit, when the lists keep their threads and the threads their       *)
(* flags RUNNING and EXITED; the order in the queues may change.           *)
<1>ListsKept. ASSUME TypeOK, TypeOK', ListsFit,
           \A c \in Cpus : IsInjective(queue'[c]) /\ Range(queue'[c]) = Range(queue[c]),
           UNCHANGED <<incoming, dead, freed, resuming>>,
           \A t \in Threads : /\ "RUNNING" \in flags'[t] <=> "RUNNING" \in flags[t]
                              /\ "EXITED" \in flags'[t] <=> "EXITED" \in flags[t]
    PROVE  ListsFit'
  <2> USE <1>ListsKept
  <2>1. \A t \in Range(dead) \union freed : t \in Threads
    BY ListTypes, Zenon DEF TypeOK
  <2> QED
    BY <2>1 DEF ListsFit
(* ListsFit, when c takes its incoming list into its queue.                *)
<1>ListsJoined. ASSUME TypeOK, TypeOK', ListsFit, NEW c \in Cpus,
           IsInjective(queue'[c]), Range(queue'[c]) = Range(queue[c]) \union Range(incoming[c]),
           \A d \in Cpus : d # c => queue'[d] = queue[d],
           incoming' = [incoming EXCEPT ![c] = <<>>],
           UNCHANGED <<flags, dead, freed, resuming>>
    PROVE  ListsFit'
  <2> USE <1>ListsJoined
  <2>1. /\ \A d \in Cpus : d # c => incoming'[d] = incoming[d]
        /\ Range(incoming'[c]) = {} /\ IsInjective(incoming'[c])
    BY EmptySet DEF TypeOK
  <2>2. \A d \in Cpus : IsInjective(queue'[d]) /\ IsInjective(incoming'[d])
    BY <2>1, Zenon DEF ListsFit
  <2>3. \A t \in Threads : \A d, e \in Cpus :
          /\ t \in Range(queue'[d]) /\ t \in Range(queue'[e]) => d = e
          /\ t \in Range(incoming'[d]) /\ t \in Range(incoming'[e]) => d = e
          /\ t \in Range(queue'[d]) => t \notin Range(incoming'[e])
    BY <2>1 DEF ListsFit
  <2>4. \A t \in Threads : \A d \in Cpus :
          t \in Range(queue'[d]) \/ t \in Range(incoming'[d]) =>
            "RUNNING" \in flags'[t] /\ \A r \in Threads : resuming'[r] # t
    BY <2>1, Zenon DEF ListsFit
  <2> QED
    BY <2>2, <2>3, <2>4 DEF ListsFit
(* ListsFit, when c gives the thread t to the CPU d, or drops it.          *)
<1>ListsSent. ASSUME TypeOK, TypeOK', ListsFit, NEW c \in Cpus, NEW t \in Threads, t \in Range(queue[c]),
           IsInjective(queue'[c]), Range(queue'[c]) = Range(queue[c]) \ {t},
           \A d \in Cpus : d # c => queue'[d] = queue[d],
           \/ UNCHANGED incoming
           \/ \E d \in Cpus : incoming' = [incoming EXCEPT ![d] = Append(@, t)],
           UNCHANGED <<flags, dead, freed, resuming>>
    PROVE  ListsFit'
  <2> USE <1>ListsSent
  <2>1. \A d \in Cpus : /\ incoming[d] \in Seq(Threads) /\ IsInjective(incoming[d])
                        /\ t \notin Range(incoming[d])
    BY ListTypes, Zenon DEF ListsFit
  <2>2. \/ UNCHANGED incoming
        \/ \E d \in Cpus : /\ \A e \in Cpus : e # d => incoming'[e] = incoming[e]
                           /\ Range(incoming'[d]) = Range(incoming[d]) \union {t}
                           /\ IsInjective(incoming'[d])
    <3> SUFFICES ASSUME NEW d \in Cpus, incoming' = [incoming EXCEPT ![d] = Append(@, t)]
                 PROVE  /\ \A e \in Cpus : e # d => incoming'[e] = incoming[e]
                        /\ Range(incoming'[d]) = Range(incoming[d]) \union {t}
                        /\ IsInjective(incoming'[d])
      BY Zenon
    <3>1. incoming'[d] = Append(incoming[d], t) /\ \A e \in Cpus : e # d => incoming'[e] = incoming[e]
      BY DEF TypeOK
    <3> QED
      BY <2>1, <3>1, AppendSet
  <2>3. \A d \in Cpus : IsInjective(queue'[d]) /\ IsInjective(incoming'[d])
    BY <2>1, <2>2, Zenon DEF ListsFit
  <2>4. ASSUME NEW x \in Threads, NEW d \in Cpus, NEW e \in Cpus
        PROVE  /\ x \in Range(queue'[d]) /\ x \in Range(queue'[e]) => d = e
               /\ x \in Range(incoming'[d]) /\ x \in Range(incoming'[e]) => d = e
               /\ x \in Range(queue'[d]) => x \notin Range(incoming'[e])
    BY <2>1, <2>2 DEF ListsFit
  <2>5. ASSUME NEW x \in Threads, NEW d \in Cpus, x \in Range(queue'[d]) \/ x \in Range(incoming'[d])
        PROVE  "RUNNING" \in flags'[x] /\ \A r \in Threads : resuming'[r] # x
    BY <2>2, <2>5 DEF ListsFit
  <2> QED
    BY <2>3, <2>4, <2>5 DEF ListsFit
(* ListsFit, when c takes the thread t from its queue: it is not RUNNING   *)
(* any more, and dead when it has EXITED.                                  *)
<1>ListsTaken. ASSUME TypeOK, TypeOK', ListsFit, NEW c \in Cpus, NEW t \in Threads, t \in Range(queue[c]),
           IsInjective(queue'[c]), Range(queue'[c]) = Range(queue[c]) \ {t},
           \A d \in Cpus : d # c => queue'[d] = queue[d],
           UNCHANGED <<incoming, freed, resuming>>,
           \A x \in Threads : x # t => flags'[x] = flags[x],
           "RUNNING" \notin flags'[t],
           \/ UNCHANGED dead /\ ("EXITED" \in flags'[t] <=> "EXITED" \in flags[t])
           \/ dead' = Append(dead, t) /\ "EXITED" \in flags'[t]
    PROVE  ListsFit'
  <2> USE <1>ListsTaken
  <2>1. /\ dead \in Seq(Threads) /\ IsInjective(dead)
        /\ \A x \in Range(dead) \union freed : x \in Threads /\ x # t
    BY ListTypes, Zenon DEF TypeOK, ListsFit
  <2>2. \/ UNCHANGED dead /\ ("EXITED" \in flags'[t] <=> "EXITED" \in flags[t])
        \/ Range(dead') = Range(dead) \union {t} /\ IsInjective(dead') /\ "EXITED" \in flags'[t]
    <3>1. t \notin Range(dead)
      BY <2>1, Zenon
    <3>2. Range(Append(dead, t)) = Range(dead) \union {t} /\ IsInjective(Append(dead, t))
      BY <2>1, <3>1, AppendSet
    <3> QED
      BY <3>2, Zenon
  <2>3. /\ IsInjective(dead') /\ Range(dead') \intersect freed' = {}
        /\ \A x \in Range(dead') \union freed' : "EXITED" \in flags'[x]
    BY <2>1, <2>2 DEF ListsFit
  <2>4. \A x \in Threads : "EXITED" \in flags'[x] => "RUNNING" \notin flags'[x]
    BY Zenon DEF ListsFit
  <2>5. /\ \A d \in Cpus : IsInjective(queue'[d]) /\ IsInjective(incoming'[d])
        /\ \A x \in Threads : \A d, e \in Cpus :
             /\ x \in Range(queue'[d]) /\ x \in Range(queue'[e]) => d = e
             /\ x \in Range(incoming'[d]) /\ x \in Range(incoming'[e]) => d = e
             /\ x \in Range(queue'[d]) => x \notin Range(incoming'[e])
    BY DEF ListsFit
  <2>6. \A d \in Cpus : t \notin Range(queue'[d]) /\ t \notin Range(incoming'[d])
    BY Zenon DEF ListsFit
  <2>7. \A r \in Threads : resuming'[r] # t
    BY Zenon DEF ListsFit
  <2>8. ASSUME NEW x \in Threads, NEW d \in Cpus, x \in Range(queue'[d]) \/ x \in Range(incoming'[d])
        PROVE  "RUNNING" \in flags'[x] /\ \A r \in Threads : resuming'[r] # x
    BY <2>6, <2>8 DEF ListsFit
  <2>9. \A x, r, s \in Threads :
          resuming'[r] = x => "RUNNING" \in flags'[x] /\ (resuming'[s] = x => r = s)
    BY <2>7 DEF ListsFit
  <2> QED
    BY <2>3, <2>4, <2>5, <2>8, <2>9, Zenon DEF ListsFit
(* ListsFit, when a thread marks another one RUNNING and has it in hand.   *)
<1>ListsResume. ASSUME TypeOK, TypeOK', ListsFit, NEW c \in Cpus, NEW t \in Threads, NEW k \in BOOLEAN,
           Resume(c, t, k)
    PROVE  ListsFit'
  <2> USE <1>ListsResume
  <2>1. /\ t \notin freed /\ "RUNNING" \notin flags[t] /\ "EXITED" \notin flags[t]
        /\ "RUNNING" \in flags'[t] /\ "EXITED" \notin flags'[t]
        /\ \A x \in Threads : x # t => flags'[x] = flags[x]
    BY MarkFacts, Zenon DEF Resume
  <2>2. UNCHANGED <<queue, incoming, dead, freed>>
    BY Zenon DEF Resume, listVars
  <2>3. /\ cur[c] \in Threads /\ resuming[cur[c]] = NoThread /\ resuming'[cur[c]] = t
        /\ \A r \in Threads : r # cur[c] => resuming'[r] = resuming[r]
    BY DEF Resume, InKernel, TypeOK
  <2>4. \A x \in Range(dead) \union freed : x \in Threads /\ x # t
    BY <2>1, ListTypes, Zenon DEF TypeOK, ListsFit
  <2>5. \A r \in Threads : resuming[r] # t
    BY <2>1, Zenon DEF ListsFit
  <2>6. \A d \in Cpus : t \notin Range(queue[d]) /\ t \notin Range(incoming[d])
    BY <2>1, Zenon DEF ListsFit
  <2>7. ASSUME NEW x \in Threads, NEW d \in Cpus, x \in Range(queue[d]) \/ x \in Range(incoming[d])
        PROVE  "RUNNING" \in flags'[x] /\ \A r \in Threads : resuming'[r] # x
    BY <2>1, <2>3, <2>6, <2>7 DEF ListsFit
  <2>8. ASSUME NEW x \in Threads, NEW r \in Threads, NEW s \in Threads, resuming'[r] = x
        PROVE  "RUNNING" \in flags'[x] /\ (resuming'[s] = x => r = s)
    BY <2>1, <2>3, <2>5, <2>8 DEF ListsFit
  <2>9. /\ \A x \in Range(dead) \union freed : "EXITED" \in flags'[x]
        /\ \A x \in Threads : "EXITED" \in flags'[x] => "RUNNING" \notin flags'[x]
    BY <2>1, <2>4, Zenon DEF ListsFit
  <2> QED
    BY <2>2, <2>7, <2>8, <2>9, Zenon DEF ListsFit
(* ListsFit, when the thread t that is RUNNING, but nowhere, is handed to  *)
(* the CPU c.                                                              *)
<1>ListsForced. ASSUME TypeOK, TypeOK', ListsFit, NEW c \in Cpus, NEW t \in Threads, ForceHandoff(c, t),
           \A d \in Cpus : t \notin Range(queue[d]) /\ t \notin Range(incoming[d]),
           \A r \in Threads : resuming'[r] # t /\ resuming'[r] \in {resuming[r], NoThread},
           "RUNNING" \in flags'[t], "EXITED" \notin flags'[t], t \notin Range(dead) \union freed,
           \A x \in Threads : x # t => flags'[x] = flags[x],
           UNCHANGED <<queue, dead, freed>>
    PROVE  ListsFit'
  <2> USE <1>ListsForced
  <2>1. /\ incoming'[c] = Append(incoming[c], t) /\ incoming[c] \in Seq(Threads)
        /\ \A d \in Cpus : d # c => incoming'[d] = incoming[d]
    BY DEF ForceHandoff, TypeOK
  <2>2. Range(incoming'[c]) = Range(incoming[c]) \union {t} /\ IsInjective(incoming'[c])
    BY <2>1, AppendSet DEF ListsFit
  <2>3. \A d \in Cpus : IsInjective(queue'[d]) /\ IsInjective(incoming'[d])
    BY <2>1, <2>2, Zenon DEF ListsFit
  <2>4. ASSUME NEW x \in Threads, NEW d \in Cpus, NEW e \in Cpus
        PROVE  /\ x \in Range(queue'[d]) /\ x \in Range(queue'[e]) => d = e
               /\ x \in Range(incoming'[d]) /\ x \in Range(incoming'[e]) => d = e
               /\ x \in Range(queue'[d]) => x \notin Range(incoming'[e])
    <3>1. /\ x \in Range(queue[d]) /\ x \in Range(queue[e]) => d = e
          /\ x \in Range(incoming[d]) /\ x \in Range(incoming[e]) => d = e
          /\ x \in Range(queue[d]) => x \notin Range(incoming[e])
      BY Zenon DEF ListsFit
    <3>2. \A b \in Cpus : x \in Range(incoming'[b]) => x \in Range(incoming[b]) \/ (x = t /\ b = c)
      BY <2>1, <2>2, Zenon
    <3> QED
      BY <3>1, <3>2, Zenon
  <2>5. NoThread \notin Threads
    BY ThreadsAssumption, Zenon
  <2>6. ASSUME NEW x \in Threads, NEW d \in Cpus, x \in Range(queue'[d]) \/ x \in Range(incoming'[d])
        PROVE  "RUNNING" \in flags'[x] /\ \A r \in Threads : resuming'[r] # x
    <3>1. x = t \/ x \in Range(queue[d]) \/ x \in Range(incoming[d])
      BY <2>1, <2>2, <2>6, Zenon
    <3>2. x # t => "RUNNING" \in flags'[x] /\ \A r \in Threads : resuming[r] # x
      BY <3>1, Zenon DEF ListsFit
    <3>3. \A r \in Threads : resuming[r] # x => resuming'[r] # x
      BY <2>5, Zenon
    <3> QED
      BY <3>2, <3>3, Zenon
  <2>7. ASSUME NEW x \in Threads, NEW r \in Threads, NEW s \in Threads, resuming'[r] = x
        PROVE  "RUNNING" \in flags'[x] /\ (resuming'[s] = x => r = s)
    BY <2>5, <2>7 DEF ListsFit
  <2>8. \A x \in Range(dead) \union freed : x \in Threads /\ x # t
    <3>1. Range(dead) \subseteq Threads
      BY ListTypes, Zenon
    <3>2. freed \subseteq Threads
      BY Zenon DEF TypeOK
    <3> QED
      BY <3>1, <3>2, Zenon
  <2>9. /\ \A x \in Range(dead) \union freed : "EXITED" \in flags'[x]
        /\ \A x \in Threads : "EXITED" \in flags'[x] => "RUNNING" \notin flags'[x]
    BY <2>8, Zenon DEF ListsFit
  <2> QED
    BY <2>3, <2>4, <2>6, <2>7, <2>9, ZenonT(30) DEF ListsFit
(* ListsFit, for the second half of thread_resume and for the wake timer.  *)
<1>ListsHanded. ASSUME TypeOK, TypeOK', ListsFit, NEW c \in Cpus,
           ResumeHandoff(c) \/ \E t \in Threads : Wake(c, t)
    PROVE  ListsFit'
  <2> USE <1>ListsHanded
  <2>1. CASE ResumeHandoff(c)
    <3> DEFINE t == resuming[cur[c]]
    <3>1. t \in Threads /\ cur[c] \in Threads
      <4>1. cur[c] \in Threads /\ resuming[cur[c]] # NoThread
        BY <2>1, Zenon DEF ResumeHandoff
      <4>2. resuming \in [Threads -> Threads \union {NoThread}]
        BY Zenon DEF TypeOK
      <4> QED
        BY <4>1, <4>2, Zenon
    <3>2. UNCHANGED <<flags, queue, dead, freed>> /\ ForceHandoff(c, t)
      BY <2>1, Zenon DEF ResumeHandoff
    <3>3. resuming'[cur[c]] = NoThread /\ \A r \in Threads : r # cur[c] => resuming'[r] = resuming[r]
      <4>1. resuming' = [resuming EXCEPT ![cur[c]] = NoThread]
        BY <2>1, Zenon DEF ResumeHandoff
      <4>2. resuming \in [Threads -> Threads \union {NoThread}]
        BY Zenon DEF TypeOK
      <4> QED
        BY <3>1, <4>1, <4>2, Zenon
    <3>4. "RUNNING" \in flags[t] /\ \A d \in Cpus : t \notin Range(queue[d]) /\ t \notin Range(incoming[d])
      BY <3>1, Zenon DEF ListsFit
    <3>5. \A r \in Threads : resuming'[r] # t /\ resuming'[r] \in {resuming[r], NoThread}
      <4>1. \A r \in Threads : r # cur[c] => resuming[r] # t
        BY <3>1, Zenon DEF ListsFit
      <4>2. t # NoThread
        BY <3>1, ThreadsAssumption, Zenon
      <4> QED
        BY <3>3, <4>1, <4>2, Zenon
    <3>6. "EXITED" \notin flags[t] /\ t \notin Range(dead) \union freed
      BY <3>1, <3>4, Zenon DEF ListsFit
    <3> HIDE DEF t
    <3> QED
      BY <3>1, <3>2, <3>4, <3>5, <3>6, <1>ListsForced, Zenon
  <2>2. ASSUME NEW t \in Threads, Wake(c, t) PROVE ListsFit'
    <3>1. UNCHANGED <<queue, dead, freed, resuming>>
      BY <2>2, Zenon DEF Wake
    <3>2. CASE UNCHANGED <<flags, incoming>>
      BY <3>1, <3>2, <1>ListsKept, Zenon DEF ListsFit
    <3>3. CASE MarkRunning(t, TRUE) /\ ForceHandoff(c, t)
      <4>1. /\ t \notin freed /\ "RUNNING" \notin flags[t] /\ "EXITED" \notin flags[t]
            /\ "RUNNING" \in flags'[t] /\ "EXITED" \notin flags'[t]
            /\ \A x \in Threads : x # t => flags'[x] = flags[x]
        BY <3>3, MarkFacts, Zenon
      <4>2. \A d \in Cpus : t \notin Range(queue[d]) /\ t \notin Range(incoming[d])
        BY <4>1, Zenon DEF ListsFit
      <4>3. t \notin Range(dead) \union freed
        BY <4>1, Zenon DEF ListsFit
      <4>4. \A r \in Threads : resuming'[r] # t /\ resuming'[r] \in {resuming[r], NoThread}
        BY <3>1, <4>1, Zenon DEF ListsFit
      <4> QED
        BY <3>1, <3>3, <4>1, <4>2, <4>3, <4>4, <1>ListsForced, Zenon
    <3> QED
      BY <2>2, <3>2, <3>3, Zenon DEF Wake
  <2> QED
    BY <2>1, <2>2, Zenon
(* ListsFit, when housekeeping frees the threads that are dead and         *)
(* detached.                                                               *)
<1>ListsFreed. ASSUME TypeOK, TypeOK', ListsFit, NEW c \in Cpus, Housekeeping(c)
    PROVE  ListsFit'
  <2> USE <1>ListsFreed
  <2> DEFINE D == DeadAndDetached
  <2>1. /\ UNCHANGED <<flags, queue, incoming, resuming>>
        /\ dead' \in Those(dead, Threads \ D) /\ freed' = freed \union D
    BY Zenon DEF Housekeeping, listVars
  <2>2. dead \in Seq(Threads) /\ IsInjective(dead) /\ Range(dead) \subseteq Threads /\ D \subseteq Range(dead)
    BY ListTypes, Zenon DEF ListsFit, DeadAndDetached
  <2> HIDE DEF D
  <2>3. IsInjective(dead') /\ Range(dead') = Range(dead) \intersect (Threads \ D)
    BY <2>1, <2>2, ThoseSet, Zenon
  <2>4. Range(dead') \intersect freed' = {} /\ Range(dead') \union freed' \subseteq Range(dead) \union freed
    BY <2>1, <2>2, <2>3, Zenon DEF ListsFit
  <2> QED
    BY <2>1, <2>3, <2>4, ZenonT(30) DEF ListsFit
(* ListsFit, for the steps of sched_request_switch_from_isr.               *)
<1>ListsRequest. ASSUME TypeOK, TypeOK', ListsFit, NEW c \in Cpus, Request(c)
    PROVE  ListsFit'
  <2> USE <1>ListsRequest
  <2> USE DEF threadVars, listVars
  <2>1. queue \in [Cpus -> Seq(Threads)]
    BY Zenon DEF TypeOK
  <2>2. CASE \/ EnterNormal(c) \/ EnterFirst(c) \/ EnterStarting(c) \/ CountCpu(c)
             \/ EnterExiting(c) \/ UncountCpu(c) \/ PowerOff(c)
             \/ Arrive(c) \/ ReadMin(c) \/ PassBarrier(c) \/ AddAverage(c) \/ CompareLoad(c)
             \/ BalanceDone(c) \/ PickIdle(c) \/ Switch(c)
    <3>1. UNCHANGED <<flags, queue, incoming, dead, freed, resuming>>
      BY <2>2, Zenon DEF EnterNormal, EnterFirst, EnterStarting, CountCpu, EnterExiting, UncountCpu,
         PowerOff, Arrive, ReadMin, PassBarrier, AddAverage, CompareLoad, BalanceDone, PickIdle, Switch
    <3> QED
      BY <3>1, <1>ListsKept, Zenon DEF ListsFit
  <2>3. CASE LeaveQueues(c) \/ TakeIncoming(c)
    BY <2>3, JoinFacts, <1>ListsJoined, Zenon
  <2>4. CASE Evict(c)
    BY <2>4, EvictFacts, <1>ListsSent, Zenon
  <2>5. CASE Balance(c)
    <3> DEFINE t == Head(queue[c])
    <3>1. queue[c] # <<>>
      <4>1. bal[c].i \in Nat
        BY Zenon DEF TypeOK
      <4>2. bal[c].i < Len(queue[c])
        BY <2>5, Zenon DEF Balance
      <4> QED
        BY <4>1, <4>2, Numbers, ShortLists, Zenon
    <3>2. t \in Threads /\ t \in Range(queue[c]) /\ UNCHANGED <<flags, dead, freed, resuming>>
      BY <2>5, <3>1, QueueFacts, Zenon DEF Balance
    <3>3. CASE FirstRunning(c, 0) # {}
      <4>1. queue'[c] = Tail(queue[c]) /\ \A d \in Cpus : d # c => queue'[d] = queue[d]
        BY <2>1, <2>5, <3>3, Zenon DEF Balance
      <4>2. Range(queue'[c]) = Range(queue[c]) \ {t} /\ IsInjective(queue'[c])
        BY <3>1, <4>1, QueueFacts, Zenon
      <4>3. \/ UNCHANGED incoming
            \/ \E d \in Cpus : incoming' = [incoming EXCEPT ![d] = Append(@, t)]
        BY <2>5, <3>2, HandoffFacts, Zenon DEF Balance
      <4> HIDE DEF t
      <4> QED
        BY <3>2, <4>1, <4>2, <4>3, <1>ListsSent, Zenon
    <3>4. CASE FirstRunning(c, 0) = {}
      <4>1. queue'[c] = Rotate(queue[c]) /\ \A d \in Cpus : d # c => queue'[d] = queue[d]
        BY <2>1, <2>5, <3>4, Zenon DEF Balance
      <4>2. UNCHANGED incoming
        BY <2>5, <3>2, <3>4, HandoffFacts, Zenon DEF Balance
      <4>3. \A d \in Cpus : IsInjective(queue'[d]) /\ Range(queue'[d]) = Range(queue[d])
        <5>1. IsInjective(queue'[c]) /\ Range(queue'[c]) = Range(queue[c])
          BY <3>1, <4>1, QueueFacts, Zenon
        <5>2. \A d \in Cpus : IsInjective(queue[d])
          BY Zenon DEF ListsFit
        <5> QED
          BY <4>1, <5>1, <5>2, Zenon
      <4> QED
        BY <3>2, <4>2, <4>3, <1>ListsKept, Zenon
    <3> QED
      BY <3>3, <3>4, Zenon
  <2>6. CASE PickDead(c) \/ PickSuspended(c)
    BY <2>6, TakenFacts, <1>ListsTaken, Zenon
  <2>7. CASE PickRunnable(c)
    BY <2>7, RunnableFacts, <1>ListsKept, Zenon
  <2> QED
    BY <2>2, <2>3, <2>4, <2>5, <2>6, <2>7, Zenon DEF Request
<1> SUFFICES ASSUME IInv, TypeOK', Next PROVE ListsFit'
  BY Zenon
<1>1. TypeOK /\ TypeOK' /\ ListsFit
  BY Zenon DEF IInv
<1>2. ASSUME NEW c \in Cpus, PlainCall(c) PROVE ListsFit'
  <2>1. UNCHANGED <<queue, incoming, dead, freed, resuming>>
    BY <1>1, <1>2, PlainFrame, Zenon
  <2>2. \A t \in Threads : /\ "RUNNING" \in flags'[t] <=> "RUNNING" \in flags[t]
                           /\ "EXITED" \in flags'[t] <=> "EXITED" \in flags[t]
    BY <1>1, <1>2, PlainFrame, Zenon
  <2>3. \A d \in Cpus : IsInjective(queue'[d]) /\ Range(queue'[d]) = Range(queue[d])
    BY <1>1, <2>1, Zenon DEF ListsFit
  <2> QED
    BY <1>1, <2>1, <2>2, <2>3, <1>ListsKept, Zenon
<1>3. ASSUME NEW c \in Cpus, Interval \/ StartCpu(c) \/ ExitCpu(c) PROVE ListsFit'
  <2>1. UNCHANGED <<flags, queue, incoming, dead, freed, resuming>>
    BY <1>3, Zenon DEF Interval, StartCpu, ExitCpu, threadVars, listVars
  <2> QED
    BY <1>1, <2>1, <1>ListsKept, Zenon DEF ListsFit
<1>4. 0 \in Cpus
  BY ZeroCpu, Zenon
<1> QED
  BY <1>1, <1>2, <1>3, <1>4, NextCases, <1>ListsRequest, <1>ListsHanded, <1>ListsFreed, <1>ListsResume, Zenon
-----------------------------------------------------------------------------
(* CpusFit, for every step.                                                *)
LEMMA CpusHold == IInv /\ TypeOK' /\ Next => CpusFit'
(* CpuFits, when nothing happens to the CPU and the threads in its queue   *)
(* remain RUNNING.                                                         *)
<1>CpuKept. ASSUME TypeOK, UNCHANGED conf, NEW d \in Cpus, CpuFits(d),
           pc'[d] = pc[d], cur'[d] = cur[d], next'[d] = next[d], queue'[d] = queue[d],
           "RUNNING" \in sched'[d] <=> "RUNNING" \in sched[d],
           "STARTING" \in sched'[d] <=> "STARTING" \in sched[d],
           \A t \in Range(queue[d]) : "RUNNING" \in flags[t] => "RUNNING" \in flags'[t],
           "smp" \notin conf.ops => \A t \in freed' \ freed : ~Executes(d, t)
    PROVE  CpuFits(d)'
  <2> USE <1>CpuKept
  <2>1. ASSUME NEW t, MayRun(d, t) PROVE MayRun(d, t)'
    <3>1. CASE t \in Threads
      <4>1. "RUNNING" \in flags[t] /\ queue[d] # <<>> /\ Last(queue[d]) = t
        BY <2>1, <3>1, Zenon DEF MayRun
      <4>2. t \in Range(queue[d])
        BY <4>1, LastQueued, Zenon
      <4> QED
        BY <2>1, <4>1, <4>2, Zenon DEF MayRun
    <3>2. CASE t \notin Threads
      BY <2>1, <3>2, Zenon DEF MayRun
    <3> QED
      BY <3>1, <3>2, Zenon
  <2>2. pc[d] = "run" => MayRun(d, cur[d])'
    BY <2>1, Zenon DEF CpuFits
  <2>3. pc[d] = "switch" => MayRun(d, next[d][1])'
    BY <2>1, Zenon DEF CpuFits
  <2> QED
    BY <2>2, <2>3, Zenon DEF CpuFits, Executes
(* CpuFits, while the CPU is looking for the next thread.                  *)
<1>CpuInside. ASSUME UNCHANGED conf, NEW c \in Cpus, CpuFits(c), pc[c] # "off", cur'[c] = cur[c],
           pc'[c] \notin {"run", "switch", "off", "evict", "enter"},
           pc'[c] \in {"count", "uncount", "leave"} => "RUNNING" \in sched'[c],
           Executes(c, NoThread) => "RUNNING" \notin sched'[c],
           UNCHANGED freed
    PROVE  CpuFits(c)'
  BY <1>CpuInside, Zenon DEF CpuFits, Executes
(* CpuFits for the CPU c itself, in the steps of                           *)
(* sched_request_switch_from_isr.                                          *)
<1>CpuRequest. ASSUME TypeOK, ListsFit, UNCHANGED conf, NEW c \in Cpus, CpuFits(c), Request(c), TypeOK'
    PROVE  CpuFits(c)'
  <2> USE <1>CpuRequest
  <2> USE DEF threadVars, listVars, schedVars, cpuVars
  <2>1. /\ pc \in [Cpus -> Pcs] /\ sched \in [Cpus -> SUBSET {"STARTING", "RUNNING", "EXITING"}]
        /\ next \in [Cpus -> (Threads \union {Idle, NoThread}) \X {"user", "kernel"}]
        /\ queue \in [Cpus -> Seq(Threads)] /\ cur \in [Cpus -> Threads \union {Idle, NoThread}]
    BY Zenon DEF TypeOK
  <2>2. CASE EnterNormal(c) \/ EnterFirst(c) \/ CountCpu(c)
    <3>1. pc[c] \in {"enter", "count"} /\ UNCHANGED <<cur, freed>>
      BY <2>2, Zenon DEF EnterNormal, EnterFirst, CountCpu
    <3>2. \E n : MeasureIfDue(c, n)
      BY <2>2, Zenon DEF EnterNormal, EnterFirst, CountCpu
    <3>3. pc'[c] \in {"arrive", "incoming"}
      BY <2>1, <3>2, Zenon DEF MeasureIfDue, Measure, Goto
    <3>4. Executes(c, NoThread) => "RUNNING" \notin sched'[c]
      <4>1. CASE EnterNormal(c) \/ CountCpu(c)
        BY <4>1, Zenon DEF EnterNormal, CountCpu, CpuFits
      <4>2. CASE EnterFirst(c)
        <5>1. "RUNNING" \notin sched[c] /\ sched' = [sched EXCEPT ![c] = @ \union {"STARTING"}]
          BY <4>2, Zenon DEF EnterFirst
        <5> QED
          BY <2>1, <5>1, Zenon
      <4> QED
        BY <2>2, <4>1, <4>2, Zenon
    <3> QED
      BY <3>1, <3>3, <3>4, <1>CpuInside, Zenon
  <2>3. CASE EnterStarting(c)
    <3>1. pc[c] = "enter" /\ pc'[c] = "count" /\ UNCHANGED <<cur, freed>> /\ "STARTING" \in sched[c]
      BY <2>1, <2>3, Zenon DEF EnterStarting, FirstRequest, Goto
    <3>2. ~Executes(c, NoThread)
      BY <3>1, Zenon DEF CpuFits
    <3>3. "RUNNING" \in sched'[c]
      BY <2>1, <2>3, Zenon DEF EnterStarting
    <3> QED
      BY <3>1, <3>2, <3>3, <1>CpuInside, Zenon
  <2>3a. CASE EnterExiting(c) \/ UncountCpu(c)
    <3>1. /\ pc[c] \in {"enter", "uncount"} /\ pc'[c] \in {"uncount", "leave"}
          /\ UNCHANGED <<cur, freed, sched>>
      BY <2>1, <2>3a, Zenon DEF EnterExiting, UncountCpu, Goto
    <3>2. "RUNNING" \in sched[c]
      BY <2>3a, Zenon DEF EnterExiting, UncountCpu, CpuFits
    <3> QED
      BY <3>1, <3>2, <1>CpuInside, Zenon DEF CpuFits
  <2>3b. CASE LeaveQueues(c)
    <3>1. pc'[c] = "evict" /\ UNCHANGED <<cur, freed>> /\ pc[c] = "leave"
      BY <2>1, <2>3b, Zenon DEF LeaveQueues, Goto
    <3>2. "RUNNING" \notin sched'[c]
      BY <2>1, <2>3b, Zenon DEF LeaveQueues, ExitClears
    <3> QED
      BY <3>1, <3>2, Zenon DEF CpuFits, Executes
  <2>4. CASE Evict(c)
    <3>1. UNCHANGED <<pc, cur, freed, sched>> /\ pc[c] = "evict"
      BY <2>4, Zenon DEF Evict
    <3> QED
      BY <3>1, Zenon DEF CpuFits, Executes
  <2>5. CASE PowerOff(c)
    <3>1. UNCHANGED <<cur, freed, sched>> /\ pc[c] = "evict" /\ pc'[c] = "off"
      BY <2>1, <2>5, Zenon DEF PowerOff, Goto
    <3> QED
      BY <3>1, Zenon DEF CpuFits, Executes
  <2>6. CASE \/ Arrive(c) \/ ReadMin(c) \/ PassBarrier(c) \/ AddAverage(c) \/ CompareLoad(c)
             \/ Balance(c) \/ BalanceDone(c)
    <3>1. /\ UNCHANGED <<cur, freed, sched>> /\ pc[c] \in LoadPcs
          /\ pc'[c] \in {"min", "barrier", "sum", "balance", "incoming"}
      BY <2>1, <2>6, Zenon DEF Arrive, ReadMin, PassBarrier, AddAverage, CompareLoad, Balance, BalanceDone,
         Goto, LoadPcs
    <3> QED
      BY <3>1, <1>CpuInside, Zenon DEF CpuFits, LoadPcs
  <2>7. CASE TakeIncoming(c) \/ PickDead(c) \/ PickSuspended(c)
    <3>1. UNCHANGED <<cur, freed, sched>> /\ pc[c] \in {"incoming", "pick"} /\ pc'[c] = "pick"
      BY <2>1, <2>7, Zenon DEF TakeIncoming, PickDead, PickSuspended, Goto
    <3> QED
      BY <3>1, <1>CpuInside, Zenon DEF CpuFits
  <2>8. CASE PickRunnable(c)
    <3> DEFINE t == Head(queue[c])
    <3>1. UNCHANGED <<cur, freed, sched>> /\ pc[c] = "pick" /\ pc'[c] = "switch" /\ queue[c] # <<>>
      BY <2>1, <2>8, Zenon DEF PickRunnable, Goto
    <3>2. t \in Threads /\ "RUNNING" \in flags[t]
      BY <3>1, QueueFacts, Zenon
    <3>3. "RUNNING" \in flags'[t]
      BY <2>8, <3>2, Zenon DEF PickRunnable, SetSwitch, TypeOK
    <3>4. queue'[c] = Rotate(queue[c])
      BY <2>1, <2>8, Zenon DEF PickRunnable
    <3>5. queue'[c] # <<>> /\ Last(queue'[c]) = t
      BY <3>1, <3>4, QueueFacts, Zenon
    <3>6. next'[c][1] = t
      BY <2>1, <2>8, Zenon DEF PickRunnable, SetSwitch
    <3> HIDE DEF t
    <3>7. MayRun(c, next[c][1])'
      BY <3>2, <3>3, <3>5, <3>6, ThreadsAssumption, Zenon DEF MayRun
    <3> QED
      BY <3>1, <3>7, Zenon DEF CpuFits, Executes
  <2>9. CASE PickIdle(c)
    <3>1. UNCHANGED <<cur, freed, sched>> /\ pc[c] = "pick" /\ pc'[c] = "switch"
      BY <2>1, <2>9, Zenon DEF PickIdle, Goto
    <3>2. next'[c][1] = Idle
      BY <2>1, <2>9, Zenon DEF PickIdle
    <3>3. MayRun(c, next[c][1])'
      BY <3>2, ThreadsAssumption, Zenon DEF MayRun, Idle, NoThread
    <3> QED
      BY <3>1, <3>3, Zenon DEF CpuFits, Executes
  <2>10. CASE Switch(c)
    <3>1. UNCHANGED <<freed, sched, flags, queue>> /\ pc[c] = "switch" /\ pc'[c] = "run" /\ cur'[c] = next[c][1]
      BY <2>1, <2>10, Zenon DEF Switch, Goto
    <3>2. MayRun(c, next[c][1])
      BY <3>1, Zenon DEF CpuFits
    <3>3. MayRun(c, cur[c])'
      BY <3>1, <3>2, Zenon DEF MayRun
    <3>4. cur'[c] # NoThread /\ \A t \in freed : cur'[c] # t
      <4>1. \A t \in freed : t \in Threads /\ "RUNNING" \notin flags[t]
        BY Zenon DEF ListsFit, TypeOK
      <4> QED
        BY <3>1, <3>2, <4>1, Zenon DEF MayRun
    <3> QED
      BY <3>1, <3>3, <3>4, Zenon DEF CpuFits, Executes
  <2> QED
    BY <2>2, <2>3, <2>3a, <2>3b, <2>4, <2>5, <2>6, <2>7, <2>8, <2>9, <2>10, Zenon DEF Request
(* What a step of sched_request_switch_from_isr on the CPU c leaves alone  *)
(* of another CPU.                                                         *)
<1>RequestFrame. ASSUME TypeOK, ListsFit, NEW c \in Cpus, Request(c), NEW d \in Cpus, d # c
    PROVE  /\ pc'[d] = pc[d] /\ cur'[d] = cur[d] /\ next'[d] = next[d] /\ sched'[d] = sched[d]
           /\ queue'[d] = queue[d] /\ UNCHANGED freed
           /\ \A t \in Range(queue[d]) : "RUNNING" \in flags[t] => "RUNNING" \in flags'[t]
  <2> USE <1>RequestFrame
  <2> USE DEF threadVars, listVars, schedVars, cpuVars
  <2>1. pc' = pc \/ \E at : pc' = [pc EXCEPT ![c] = at]
    BY Zenon DEF Request, EnterNormal, EnterFirst, EnterStarting, CountCpu, MeasureIfDue, Measure,
       EnterExiting, UncountCpu, LeaveQueues, Evict, PowerOff, Arrive, ReadMin, PassBarrier, AddAverage,
       CompareLoad, Balance, BalanceDone, TakeIncoming, PickDead, PickSuspended, PickRunnable, PickIdle,
       Switch, Goto
  <2>2. cur' = cur \/ \E t : cur' = [cur EXCEPT ![c] = t]
    BY Zenon DEF Request, EnterNormal, EnterFirst, EnterStarting, CountCpu, EnterExiting,
       UncountCpu, LeaveQueues, Evict, PowerOff, Arrive, ReadMin, PassBarrier, AddAverage, CompareLoad, Balance,
       BalanceDone, TakeIncoming, PickDead, PickSuspended, PickRunnable, PickIdle,
       Switch
  <2>3. next' = next \/ \E n : next' = [next EXCEPT ![c] = n]
    BY Zenon DEF Request, EnterNormal, EnterFirst, EnterStarting, CountCpu, EnterExiting,
       UncountCpu, LeaveQueues, Evict, PowerOff, Arrive, ReadMin, PassBarrier, AddAverage, CompareLoad, Balance,
       BalanceDone, TakeIncoming, PickDead, PickSuspended, PickRunnable, PickIdle,
       Switch, SetSwitch
  <2>4. sched' = sched \/ \E f : sched' = [sched EXCEPT ![c] = f]
    BY Zenon DEF Request, EnterNormal, EnterFirst, EnterStarting, CountCpu, EnterExiting,
       UncountCpu, LeaveQueues, Evict, PowerOff, Arrive, ReadMin, PassBarrier, AddAverage, CompareLoad, Balance,
       BalanceDone, TakeIncoming, PickDead, PickSuspended, PickRunnable, PickIdle,
       Switch
  <2>5. queue' = queue \/ \E q : queue' = [queue EXCEPT ![c] = q]
    BY Zenon DEF Request, EnterNormal, EnterFirst, EnterStarting, CountCpu, EnterExiting,
       UncountCpu, LeaveQueues, Evict, PowerOff, Arrive, ReadMin, PassBarrier, AddAverage, CompareLoad, Balance,
       BalanceDone, TakeIncoming, PickDead, PickSuspended, PickRunnable, PickIdle,
       Switch
  <2>6. UNCHANGED freed
    BY Zenon DEF Request, EnterNormal, EnterFirst, EnterStarting, CountCpu, EnterExiting,
       UncountCpu, LeaveQueues, Evict, PowerOff, Arrive, ReadMin, PassBarrier, AddAverage, CompareLoad, Balance,
       BalanceDone, TakeIncoming, PickDead, PickSuspended, PickRunnable, PickIdle,
       Switch
  <2>7. /\ pc'[d] = pc[d] /\ cur'[d] = cur[d] /\ next'[d] = next[d] /\ sched'[d] = sched[d]
        /\ queue'[d] = queue[d]
    <3>1. /\ pc \in [Cpus -> Pcs] /\ cur \in [Cpus -> Threads \union {Idle, NoThread}]
          /\ next \in [Cpus -> (Threads \union {Idle, NoThread}) \X {"user", "kernel"}]
          /\ sched \in [Cpus -> SUBSET {"STARTING", "RUNNING", "EXITING"}]
          /\ queue \in [Cpus -> Seq(Threads)]
      BY Zenon DEF TypeOK
    <3>2. pc'[d] = pc[d] /\ cur'[d] = cur[d]
      BY <2>1, <2>2, <3>1, Zenon
    <3>3. next'[d] = next[d] /\ sched'[d] = sched[d]
      BY <2>3, <2>4, <3>1, Zenon
    <3>4. queue'[d] = queue[d]
      BY <2>5, <3>1, Zenon
    <3> QED
      BY <3>2, <3>3, <3>4, Zenon
  <2>8. ASSUME NEW t \in Range(queue[d]), "RUNNING" \in flags[t] PROVE "RUNNING" \in flags'[t]
    <3>1. t \in Threads
      BY ListTypes, Zenon
    <3>2. CASE PickDead(c) \/ PickSuspended(c)
      <4>1. /\ Head(queue[c]) \in Threads /\ Head(queue[c]) \in Range(queue[c])
            /\ \A x \in Threads : x # Head(queue[c]) => flags'[x] = flags[x]
        BY <3>2, TakenFacts, Zenon
      <4>2. \A x \in Threads : x \in Range(queue[c]) /\ x \in Range(queue[d]) => c = d
        BY Zenon DEF ListsFit
      <4>3. t # Head(queue[c])
        BY <3>1, <4>1, <4>2, Zenon
      <4> QED
        BY <2>8, <3>1, <4>1, <4>2, Zenon
    <3>3. CASE PickRunnable(c)
      BY <2>8, <3>1, <3>3, RunnableFacts, Zenon
    <3>4. CASE ~(PickDead(c) \/ PickSuspended(c) \/ PickRunnable(c))
      <4>1. UNCHANGED flags
        BY <3>4, Zenon DEF Request, EnterNormal, EnterFirst, EnterStarting, CountCpu, EnterExiting,
           UncountCpu, LeaveQueues, Evict, PowerOff, Arrive, ReadMin, PassBarrier, AddAverage, CompareLoad,
           Balance, BalanceDone, TakeIncoming, PickIdle, Switch
      <4> QED
        BY <2>8, <4>1, Zenon
    <3> QED
      BY <3>2, <3>3, <3>4, Zenon
  <2> QED
    BY <2>6, <2>7, <2>8, Zenon
<1> SUFFICES ASSUME IInv, TypeOK', Next PROVE CpusFit'
  BY Zenon
<1>1. TypeOK /\ ListsFit /\ UNCHANGED conf /\ \A d \in Cpus : CpuFits(d)
  BY NextCases, Zenon DEF IInv, CpusFit
<1>2. ASSUME NEW c \in Cpus, Request(c), NEW d \in Cpus PROVE CpuFits(d)'
  <2>1. CASE d = c
    BY <1>1, <1>2, <2>1, <1>CpuRequest, Zenon
  <2>2. CASE d # c
    <3>1. /\ pc'[d] = pc[d] /\ cur'[d] = cur[d] /\ next'[d] = next[d] /\ sched'[d] = sched[d]
          /\ queue'[d] = queue[d] /\ UNCHANGED freed
          /\ \A t \in Range(queue[d]) : "RUNNING" \in flags[t] => "RUNNING" \in flags'[t]
      BY <1>1, <1>2, <2>2, <1>RequestFrame, Zenon
    <3> QED
      BY <1>1, <3>1, <1>CpuKept, Zenon
  <2> QED
    BY <2>1, <2>2, Zenon
<1>3. ASSUME NEW c \in Cpus, PlainCall(c), NEW d \in Cpus PROVE CpuFits(d)'
  <2>1. /\ UNCHANGED <<queue, freed, cur, next, sched>> /\ pc[c] = "run" /\ pc'[c] \in {"run", "enter"}
        /\ \A t \in Threads : "RUNNING" \in flags[t] => "RUNNING" \in flags'[t]
        /\ \A e \in Cpus : e # c => pc'[e] = pc[e]
    BY <1>1, <1>3, PlainFrame, Zenon DEF schedVars
  <2>2. CASE d = c
    <3>1. MayRun(c, cur[c]) /\ MayRun(c, cur[c])'
      BY <1>1, <2>1, Zenon DEF CpuFits, MayRun
    <3>2. cur[c] # NoThread
      BY <3>1, Zenon DEF MayRun
    <3> QED
      BY <1>1, <2>1, <2>2, <3>1, <3>2, Zenon DEF CpuFits, Executes
  <2>3. CASE d # c
    <3>1. \A t \in Range(queue[d]) : "RUNNING" \in flags[t] => "RUNNING" \in flags'[t]
      BY <1>1, <2>1, ListTypes, Zenon
    <3> QED
      BY <1>1, <2>1, <2>3, <3>1, <1>CpuKept, Zenon
  <2> QED
    BY <2>2, <2>3, Zenon
<1>4. ASSUME UNCHANGED <<pc, cur, next, queue, freed>>, NEW d \in Cpus,
             \A t \in Threads : "RUNNING" \in flags[t] => "RUNNING" \in flags'[t],
             "RUNNING" \in sched'[d] <=> "RUNNING" \in sched[d],
             "STARTING" \in sched'[d] <=> "STARTING" \in sched[d]
      PROVE  CpuFits(d)'
  <2>1. \A t \in Range(queue[d]) : "RUNNING" \in flags[t] => "RUNNING" \in flags'[t]
    BY <1>1, <1>4, ListTypes, Zenon
  <2> QED
    BY <1>1, <1>4, <2>1, <1>CpuKept, Zenon
<1>5. ASSUME NEW c \in Cpus, NEW t \in Threads, Wake(c, t) \/ \E k \in BOOLEAN : Resume(c, t, k)
      PROVE  CpusFit'
  <2>1. UNCHANGED <<pc, cur, next, queue, freed, sched>>
    BY <1>5, Zenon DEF Wake, Resume, listVars, cpuVars, schedVars
  <2>2. UNCHANGED flags \/ \E k \in BOOLEAN : MarkRunning(t, k)
    BY <1>5, Zenon DEF Wake, Resume
  <2>3. \A x \in Threads : "RUNNING" \in flags[x] => "RUNNING" \in flags'[x]
    BY <1>1, <2>2, MarkFacts, Zenon
  <2> QED
    BY <1>4, <2>1, <2>3, Zenon DEF CpusFit
<1>6. ASSUME NEW c \in Cpus, Interval \/ ExitCpu(c) \/ ResumeHandoff(c) PROVE CpusFit'
  <2>1. UNCHANGED <<pc, cur, next, queue, freed, flags>>
    BY <1>6, Zenon DEF Interval, ExitCpu, ResumeHandoff, threadVars, listVars, cpuVars
  <2>2. sched' = sched \/ sched' = [sched EXCEPT ![c] = @ \union {"EXITING"}]
    BY <1>6, Zenon DEF Interval, ExitCpu, ResumeHandoff, schedVars
  <2>3. \A d \in Cpus : /\ "RUNNING" \in sched'[d] <=> "RUNNING" \in sched[d]
                        /\ "STARTING" \in sched'[d] <=> "STARTING" \in sched[d]
    <3>1. sched \in [Cpus -> SUBSET {"STARTING", "RUNNING", "EXITING"}]
      BY <1>1, Zenon DEF TypeOK
    <3>2. CASE sched' = sched
      BY <3>2, Zenon
    <3>3. CASE sched' = [sched EXCEPT ![c] = @ \union {"EXITING"}]
      BY <3>1, <3>3, Zenon
    <3> QED
      BY <2>2, <3>2, <3>3, Zenon
  <2> QED
    BY <1>4, <2>1, <2>3, Zenon DEF CpusFit
<1>7. ASSUME NEW c \in Cpus, "smp" \in conf.ops, StartCpu(c), NEW d \in Cpus PROVE CpuFits(d)'
  <2>1. UNCHANGED <<next, queue, freed, flags>>
    BY <1>7, Zenon DEF StartCpu, threadVars, listVars
  <2>2. /\ pc'[c] = "enter" /\ sched'[c] = {}
        /\ \A e \in Cpus : e # c => pc'[e] = pc[e] /\ cur'[e] = cur[e] /\ sched'[e] = sched[e]
    <3>1. pc \in [Cpus -> Pcs] /\ cur \in [Cpus -> Threads \union {Idle, NoThread}]
          /\ sched \in [Cpus -> SUBSET {"STARTING", "RUNNING", "EXITING"}]
      BY <1>1, Zenon DEF TypeOK
    <3> QED
      BY <1>7, <3>1, Zenon DEF StartCpu, Goto
  <2>3. CASE d = c
    BY <1>1, <1>7, <2>2, <2>3, Zenon DEF CpuFits
  <2>4. CASE d # c
    BY <1>1, <2>1, <2>2, <2>4, <1>CpuKept, Zenon
  <2> QED
    BY <2>3, <2>4, Zenon
<1>8. ASSUME NEW c \in Cpus, Housekeeping(c), NEW d \in Cpus PROVE CpuFits(d)'
  <2>1. /\ UNCHANGED <<pc, cur, next, queue, flags, sched>> /\ freed' = freed \union DeadAndDetached
        /\ pc[c] = "run" /\ cur[c] \in Threads
    BY <1>8, Zenon DEF Housekeeping, InKernel, listVars, cpuVars, schedVars
  <2>2. "RUNNING" \in flags[cur[c]]
    BY <1>1, <2>1, Zenon DEF CpuFits, MayRun
  <2>3. \A t \in DeadAndDetached : t \in Threads /\ t # cur[c]
    BY <1>1, <2>2, ListTypes, Zenon DEF DeadAndDetached, ListsFit
  <2>4. "smp" \notin conf.ops => \A t \in freed' \ freed : ~Executes(d, t)
    <3> SUFFICES ASSUME "smp" \notin conf.ops, Executes(d, cur[d]) PROVE d = c
      BY <2>1, <2>3, Zenon DEF Executes
    <3> QED
      BY <1>1, <2>1, Zenon DEF CpuFits, Executes
  <2> QED
    BY <1>1, <2>1, <2>4, <1>CpuKept, Zenon
<1>9. 0 \in Cpus
  BY ZeroCpu, Zenon
<1> QED
  BY <1>1, <1>2, <1>3, <1>5, <1>6, <1>7, <1>8, <1>9, NextCases, Zenon DEF CpusFit
-----------------------------------------------------------------------------
(* NoLoadYet, for every step.                                              *)
LEMMA LoadHolds == IInv /\ TypeOK' /\ Next => NoLoadYet'
<1> SUFFICES ASSUME IInv, TypeOK', Next, epoch' = 0
             PROVE  /\ \A t \in Threads : usage'[t] = 0
                    /\ \A c \in Cpus : est'[c] = 0 /\ pc'[c] \notin LoadPcs
                    /\ \A t \in Threads : "RUNNING" \in flags'[t] => Placed(t)'
  BY Zenon DEF NoLoadYet
<1> USE DEF threadVars, listVars, cpuVars, schedVars, loadVars
<1>1. TypeOK /\ ListsFit
  BY Zenon DEF IInv
<1>2. /\ ~Interval /\ epoch \in Nat /\ \A c \in Cpus : measured[c] \in Nat
  <2>1. epoch \in Nat /\ \A c \in Cpus : measured[c] \in Nat
    <3>1. conf.maxEpoch \in Nat /\ epoch \in 0 .. conf.maxEpoch /\ measured \in [Cpus -> 0 .. conf.maxEpoch]
      BY <1>1, ConfigsAssumption, Zenon DEF TypeOK
    <3> QED
      BY <3>1, Numbers, Zenon
  <2> QED
    BY <2>1, Numbers, Zenon DEF Interval
<1>3. epoch = 0
  <2>1. ASSUME NEW c \in Cpus, Request(c) PROVE UNCHANGED epoch
    BY <2>1, Zenon DEF Request, EnterNormal, EnterFirst, EnterStarting, CountCpu, MeasureIfDue, Measure,
       EnterExiting, UncountCpu, LeaveQueues, Evict, PowerOff, Arrive, ReadMin, PassBarrier, AddAverage,
       CompareLoad, Balance, BalanceDone, TakeIncoming, PickDead, PickSuspended, PickRunnable, PickIdle,
       Switch
  <2>2. ASSUME NEW c \in Cpus, PlainCall(c) PROVE UNCHANGED epoch
    BY <1>1, <2>2, PlainFrame, Zenon
  <2>3. ASSUME NEW c \in Cpus,
               \/ ResumeHandoff(c) \/ Housekeeping(c) \/ StartCpu(c) \/ ExitCpu(c)
               \/ \E t \in Threads : Wake(c, t) \/ \E k \in BOOLEAN : Resume(c, t, k)
        PROVE  UNCHANGED epoch
    BY <2>3, Zenon DEF ResumeHandoff, Housekeeping, StartCpu, ExitCpu, Wake, Resume
  <2>4. UNCHANGED epoch
    BY <1>1, <1>2, <2>1, <2>2, <2>3, NextCases, Zenon
  <2> QED
    BY <2>4, Zenon
<1>4. /\ \A t \in Threads : usage[t] = 0
      /\ \A c \in Cpus : est[c] = 0 /\ pc[c] \notin LoadPcs
      /\ \A t \in Threads : "RUNNING" \in flags[t] => Placed(t)
      /\ \A c \in Cpus : ~(epoch > measured[c]) /\ ~(bal[c].now > measured[c])
  <2>1. \A c \in Cpus : bal[c].now = 0
    <3>1. \A c \in Cpus : bal[c].now \in 0 .. epoch
      BY <1>1, Zenon DEF TypeOK
    <3> QED
      BY <1>3, <3>1
  <2> QED
    BY <1>2, <1>3, <2>1, Numbers, Zenon DEF IInv, NoLoadYet
<1>5. /\ pc \in [Cpus -> Pcs] /\ est \in [Cpus -> Nat] /\ incoming \in [Cpus -> Seq(Threads)]
      /\ resuming \in [Threads -> Threads \union {NoThread}] /\ NoThread \notin Threads
  BY <1>1, ThreadsAssumption, Zenon DEF TypeOK
(* Nothing new, and every thread stays where it is.                        *)
<1>6. ASSUME UNCHANGED <<usage, est, pc, queue, incoming, resuming>>,
             \A t \in Threads : "RUNNING" \in flags'[t] => "RUNNING" \in flags[t]
      PROVE  /\ \A t \in Threads : usage'[t] = 0
             /\ \A c \in Cpus : est'[c] = 0 /\ pc'[c] \notin LoadPcs
             /\ \A t \in Threads : "RUNNING" \in flags'[t] => Placed(t)'
  BY <1>4, <1>6, Zenon DEF Placed
(* A thread is added to the incoming list of d.                            *)
<1>7. ASSUME NEW d \in Cpus, NEW t \in Threads, incoming' = [incoming EXCEPT ![d] = Append(@, t)]
      PROVE  /\ t \in Range(incoming'[d])
             /\ \A e \in Cpus : \A x \in Range(incoming[e]) : x \in Range(incoming'[e])
  <2>1. /\ incoming'[d] = Append(incoming[d], t) /\ incoming[d] \in Seq(Threads)
        /\ \A e \in Cpus : e # d => incoming'[e] = incoming[e]
    BY <1>5, <1>7, Zenon
  <2> DEFINE s == incoming[d]
             u == Append(s, t)
  <2>2. /\ u \in Seq(Threads) /\ Len(u) = Len(s) + 1 /\ Len(s) \in Nat
        /\ \A i \in 1 .. Len(s) : u[i] = s[i]
        /\ u[Len(s) + 1] = t
    BY <2>1, AppendFacts, SeqFacts
  <2>3. /\ \A x : x \in Range(s) <=> \E i \in 1 .. Len(s) : s[i] = x
        /\ \A x : x \in Range(u) <=> \E i \in 1 .. Len(u) : u[i] = x
    BY <2>1, <2>2, RangeFacts, Zenon
  <2> HIDE DEF s, u
  <2>4. t \in Range(u) /\ \A x \in Range(s) : x \in Range(u)
    BY <2>2, <2>3
  <2> QED
    BY <2>1, <2>4, Zenon DEF s, u
(* Nobody balances loads.                                                  *)
<1>Off. ASSUME NEW c \in Cpus,
               \/ Arrive(c) \/ ReadMin(c) \/ PassBarrier(c) \/ AddAverage(c) \/ CompareLoad(c)
               \/ Balance(c) \/ BalanceDone(c)
        PROVE  FALSE
  BY <1>4, <1>Off, Zenon DEF Arrive, ReadMin, PassBarrier, AddAverage, CompareLoad, Balance, BalanceDone,
     LoadPcs
(* The loads and the CPUs, while a CPU looks for the next thread.          *)
<1>8. ASSUME NEW c \in Cpus, Request(c)
      PROVE  /\ UNCHANGED usage
             /\ \A d \in Cpus : est'[d] = 0 /\ pc'[d] \notin LoadPcs
  <2>1. CASE EnterNormal(c) \/ EnterFirst(c) \/ CountCpu(c)
    <3>1. UNCHANGED <<usage, est>> /\ pc' = [pc EXCEPT ![c] = "incoming"]
      BY <1>4, <2>1, Zenon DEF EnterNormal, EnterFirst, CountCpu, MeasureIfDue, Goto
    <3> QED
      BY <1>4, <1>5, <3>1, Zenon DEF LoadPcs
  <2>2. CASE EnterStarting(c) \/ EnterExiting(c) \/ UncountCpu(c) \/ LeaveQueues(c)
    <3>1. /\ UNCHANGED usage /\ (est' = est \/ est' = [est EXCEPT ![c] = 0])
          /\ \E at \in {"count", "uncount", "leave", "evict"} : pc' = [pc EXCEPT ![c] = at]
      BY <2>2, Zenon DEF EnterStarting, EnterExiting, UncountCpu, LeaveQueues, Goto
    <3>2. \A d \in Cpus : est'[d] = 0
      BY <1>4, <1>5, <3>1, Zenon
    <3>3. \A d \in Cpus : pc'[d] \notin LoadPcs
      BY <1>4, <1>5, <3>1, Zenon DEF LoadPcs
    <3> QED
      BY <3>1, <3>2, <3>3, Zenon
  <2>3. CASE Evict(c)
    <3> DEFINE t == Head(queue[c])
    <3>1. t \in Threads
      BY <1>1, <2>3, EvictFacts, Zenon
    <3>2. UNCHANGED <<usage, pc>> /\ Handoff(t, c, bal[c].i + 1, IntMax)
      BY <2>3, Zenon DEF Evict
    <3>3. UNCHANGED est \/ \E d \in Cpus : est' = [est EXCEPT ![d] = @ + usage[t]]
      BY <1>1, <3>1, <3>2, HandoffFacts, Zenon
    <3> HIDE DEF t
    <3>4. \A d \in Cpus : est'[d] = 0
      <4>1. est \in [Cpus -> Nat] /\ \A d \in Cpus : est[d] = 0 /\ usage[t] = 0
        BY <1>4, <1>5, <3>1, Zenon
      <4>2. \A d \in Cpus : est[d] + usage[t] = 0
        BY <4>1, Numbers, Zenon
      <4>3. ASSUME NEW d \in Cpus, est' = [est EXCEPT ![d] = @ + usage[t]], NEW e \in Cpus
            PROVE  est'[e] = est[e] \/ est'[e] = est[d] + usage[t]
        BY <4>1, <4>3, Zenon
      <4> QED
        BY <3>3, <4>1, <4>2, <4>3, Zenon
    <3> QED
      BY <1>4, <3>2, <3>4, Zenon
  <2>4. CASE \/ PowerOff(c) \/ TakeIncoming(c) \/ PickDead(c) \/ PickSuspended(c) \/ PickRunnable(c)
             \/ PickIdle(c) \/ Switch(c)
    <3>1. UNCHANGED <<usage, est>>
      BY <2>4, Zenon DEF PowerOff, TakeIncoming, PickDead, PickSuspended, PickRunnable, PickIdle, Switch
    <3>2. pc' = pc \/ \E at \in {"off", "pick", "switch", "run"} : pc' = [pc EXCEPT ![c] = at]
      BY <2>4, Zenon DEF PowerOff, TakeIncoming, PickDead, PickSuspended, PickRunnable, PickIdle, Switch, Goto
    <3> QED
      BY <1>4, <1>5, <3>1, <3>2, Zenon DEF LoadPcs
  <2>5. CASE \/ Arrive(c) \/ ReadMin(c) \/ PassBarrier(c) \/ AddAverage(c) \/ CompareLoad(c)
             \/ Balance(c) \/ BalanceDone(c)
    BY <1>4, <2>5, <1>Off, Zenon
  <2> QED
    BY <1>8, <2>1, <2>2, <2>3, <2>4, <2>5, Zenon DEF Request
(* The threads, while a CPU looks for the next one.                        *)
<1>9. ASSUME NEW c \in Cpus, Request(c), NEW x \in Threads, "RUNNING" \in flags'[x]
      PROVE  Placed(x)'
  <2>1. CASE \/ EnterNormal(c) \/ EnterFirst(c) \/ EnterStarting(c) \/ CountCpu(c)
             \/ EnterExiting(c) \/ UncountCpu(c) \/ PowerOff(c) \/ PickIdle(c) \/ Switch(c)
    <3>1. UNCHANGED <<flags, queue, incoming, resuming>>
      BY <2>1, Zenon DEF EnterNormal, EnterFirst, EnterStarting, CountCpu, EnterExiting, UncountCpu,
         PowerOff, PickIdle, Switch
    <3> QED
      BY <1>4, <1>9, <3>1, Zenon DEF Placed
  <2>2. CASE LeaveQueues(c) \/ TakeIncoming(c)
    <3>1. /\ Range(queue'[c]) = Range(queue[c]) \union Range(incoming[c])
          /\ \A d \in Cpus : d # c => queue'[d] = queue[d]
          /\ incoming' = [incoming EXCEPT ![c] = <<>>] /\ UNCHANGED <<flags, resuming>>
      BY <1>1, <2>2, JoinFacts, Zenon
    <3>2. \A d \in Cpus : d # c => incoming'[d] = incoming[d]
      BY <1>5, <3>1, Zenon
    <3>3. Placed(x)
      BY <1>4, <1>9, <3>1, Zenon
    <3> QED
      BY <3>1, <3>2, <3>3, Zenon DEF Placed
  <2>3. CASE Evict(c)
    <3> DEFINE t == Head(queue[c])
    <3>1. /\ t \in Threads /\ Range(queue'[c]) = Range(queue[c]) \ {t}
          /\ \A d \in Cpus : d # c => queue'[d] = queue[d]
          /\ UNCHANGED <<flags, resuming>>
          /\ \/ UNCHANGED incoming /\ \A d \in FirstRunning(c, bal[c].i + 1) : ~(est[d] + usage[t] <= IntMax)
             \/ \E d \in Cpus : incoming' = [incoming EXCEPT ![d] = Append(@, t)]
      BY <1>1, <2>3, EvictFacts, Zenon
    <3> HIDE DEF t
    <3>2. PICK d \in FirstRunning(c, bal[c].i + 1) : d \in Cpus
      BY <2>3, Zenon DEF Evict, FirstRunning
    <3>3. est[d] + usage[t] <= IntMax
      BY <1>4, <3>1, <3>2, ThreadsAssumption
    <3>4. PICK e \in Cpus : incoming' = [incoming EXCEPT ![e] = Append(@, t)]
      BY <3>1, <3>2, <3>3, Zenon
    <3>5. /\ t \in Range(incoming'[e])
          /\ \A b \in Cpus : \A y \in Range(incoming[b]) : y \in Range(incoming'[b])
      BY <1>7, <3>1, <3>4, Zenon
    <3>6. Placed(x)
      BY <1>4, <1>9, <3>1, Zenon
    <3> QED
      BY <3>1, <3>5, <3>6, Zenon DEF Placed
  <2>4. CASE PickDead(c) \/ PickSuspended(c)
    <3> DEFINE t == Head(queue[c])
    <3>1. /\ t \in Threads /\ Range(queue'[c]) = Range(queue[c]) \ {t}
          /\ \A d \in Cpus : d # c => queue'[d] = queue[d]
          /\ UNCHANGED <<incoming, resuming>> /\ "RUNNING" \notin flags'[t]
          /\ \A y \in Threads : y # t => flags'[y] = flags[y]
      BY <1>1, <2>4, TakenFacts, Zenon
    <3> HIDE DEF t
    <3>2. x # t /\ Placed(x)
      BY <1>4, <1>9, <3>1, Zenon
    <3> QED
      BY <3>1, <3>2, Zenon DEF Placed
  <2>5. CASE PickRunnable(c)
    <3>1. /\ \A d \in Cpus : Range(queue'[d]) = Range(queue[d])
          /\ UNCHANGED <<incoming, resuming>> /\ "RUNNING" \in flags[x]
      BY <1>1, <1>9, <2>5, RunnableFacts, Zenon
    <3> QED
      BY <1>4, <3>1, Zenon DEF Placed
  <2>6. CASE \/ Arrive(c) \/ ReadMin(c) \/ PassBarrier(c) \/ AddAverage(c) \/ CompareLoad(c)
             \/ Balance(c) \/ BalanceDone(c)
    BY <1>4, <2>6, <1>Off, Zenon
  <2> QED
    BY <1>9, <2>1, <2>2, <2>3, <2>4, <2>5, <2>6, Zenon DEF Request
(* A thread is handed to the CPU c.                                        *)
<1>10. ASSUME NEW c \in Cpus, NEW t \in Threads, ForceHandoff(c, t), UNCHANGED <<usage, pc, queue>>,
              \A x \in Threads : x # t => flags'[x] = flags[x],
              \A r \in Threads : resuming[r] # t => resuming'[r] = resuming[r]
       PROVE  /\ \A x \in Threads : usage'[x] = 0
              /\ \A d \in Cpus : est'[d] = 0 /\ pc'[d] \notin LoadPcs
              /\ \A x \in Threads : "RUNNING" \in flags'[x] => Placed(x)'
  <2>1. incoming' = [incoming EXCEPT ![c] = Append(@, t)] /\ est' = [est EXCEPT ![c] = @ + usage[t]]
    BY <1>10, Zenon DEF ForceHandoff
  <2>2. \A d \in Cpus : est'[d] = 0
    BY <1>4, <1>5, <2>1, Numbers, Zenon
  <2>3. /\ t \in Range(incoming'[c])
        /\ \A b \in Cpus : \A y \in Range(incoming[b]) : y \in Range(incoming'[b])
    BY <1>7, <2>1, Zenon
  <2>4. ASSUME NEW x \in Threads, "RUNNING" \in flags'[x] PROVE Placed(x)'
    <3>1. CASE x = t
      BY <2>3, <3>1, Zenon DEF Placed
    <3>2. CASE x # t
      <4>1. Placed(x)
        BY <1>4, <1>10, <2>4, <3>2, Zenon
      <4> QED
        BY <1>10, <2>3, <3>2, <4>1, Zenon DEF Placed
    <3> QED
      BY <3>1, <3>2, Zenon
  <2> QED
    BY <1>4, <1>10, <2>2, <2>4, Zenon
<1>11. CASE \E c \in Cpus : Request(c)
  BY <1>4, <1>8, <1>9, <1>11, Zenon
<1>12. ASSUME NEW c \in Cpus, PlainCall(c)
       PROVE  /\ \A t \in Threads : usage'[t] = 0
              /\ \A d \in Cpus : est'[d] = 0 /\ pc'[d] \notin LoadPcs
              /\ \A t \in Threads : "RUNNING" \in flags'[t] => Placed(t)'
  <2>1. /\ UNCHANGED <<queue, incoming, resuming, usage, est>>
        /\ \A t \in Threads : "RUNNING" \in flags'[t] => "RUNNING" \in flags[t]
        /\ \A d \in Cpus : d # c => pc'[d] = pc[d]
        /\ pc'[c] \in {"run", "enter"}
    BY <1>1, <1>12, PlainFrame, Zenon
  <2>2. \A t \in Threads : "RUNNING" \in flags'[t] => Placed(t)'
    BY <1>4, <2>1, Zenon DEF Placed
  <2>3. \A d \in Cpus : pc'[d] \notin LoadPcs
    BY <1>4, <2>1, Zenon DEF LoadPcs
  <2> QED
    BY <1>4, <2>1, <2>2, <2>3, Zenon
<1>13. ASSUME NEW c \in Cpus, Housekeeping(c) \/ ExitCpu(c)
       PROVE  UNCHANGED <<usage, est, pc, queue, incoming, resuming, flags>>
  BY <1>13, Zenon DEF Housekeeping, ExitCpu
<1>14. ASSUME NEW c \in Cpus, StartCpu(c)
       PROVE  /\ \A t \in Threads : usage'[t] = 0
              /\ \A d \in Cpus : est'[d] = 0 /\ pc'[d] \notin LoadPcs
              /\ \A t \in Threads : "RUNNING" \in flags'[t] => Placed(t)'
  <2>1. /\ UNCHANGED <<queue, incoming, resuming, usage, flags>>
        /\ est' = [est EXCEPT ![c] = 0] /\ pc' = [pc EXCEPT ![c] = "enter"]
    BY <1>14, Zenon DEF StartCpu, Goto
  <2>2. \A t \in Threads : "RUNNING" \in flags'[t] => Placed(t)'
    BY <1>4, <2>1, Zenon DEF Placed
  <2> QED
    BY <1>4, <1>5, <2>1, <2>2, Zenon DEF LoadPcs
<1>15. ASSUME NEW c \in Cpus, ResumeHandoff(c)
       PROVE  /\ \A t \in Threads : usage'[t] = 0
              /\ \A d \in Cpus : est'[d] = 0 /\ pc'[d] \notin LoadPcs
              /\ \A t \in Threads : "RUNNING" \in flags'[t] => Placed(t)'
  <2> DEFINE t == resuming[cur[c]]
  <2>1. /\ t \in Threads /\ ForceHandoff(c, t) /\ UNCHANGED <<usage, pc, queue, flags>>
        /\ resuming' = [resuming EXCEPT ![cur[c]] = NoThread]
    BY <1>5, <1>15, Zenon DEF ResumeHandoff
  <2>2. \A r \in Threads : resuming[r] # t => resuming'[r] = resuming[r]
    BY <1>5, <2>1, Zenon
  <2> HIDE DEF t
  <2> QED
    BY <1>10, <2>1, <2>2, Zenon
<1>16. ASSUME NEW c \in Cpus, NEW t \in Threads, Wake(c, t)
       PROVE  /\ \A x \in Threads : usage'[x] = 0
              /\ \A d \in Cpus : est'[d] = 0 /\ pc'[d] \notin LoadPcs
              /\ \A x \in Threads : "RUNNING" \in flags'[x] => Placed(x)'
  <2>1. UNCHANGED <<usage, pc, queue, resuming>>
    BY <1>16, Zenon DEF Wake
  <2>2. CASE UNCHANGED <<flags, incoming, est>>
    BY <1>6, <2>1, <2>2, Zenon
  <2>3. CASE MarkRunning(t, TRUE) /\ ForceHandoff(c, t)
    <3>1. \A x \in Threads : x # t => flags'[x] = flags[x]
      BY <1>1, <2>3, MarkFacts, Zenon
    <3> QED
      BY <1>10, <2>1, <2>3, <3>1, Zenon
  <2> QED
    BY <1>16, <2>2, <2>3, Zenon DEF Wake
<1>17. ASSUME NEW c \in Cpus, NEW t \in Threads, NEW k \in BOOLEAN, Resume(c, t, k)
       PROVE  /\ \A x \in Threads : usage'[x] = 0
              /\ \A d \in Cpus : est'[d] = 0 /\ pc'[d] \notin LoadPcs
              /\ \A x \in Threads : "RUNNING" \in flags'[x] => Placed(x)'
  <2>1. UNCHANGED <<usage, est, pc, queue, incoming>> /\ MarkRunning(t, k)
    BY <1>17, Zenon DEF Resume
  <2>2. /\ cur[c] \in Threads /\ resuming[cur[c]] = NoThread /\ resuming'[cur[c]] = t
        /\ \A r \in Threads : r # cur[c] => resuming'[r] = resuming[r]
    BY <1>5, <1>17, Zenon DEF Resume, InKernel
  <2>3. \A x \in Threads : x # t => flags'[x] = flags[x]
    BY <1>1, <2>1, MarkFacts, Zenon
  <2>4. \A x \in Threads : Placed(x) \/ x = t => Placed(x)'
    BY <1>5, <2>1, <2>2, Zenon DEF Placed
  <2>5. \A x \in Threads : "RUNNING" \in flags'[x] => Placed(x)'
    BY <1>4, <2>3, <2>4, Zenon
  <2> QED
    BY <1>4, <2>1, <2>5, Zenon
<1> QED
  BY <1>1, <1>2, <1>6, <1>11, <1>12, <1>13, <1>14, <1>15, <1>16, <1>17, NextCases, Zenon
=============================================================================
