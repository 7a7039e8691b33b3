---------------------------- MODULE ProcessProofs ----------------------------
(***************************************************************************)
(* The inductive invariant of module Process, and the theorems about it:   *)
(* for any number of processes, whatever system calls they use.            *)
(***************************************************************************)
EXTENDS Process, ArrayLemmas

(* The thread of p runs proc_start, the housekeeping thread a clean-up.    *)
Loads(p) == thread[p] \in {"load", "loading"}

HkUses == hk \in {"runtime", "join", "parent", "notify"}

(* Who uses another process holds a share of proc_mtx, which excludes the  *)
(* one that joins a thread with proc_mtx in its hands.                     *)
LocksFit ==
  /\ excl # Nobody => shares = {}
  /\ \A p \in Pids : Loads(p) => p \in shares
  /\ HkUses => Hk \in shares

(* A process that is started has no thread yet, and is started by one.     *)
StartsFit ==
  /\ \A p \in Pids : "PRESTART" \in flags[p] => thread[p] = "none" /\ p # 1
  /\ \A p \in Pids : p >= next => thread[p] = "none"
  /\ \A p \in Pids : Loads(p) =>
       /\ arg[p] \in procs \ {1} /\ thread[arg[p]] = "none"
       /\ "PRESTART" \notin flags[arg[p]]
       /\ \A r \in Pids : Loads(r) /\ arg[r] = arg[p] => r = p

ExitsFit ==
  \A p \in Pids : "EXITED" \in flags[p] => NoThread(p) /\ "RUNNING" \notin flags[p]

(* What waitpid deletes has been reported.                                 *)
ReapsFit ==
  \A p \in Pids : thread[p] = "reap" => arg[p] \in Pids \ {1} /\ reports[arg[p]] # 0

(* Init ends as the last process, and nothing runs after it.               *)
InitGone == 1 \in procs => "RUNNING" \notin flags[1]

InitLast ==
  /\ hk = "join" /\ hkp = 1 => procs = {1}
  /\ hk \in {"parent", "notify", "delete"} /\ hkp = 1 => "EXITED" \in flags[1]
  /\ InitGone => procs \subseteq {1} /\ \A p \in Pids : NoThread(p)
  /\ main = "off" => InitGone

(* Init is nobody's child, and a process number is used once.              *)
TreeFits ==
  /\ \A p \in Pids : 1 \notin kids[p]
  /\ \A p \in Pids : p >= next => parent[p] = NoPid /\ kids[p] = {}
  /\ FamilyTree

(* The thread has made its last system call, proc_exit_self.               *)
Ended(p) == thread[p] \in {"dying", "exited"}

(* Before PROC_STATECHG, the clean-up of p is still to come.               *)
Pending(p) ==
  p \in Range(tasks) \/ (hk \in {"lookup", "runtime", "join", "parent"} /\ hkp = p)

(* A process is cleaned up once, after its thread, and reported once.      *)
CleanFits ==
  /\ IsInjective(tasks)
  /\ hk \notin {"idle", "pass"} => hkp \in Pids \ Range(tasks)
  /\ \A p \in Pids : Pending(p) =>
       p \in procs /\ Ended(p) /\ reports[p] = 0 /\ "STATECHG" \notin flags[p]
  /\ \A p \in Pids : "STATECHG" \in flags[p] => Ended(p) /\ reports[p] = 0
  /\ \A p \in Pids : reports[p] # 0 => Ended(p) /\ reports[p] = 1

IInv ==
  /\ TypeOK /\ LocksFit /\ DeletedIsUnused /\ StartsFit /\ ExitsFit /\ ReapsFit
  /\ InitLast /\ TreeFits /\ (NobodyKilled => CleanFits) /\ CleanUpSurvives
-----------------------------------------------------------------------------
(* The numbers that stand for processes and for the others.                *)
LEMMA Numbers ==
  /\ 1 \in Pids /\ NoPid \notin Pids /\ Hk \notin Pids /\ Main \notin Pids
  /\ Hk # Nobody /\ Hk # Main /\ 0 \in Nat /\ 1 # 0
  /\ \A p \in Pids : p # 0 /\ p \in Nat
  /\ \A n \in 2 .. MaxPid + 1 : n # 1 /\ n >= n /\ ~(1 >= n) /\ 1 .. n - 1 \subseteq Pids /\ n \notin 1 .. n - 1
  /\ \A n \in 2 .. MaxPid + 1 : \A m \in Pids : n <= m =>
       n \in Pids /\ n + 1 \in 2 .. MaxPid + 1 /\ 1 .. (n + 1) - 1 = (1 .. n - 1) \union {n}
  /\ \A n \in 2 .. MaxPid + 1 : \A p \in Pids : p >= n + 1 => p >= n /\ p # n
  /\ \A n \in 2 .. MaxPid + 1 : \A p \in 1 .. n - 1 : ~(p >= n)
  /\ \A n \in Nat : n + 1 \in Nat /\ n + 1 # 0
  /\ 0 + 1 = 1 /\ 0 <= 1 /\ 1 <= 1 /\ 2 \in 2 .. MaxPid + 1 /\ 1 \in 1 .. 2 - 1
  /\ \A p \in Pids : p >= 2 => p # 1
<1>1. MaxPid \in Nat \ {0}
  BY ProcessAssumption, Zenon
<1> QED
  BY <1>1 DEF Pids, NoPid, Hk, Main, Nobody

(* The lists of signals and of tasks.                                      *)
LEMMA ListTypes ==
  ASSUME NEW S, NEW s \in Seq(S), NEW e \in S
  PROVE  /\ Append(s, e) \in Seq(S) /\ <<e>> \o s \in Seq(S) /\ <<>> \in Seq(S)
         /\ s # <<>> => Head(s) \in S /\ Tail(s) \in Seq(S)
<1>1. <<e>> \in Seq(S)
  OBVIOUS
<1> QED
  BY <1>1, AppendFacts, ConcatFacts, TailFacts, EmptyFacts

(* A task is added before those that are there.                            *)
LEMMA Pushed ==
  ASSUME NEW S, NEW s \in Seq(S), NEW e \in S, IsInjective(s), e \notin Range(s)
  PROVE  Range(<<e>> \o s) = {e} \union Range(s) /\ IsInjective(<<e>> \o s)
<1> DEFINE f == <<e>>
<1>1. f \in Seq(S) /\ Range(f) = {e} /\ IsInjective(f)
  BY DEF Range, IsInjective
<1> HIDE DEF f
<1>2. Range(f) \intersect Range(s) = {}
  BY <1>1, Zenon
<1>3. Range(f \o s) = Range(f) \union Range(s) /\ IsInjective(f \o s)
  BY <1>1, <1>2, ConcatSet
<1> QED
  BY <1>1, <1>3, Zenon DEF f

(* The types, when nothing happens.                                        *)
LEMMA TypesStay == TypeOK /\ UNCHANGED vars => TypeOK'
<1> SUFFICES ASSUME TypeOK, UNCHANGED vars PROVE TypeOK'
  BY Zenon
<1>1. /\ UNCHANGED <<conf, procs, next, flags, parent, kids, ignore, sig, reports>>
      /\ UNCHANGED <<thread, arg, mtx, shares, excl, tasks, hk, hkp, main, todo, shutdown>>
  BY Zenon DEF vars, procVars, threadVars, lockVars, hkVars, mainVars
<1> QED
  BY <1>1, SMT DEF TypeOK

(* The thread of p goes on, neither to start nor to reap a process.        *)
Moved(p) ==
  /\ ~NoThread(p) /\ thread'[p] \notin {"none", "load", "loading", "reap"}
  /\ thread[p] = "dying" => thread'[p] = "exited"
  /\ \A r \in Pids : r # p => thread'[r] = thread[r] /\ arg'[r] = arg[r]

OneMoves == UNCHANGED <<thread, arg>> \/ \E p \in Pids : Moved(p)

(* The flags that the life of a process is about.                          *)
SameFlags ==
  \A r \in Pids : /\ "PRESTART" \in flags'[r] <=> "PRESTART" \in flags[r]
                  /\ "EXITED" \in flags'[r] <=> "EXITED" \in flags[r]
                  /\ "RUNNING" \in flags'[r] <=> "RUNNING" \in flags[r]
                  /\ "STATECHG" \in flags'[r] <=> "STATECHG" \in flags[r]

Calm == OneMoves /\ SameFlags /\ UNCHANGED <<procs, next, parent, kids, reports>>

(* The thread goes to another place.                                       *)
LEMMA GotoMoves ==
  ASSUME TypeOK, NEW p \in Pids, NEW x, ~NoThread(p), Goto(p, x),
         x \notin {"none", "load", "loading", "reap"}, thread[p] = "dying" => x = "exited",
         \A r \in Pids : r # p => arg'[r] = arg[r]
  PROVE  Moved(p)
<1>1. thread'[p] = x /\ \A r \in Pids : r # p => thread'[r] = thread[r]
  BY Zenon DEF Goto, TypeOK
<1> QED
  BY <1>1, Zenon DEF Moved

(* A system call ends.                                                     *)
LEMMA ReturnMoves ==
  ASSUME TypeOK, NEW p \in Pids, thread[p] \notin {"none", "exited", "dying"}, Return(p)
  PROVE  Moved(p)
<1>1. \A r \in Pids : r # p => arg'[r] = arg[r]
  BY Zenon DEF Return, TypeOK
<1>2. Goto(p, Resume(p)) /\ Resume(p) \in {"exited", "user"}
  BY Zenon DEF Return, Resume
<1>3. ~NoThread(p)
  BY Zenon DEF NoThread
<1> QED
  BY <1>1, <1>2, <1>3, GotoMoves, Zenon

(* PROC_EXITING and PROC_SIGPEND are none of them.                         *)
LEMMA AddSame ==
  ASSUME TypeOK, NEW q, NEW f \in {"EXITING", "SIGPEND"}, AddFlags(q, {f})
  PROVE  SameFlags
<1>1. \A r \in Pids : flags'[r] = flags[r] \/ flags'[r] = flags[r] \union {f}
  BY Zenon DEF AddFlags, TypeOK
<1>2. f \notin {"PRESTART", "EXITED", "RUNNING", "STATECHG"}
  BY Zenon
<1> QED
  BY <1>1, <1>2, Zenon DEF SameFlags

(* System calls and steps that are calm.                                   *)
PlainCall(p) ==
  \/ Syscall(p) \/ Killed(p) \/ TakeSignal(p) \/ HandleSignal(p) \/ WaitNoChild(p)
  \/ Poll(p) \/ Touch(p) \/ Shutdown(p) \/ ExitMark(p) \/ ExitQueue(p) \/ ThreadExit(p)
  \/ StartFails(p) \/ ReapJoins(p)

(* They change neither the table of processes nor what a process is.       *)
LEMMA PlainCallCalm ==
  ASSUME TypeOK, NEW p \in Pids, PlainCall(p)
  PROVE  Calm
<1> USE DEF procVars, threadVars
<1>1. UNCHANGED <<procs, next, parent, kids, reports>>
  BY Zenon DEF PlainCall, Syscall, Killed, TakeSignal, HandleSignal, WaitNoChild, Poll, Touch,
     Shutdown, ExitMark, ExitQueue, ThreadExit, StartFails, ReapJoins, DeleteJoins
<1>2. SameFlags
  <2>1. CASE ExitMark(p)
    BY <2>1, AddSame, Zenon DEF ExitMark
  <2>2. CASE ReapJoins(p)
    BY <2>2, AddSame, Zenon DEF ReapJoins, DeleteJoins
  <2>3. CASE ~ExitMark(p) /\ ~ReapJoins(p)
    <3>1. UNCHANGED flags
      BY <2>3, Zenon DEF PlainCall, Syscall, Killed, TakeSignal, HandleSignal, WaitNoChild, Poll,
         Touch, Shutdown, ExitQueue, ThreadExit, StartFails
    <3> QED
      BY <3>1, Zenon DEF SameFlags
  <2> QED
    BY <2>1, <2>2, <2>3, Zenon
<1>3. OneMoves
  <2>1. CASE Syscall(p)
    <3>1. ~NoThread(p) /\ thread[p] # "dying" /\ conf.ops[p] \subseteq Calls
      BY <2>1, ProcessAssumption, Zenon DEF Syscall, InUser, NoThread, TypeOK
    <3>2. PICK x \in Calls : Goto(p, x)
      BY <2>1, <3>1, Zenon DEF Syscall
    <3>3. \A r \in Pids : r # p => arg'[r] = arg[r]
      BY <2>1, Zenon DEF Syscall, TypeOK
    <3>4. x \notin {"none", "load", "loading", "reap"}
      BY Zenon DEF Calls
    <3> QED
      BY <3>1, <3>2, <3>3, <3>4, GotoMoves, Zenon DEF OneMoves
  <2>2. CASE \/ Killed(p) \/ TakeSignal(p) \/ HandleSignal(p) \/ ExitMark(p) \/ ExitQueue(p)
             \/ ThreadExit(p)
    <3>1. ~NoThread(p) /\ UNCHANGED arg
      BY <2>2, Zenon DEF Killed, TakeSignal, HandleSignal, ExitMark, ExitQueue, ThreadExit, InUser,
         NoThread
    <3>2. \E x \in {"exited", "signal", "user", "exit", "queue", "dying"} :
             Goto(p, x) /\ (thread[p] = "dying" => x = "exited")
      BY <2>2, Zenon DEF Killed, TakeSignal, HandleSignal, ExitMark, ExitQueue, ThreadExit, InUser,
         Resume
    <3> QED
      BY <3>1, <3>2, GotoMoves, Zenon DEF OneMoves
  <2>3. CASE WaitNoChild(p) \/ Poll(p) \/ Touch(p) \/ Shutdown(p) \/ StartFails(p)
    <3>1. thread[p] \notin {"none", "exited", "dying"} /\ Return(p)
      BY <2>3, Zenon DEF WaitNoChild, Poll, Touch, Shutdown, StartFails
    <3> QED
      BY <3>1, ReturnMoves, Zenon DEF OneMoves
  <2>4. CASE ReapJoins(p)
    BY <2>4, Zenon DEF ReapJoins, DeleteJoins, OneMoves
  <2> QED
    BY <2>1, <2>2, <2>3, <2>4, Zenon DEF PlainCall
<1> QED
  BY <1>1, <1>2, <1>3, Zenon DEF Calm

(* proc_raise_signal_raw changes nothing else.                             *)
LEMMA RaiseCalm ==
  ASSUME TypeOK, NEW p, NEW s, Raise(p, s)
  PROVE  SameFlags /\ UNCHANGED <<procs, next, parent, kids, reports>>
<1>1. UNCHANGED <<procs, next, parent, kids, reports>>
  BY Zenon DEF Raise, procVars
<1>2. UNCHANGED flags \/ AddFlags(p, {"SIGPEND"})
  BY Zenon DEF Raise, procVars
<1> QED
  BY <1>1, <1>2, AddSame, Zenon DEF SameFlags

(* The housekeeping thread, except where it changes a process for good.    *)
PlainHk == \/ HkTake \/ HkPassEnd \/ HkLookup \/ HkPanic \/ HkRuntime \/ HkNotify
           \/ HkDeleteJoins

(* Its other steps leave the table and the threads as they are.            *)
LEMMA PlainHkCalm ==
  ASSUME TypeOK, PlainHk
  PROVE  Calm /\ UNCHANGED <<thread, arg>>
<1> USE DEF procVars, threadVars
<1>1. UNCHANGED <<thread, arg>>
  BY Zenon DEF PlainHk, HkTake, HkPassEnd, HkLookup, HkPanic, HkRuntime, HkNotify, HkDeleteJoins,
     DeleteJoins
<1>2. SameFlags /\ UNCHANGED <<procs, next, parent, kids, reports>>
  <2>1. CASE HkTake \/ HkPassEnd \/ HkLookup \/ HkPanic
    BY <2>1, Zenon DEF HkTake, HkPassEnd, HkLookup, HkPanic, SameFlags
  <2>2. CASE HkRuntime
    <3>1. UNCHANGED <<procs, next, parent, kids, reports>>
      BY <2>2, Zenon DEF HkRuntime
    <3>2. UNCHANGED flags \/ AddFlags(hkp, {"EXITING"})
      BY <2>2, Zenon DEF HkRuntime
    <3> QED
      BY <3>1, <3>2, AddSame, Zenon DEF SameFlags
  <2>3. CASE HkNotify
    BY <2>3, RaiseCalm, Zenon DEF HkNotify
  <2>4. CASE HkDeleteJoins
    BY <2>4, AddSame, Zenon DEF HkDeleteJoins, DeleteJoins
  <2> QED
    BY <2>1, <2>2, <2>3, <2>4, Zenon DEF PlainHk
<1> QED
  BY <1>1, <1>2, Zenon DEF Calm, OneMoves

(* userland_shutdown only raises signals.                                  *)
LEMMA MainCalm ==
  ASSUME TypeOK, MainStep
  PROVE  Calm /\ UNCHANGED <<thread, arg>>
<1> USE DEF procVars, threadVars
<1>1. UNCHANGED <<thread, arg>>
  BY Zenon DEF MainStep, MainStart, MainWarn, MainHup, MainSignalled, MainWait, MainDoom, MainKill,
     MainQueue, MainInit, MainInitHup, MainWaitInit, Survey, SignalAll
<1>2. SameFlags /\ UNCHANGED <<procs, next, parent, kids, reports>>
  <2>1. CASE \/ MainStart \/ MainWarn \/ MainSignalled \/ MainWait \/ MainDoom \/ MainQueue
             \/ MainInit \/ MainWaitInit
    BY <2>1, Zenon DEF MainStart, MainWarn, MainSignalled, MainWait, MainDoom, MainQueue, MainInit,
       MainWaitInit, Survey, SignalAll, SameFlags
  <2>2. CASE MainHup
    BY <2>2, RaiseCalm, Zenon DEF MainHup
  <2>3. CASE MainInitHup
    <3>1. Raise(1, "HUP") \/ UNCHANGED procVars
      BY <2>3, Zenon DEF MainInitHup
    <3> QED
      BY <3>1, RaiseCalm, Zenon DEF SameFlags
  <2>4. CASE MainKill
    BY <2>4, AddSame, Zenon DEF MainKill
  <2> QED
    BY <2>1, <2>2, <2>3, <2>4, Zenon DEF MainStep
<1> QED
  BY <1>1, <1>2, Zenon DEF Calm, OneMoves

-----------------------------------------------------------------------------
(* The steps that are not calm, by what they do.                           *)
Creates(p) ==
  /\ Moved(p) /\ shares = {} /\ next <= conf.maxPid
  /\ procs' = procs \union {next} /\ next' = next + 1
  /\ flags' = [flags EXCEPT ![next] = {"PRESTART"}]
  /\ parent' = [parent EXCEPT ![next] = p]
  /\ kids' = [kids EXCEPT ![p] = @ \union {next}]
  /\ UNCHANGED reports

(* proc_start: the claim, then the lock, then the new thread.              *)
ThreadTo(p, at) == thread'[p] = at /\ \A r \in Pids : r # p => thread'[r] = thread[r]

Claims(p) ==
  /\ thread[p] = "start" /\ Claimed(p) /\ ThreadTo(p, "load") /\ p \in shares'
  /\ flags' = [flags EXCEPT ![arg[p]] = @ \ {"PRESTART"}]
  /\ UNCHANGED <<arg, procs, next, parent, kids, reports>>

Fetches(p) ==
  /\ thread[p] = "load" /\ ThreadTo(p, "loading")
  /\ UNCHANGED <<arg, flags, procs, next, parent, kids, reports>>

Starts(p) ==
  /\ thread[p] = "loading"
  /\ thread' = [thread EXCEPT ![arg[p]] = "user", ![p] = Resume(p)]
  /\ \A r \in Pids : r # p => arg'[r] = arg[r]
  /\ flags' = [flags EXCEPT ![arg[p]] = {"RUNNING"}]
  /\ UNCHANGED <<procs, next, parent, kids, reports>>

(* proc_delete_impl: who deletes q, and what is left.                      *)
Deletes(q) ==
  /\ OneMoves /\ shares = {} /\ NoThread(q) /\ q \in procs /\ mtx'[q] = Nobody
  /\ procs' = procs \ {q}
  /\ kids' = Unlisted(IF "EXITED" \in flags[q] THEN kids ELSE Adopt(q), q)
  /\ \/ "PRESTART" \in flags[q]
     \/ \E p \in Pids : thread[p] = "reap" /\ arg[p] = q
     \/ hk = "delete" /\ hkp = q /\ hk' = "pass"
  /\ UNCHANGED <<next, flags, parent, reports>>

(* waitpid: the change of state of q is reported.                          *)
Reports(p, q) ==
  /\ thread[p] = "wait" /\ q \in kids[p] /\ "STATECHG" \in flags[q]
  /\ \/ Moved(p)
     \/ ThreadTo(p, "reap") /\ arg'[p] = q /\ \A r \in Pids : r # p => arg'[r] = arg[r]
  /\ flags' = [flags EXCEPT ![q] = @ \ {"STATECHG"}]
  /\ reports' = [reports EXCEPT ![q] = @ + 1]
  /\ UNCHANGED <<procs, next, parent, kids>>

(* Creation fails, or creates the next process.                            *)
LEMMA CreateCases ==
  ASSUME TypeOK, NEW p \in Pids, Create(p)
  PROVE  Calm \/ Creates(p)
<1>1. Moved(p)
  BY ReturnMoves, Zenon DEF Create
<1>2. CASE UNCHANGED procVars
  BY <1>1, <1>2, Zenon DEF Calm, OneMoves, SameFlags, procVars
<1>3. CASE ~UNCHANGED procVars
  BY <1>1, <1>3, Zenon DEF Create, Creates, ExclusiveProcs, NextPid
<1> QED
  BY <1>2, <1>3, Zenon

(* A process that is not pre-start is not started.                         *)
LEMMA StartCases ==
  ASSUME TypeOK, NEW p \in Pids, StartClaim(p)
  PROVE  Calm \/ Claims(p)
<1>1. CASE Claimed(p)
  <2>1. /\ flags' = [flags EXCEPT ![arg[p]] = @ \ {"PRESTART"}] /\ shares' = shares \union {p}
        /\ Goto(p, "load") /\ thread[p] = "start"
        /\ UNCHANGED <<arg, procs, next, parent, kids, reports>>
    BY <1>1, Zenon DEF StartClaim, StartHolds
  <2>2. ThreadTo(p, "load")
    BY <2>1, Zenon DEF Goto, ThreadTo, TypeOK
  <2> QED
    BY <1>1, <2>1, <2>2, Zenon DEF Claims
<1>2. CASE ~Claimed(p)
  <2>1. Moved(p)
    BY <1>2, ReturnMoves, Zenon DEF StartClaim
  <2> QED
    BY <1>2, <2>1, Zenon DEF StartClaim, Calm, OneMoves, SameFlags
<1> QED
  BY <1>1, <1>2, Zenon

(* The lock and the new thread.                                            *)
LEMMA LoadCases ==
  ASSUME TypeOK, NEW p \in Pids
  PROVE  (StartLock(p) => Fetches(p)) /\ (StartDone(p) => Starts(p))
<1>1. ASSUME StartLock(p) PROVE Fetches(p)
  <2>1. ThreadTo(p, "loading")
    BY <1>1, Zenon DEF StartLock, Goto, ThreadTo, TypeOK
  <2> QED
    BY <1>1, <2>1, Zenon DEF StartLock, Fetches, procVars
<1>2. ASSUME StartDone(p) PROVE Starts(p)
  <2>1. \A r \in Pids : r # p => arg'[r] = arg[r]
    BY <1>2, Zenon DEF StartDone, TypeOK
  <2> QED
    BY <1>2, <2>1, Zenon DEF StartDone, Starts
<1> QED
  BY <1>1, <1>2, Zenon

(* A deletion of q; of a process that is gone it deletes nothing.          *)
LEMMA DeleteCases ==
  ASSUME TypeOK, NEW a, NEW q, Delete(a, q), OneMoves,
         \/ "PRESTART" \in flags[q]
         \/ \E p \in Pids : thread[p] = "reap" /\ arg[p] = q
         \/ hk = "delete" /\ hkp = q /\ hk' = "pass"
  PROVE  Calm \/ Deletes(q)
<1>1. CASE q \in procs
  <2>1. mtx'[q] = Nobody
    BY <1>1, Numbers, Zenon DEF Delete, TypeOK
  <2> QED
    BY <1>1, <2>1, Zenon DEF Delete, Deletes
<1>2. CASE q \notin procs
  <2>1. procs \ {q} = procs
    BY <1>2, Zenon
  <2> QED
    BY <1>2, <2>1, Zenon DEF Delete, Calm, SameFlags
<1> QED
  BY <1>1, <1>2, Zenon

(* pdestroy, waitpid and the clean-up.                                     *)
LEMMA DestroyCases ==
  ASSUME TypeOK
  PROVE  /\ \A p \in Pids : Destroy(p) \/ Reap(p) => Calm \/ Deletes(arg[p])
         /\ HkDelete => Calm \/ Deletes(hkp)
<1>1. ASSUME NEW p \in Pids, Destroy(p) PROVE Calm \/ Deletes(arg[p])
  <2>1. Moved(p)
    BY <1>1, ReturnMoves, Zenon DEF Destroy
  <2>2. CASE Destroyable(arg[p])
    <3>1. Delete(p, arg[p]) /\ "PRESTART" \in flags[arg[p]]
      BY <1>1, <2>2, Zenon DEF Destroy, Destroyable
    <3> QED
      BY <2>1, <3>1, DeleteCases, Zenon DEF OneMoves
  <2>3. CASE ~Destroyable(arg[p])
    BY <1>1, <2>1, <2>3, Zenon DEF Destroy, Calm, OneMoves, SameFlags, procVars
  <2> QED
    BY <2>2, <2>3, Zenon
<1>2. ASSUME NEW p \in Pids, Reap(p) PROVE Calm \/ Deletes(arg[p])
  <2>1. Moved(p) /\ Delete(p, arg[p]) /\ thread[p] = "reap"
    BY <1>2, ReturnMoves, Zenon DEF Reap
  <2> QED
    BY <2>1, DeleteCases, Zenon DEF OneMoves
<1>3. ASSUME HkDelete PROVE Calm \/ Deletes(hkp)
  <2>1. Delete(Hk, hkp) /\ OneMoves /\ hk = "delete" /\ hk' = "pass"
    BY <1>3, Zenon DEF HkDelete, HkGoto, OneMoves, threadVars
  <2> QED
    BY <2>1, DeleteCases, Zenon
<1> QED
  BY <1>1, <1>2, <1>3, Zenon

(* waitpid takes the report of one child.                                  *)
LEMMA WaitCases ==
  ASSUME TypeOK, NEW p \in Pids, WaitClaim(p)
  PROVE  \E q \in Pids : Reports(p, q)
<1>1. PICK q \in kids[p], nowait \in BOOLEAN :
       /\ "STATECHG" \in flags[q] /\ Claim(q)
       /\ reports' = [reports EXCEPT ![q] = @ + 1]
       /\ IF "EXITED" \in flags[q] /\ ~nowait
          THEN Goto(p, "reap") /\ arg' = [arg EXCEPT ![p] = q]
          ELSE Return(p)
  BY Zenon DEF WaitClaim
<1>2. thread[p] = "wait" /\ UNCHANGED <<procs, next, parent, kids>> /\ q \in Pids
  BY Zenon DEF WaitClaim, TypeOK
<1>3. \/ Moved(p)
      \/ ThreadTo(p, "reap") /\ arg'[p] = q /\ \A r \in Pids : r # p => arg'[r] = arg[r]
  <2>1. CASE Return(p)
    BY <1>2, <2>1, ReturnMoves, Zenon
  <2>2. CASE Goto(p, "reap") /\ arg' = [arg EXCEPT ![p] = q]
    <3>1. ThreadTo(p, "reap")
      BY <2>2, Zenon DEF Goto, ThreadTo, TypeOK
    <3>2. arg'[p] = q /\ \A r \in Pids : r # p => arg'[r] = arg[r]
      BY <2>2, Zenon DEF TypeOK
    <3> QED
      BY <3>1, <3>2, Zenon
  <2> QED
    BY <1>1, <2>1, <2>2, Zenon
<1> QED
  BY <1>1, <1>2, <1>3, Zenon DEF Reports, Claim

(* Every step is calm or one of them.                                      *)
LEMMA NextCases ==
  ASSUME TypeOK, Next
  PROVE  \/ Calm \/ HkJoin \/ HkParent
         \/ \E p \in Pids : Creates(p) \/ Claims(p) \/ Fetches(p) \/ Starts(p)
         \/ \E q \in Pids : Deletes(q)
         \/ \E p, q \in Pids : Reports(p, q)
<1>1. procs \subseteq Pids
  BY Numbers, Zenon DEF TypeOK
<1>2. ASSUME NEW p \in Pids, Syscall(p) \/ TakeSignal(p) \/ Step(p)
      PROVE  \/ Calm \/ Creates(p) \/ Claims(p) \/ Fetches(p) \/ Starts(p)
             \/ \E q \in Pids : Deletes(q) \/ Reports(p, q)
  <2>1. CASE PlainCall(p)
    BY <2>1, PlainCallCalm, Zenon
  <2>2. CASE Create(p) \/ StartClaim(p) \/ StartLock(p) \/ StartDone(p) \/ WaitClaim(p)
    BY <2>2, CreateCases, StartCases, LoadCases, WaitCases, Zenon
  <2>3. CASE Destroy(p) \/ Reap(p)
    BY <1>1, <2>3, DestroyCases, Zenon DEF Deletes
  <2> QED
    BY <1>2, <2>1, <2>2, <2>3, Zenon DEF Step, PlainCall
<1>3. ASSUME HkStep PROVE Calm \/ HkJoin \/ HkParent \/ \E q \in Pids : Deletes(q)
  <2>1. CASE PlainHk
    BY <2>1, PlainHkCalm, Zenon
  <2>2. CASE HkDelete
    BY <1>1, <2>2, DestroyCases, Zenon DEF Deletes
  <2> QED
    BY <1>3, <2>1, <2>2, Zenon DEF HkStep, PlainHk
<1> QED
  BY <1>2, <1>3, MainCalm, Zenon DEF Next

(* What a move does to the threads.                                        *)
LEMMA MoveFacts ==
  ASSUME OneMoves, NEW r \in Pids
  PROVE  /\ thread'[r] = "none" <=> thread[r] = "none"
         /\ NoThread(r) => NoThread(r)' /\ thread'[r] = thread[r]
         /\ Ended(r) => Ended(r)'
         /\ Loads(r)' \/ thread'[r] = "reap" => thread'[r] = thread[r] /\ arg'[r] = arg[r]
<1>1. CASE UNCHANGED <<thread, arg>>
  BY <1>1, Zenon DEF NoThread, Ended, Loads
<1>2. ASSUME NEW p \in Pids, Moved(p), r = p
      PROVE  /\ ~NoThread(r) /\ thread[r] # "none" /\ thread'[r] # "none" /\ (Ended(r) => Ended(r)')
             /\ ~Loads(r)' /\ thread'[r] # "reap"
  BY <1>2, Zenon DEF Moved, NoThread, Ended, Loads
<1>3. ASSUME NEW p \in Pids, Moved(p), r # p PROVE thread'[r] = thread[r] /\ arg'[r] = arg[r]
  BY <1>3, Zenon DEF Moved
<1>4. thread'[r] = thread[r] => /\ NoThread(r) <=> NoThread(r)'
                                /\ Ended(r) => Ended(r)'
  BY Zenon DEF NoThread, Ended
<1> QED
  BY <1>1, <1>2, <1>3, <1>4, Zenon DEF OneMoves

(* proc_delete_runtime_raw, and the parent's notification, in the clean-up. *)
LEMMA HkFacts ==
  ASSUME TypeOK, HkJoin \/ HkParent
  PROVE  /\ UNCHANGED <<thread, arg, procs, next, parent, reports>>
         /\ \A r \in Pids : r # hkp => flags'[r] = flags[r]
         /\ \A r \in Pids : /\ "PRESTART" \in flags'[r] => "PRESTART" \in flags[r]
                            /\ "RUNNING" \in flags'[r] => "RUNNING" \in flags[r]
         /\ HkJoin => \A r \in Pids : /\ "STATECHG" \in flags'[r] => "STATECHG" \in flags[r]
                                      /\ r = hkp => "EXITED" \in flags'[r] /\ "RUNNING" \notin flags'[r]
         /\ HkParent => UNCHANGED kids /\ \A r \in Pids :
                          /\ "EXITED" \in flags'[r] <=> "EXITED" \in flags[r]
                          /\ "RUNNING" \in flags'[r] <=> "RUNNING" \in flags[r]
<1>1. UNCHANGED <<thread, arg, procs, next, parent, reports>>
  BY Zenon DEF HkJoin, HkParent, threadVars
<1>2. CASE HkJoin
  <2>1. hk = "join" /\ flags' = [flags EXCEPT ![hkp] = (@ \union {"EXITED"}) \ {"EXITING", "RUNNING"}]
    BY <1>2, Zenon DEF HkJoin
  <2>2. \A r \in Pids : /\ r # hkp => flags'[r] = flags[r]
                        /\ r = hkp => flags'[r] = (flags[r] \union {"EXITED"}) \ {"EXITING", "RUNNING"}
    BY <2>1, Zenon DEF TypeOK
  <2>3. ~HkParent
    BY <2>1, Zenon DEF HkParent
  <2>4. ASSUME NEW r \in Pids
        PROVE  /\ "PRESTART" \in flags'[r] => "PRESTART" \in flags[r]
               /\ "RUNNING" \in flags'[r] => "RUNNING" \in flags[r]
               /\ "STATECHG" \in flags'[r] => "STATECHG" \in flags[r]
    <3>1. \A f \in {"PRESTART", "RUNNING", "STATECHG"} : f # "EXITED"
      BY Zenon
    <3>2. \A f \in {"PRESTART", "RUNNING", "STATECHG"} : f \in flags'[r] => f \in flags[r]
      BY <2>2, <3>1, Zenon
    <3> QED
      BY <3>2, Zenon
  <2>5. \A r \in Pids : r = hkp => "EXITED" \in flags'[r] /\ "RUNNING" \notin flags'[r]
    BY <2>2, Zenon
  <2> QED
    BY <1>1, <2>2, <2>3, <2>4, <2>5, Zenon
<1>3. CASE HkParent
  <2>1. UNCHANGED kids /\ (UNCHANGED flags \/ AddFlags(hkp, {"STATECHG"})) /\ ~HkJoin
    BY <1>3, Zenon DEF HkParent, HkJoin
  <2>2. \A r \in Pids : flags'[r] = flags[r] \/ (r = hkp /\ flags'[r] = flags[r] \union {"STATECHG"})
    BY <2>1, Zenon DEF AddFlags, TypeOK
  <2>3. ASSUME NEW r \in Pids
        PROVE  /\ "PRESTART" \in flags'[r] => "PRESTART" \in flags[r]
               /\ "EXITED" \in flags'[r] <=> "EXITED" \in flags[r]
               /\ "RUNNING" \in flags'[r] <=> "RUNNING" \in flags[r]
    <3>1. \A f \in {"PRESTART", "RUNNING", "EXITED"} : f # "STATECHG"
      BY Zenon
    <3>2. \A f \in {"PRESTART", "RUNNING", "EXITED"} : f \in flags'[r] <=> f \in flags[r]
      BY <2>2, <3>1, Zenon
    <3> QED
      BY <3>2, Zenon
  <2> QED
    BY <1>1, <2>1, <2>2, <2>3, Zenon
<1> QED
  BY <1>2, <1>3, Zenon

(* StartsFit, for every step.                                              *)
LEMMA StartsHold == IInv /\ Next => StartsFit'
<1> SUFFICES ASSUME IInv, Next PROVE StartsFit'
  BY Zenon
<1>1. /\ TypeOK /\ StartsFit /\ DeletedIsUnused
      /\ next \in 2 .. MaxPid + 1 /\ procs \subseteq 1 .. next - 1 /\ procs \subseteq Pids
  BY Numbers, Zenon DEF IInv, TypeOK
<1>2. flags \in [Pids -> SUBSET Flags] /\ thread \in [Pids -> Places] /\ \A p \in procs : ~(p >= next)
  BY <1>1, Numbers, Zenon DEF TypeOK
<1>3. ASSUME \A r \in Pids :
               /\ thread'[r] = "none" <=> thread[r] = "none"
               /\ Loads(r)' => Loads(r) /\ arg'[r] = arg[r] /\ arg[r] \in procs'
               /\ "PRESTART" \in flags'[r] => "PRESTART" \in flags[r],
             UNCHANGED next
      PROVE  StartsFit'
  <2>1. \A p \in Pids : "PRESTART" \in flags'[p] => thread'[p] = "none" /\ p # 1
    BY <1>1, <1>3, Zenon DEF StartsFit
  <2>2. \A p \in Pids : p >= next' => thread'[p] = "none"
    BY <1>1, <1>3, Zenon DEF StartsFit
  <2>3. ASSUME NEW p \in Pids, Loads(p)'
        PROVE  /\ arg'[p] \in procs' \ {1} /\ thread'[arg'[p]] = "none"
               /\ "PRESTART" \notin flags'[arg'[p]]
               /\ \A r \in Pids : Loads(r)' /\ arg'[r] = arg'[p] => r = p
    <3>1. Loads(p) /\ arg'[p] = arg[p] /\ arg[p] \in Pids
      BY <1>1, <1>3, <2>3, Zenon DEF StartsFit
    <3>2. /\ arg[p] \in procs \ {1} /\ thread[arg[p]] = "none" /\ "PRESTART" \notin flags[arg[p]]
          /\ \A r \in Pids : Loads(r) /\ arg[r] = arg[p] => r = p
      BY <1>1, <3>1, Zenon DEF StartsFit
    <3>3. thread'[arg[p]] = "none" /\ "PRESTART" \notin flags'[arg[p]] /\ arg[p] \in procs'
      BY <1>3, <2>3, <3>1, <3>2, Zenon
    <3>4. \A r \in Pids : Loads(r)' => Loads(r) /\ arg'[r] = arg[r]
      BY <1>3, Zenon
    <3> QED
      BY <3>1, <3>2, <3>3, <3>4, Zenon
  <2> QED
    BY <2>1, <2>2, <2>3, Zenon DEF StartsFit
<1>4. \A r \in Pids : Loads(r) => arg[r] \in procs /\ shares # {}
  BY Zenon DEF IInv, StartsFit, LocksFit
<1>5. CASE Calm
  <2>1. \A r \in Pids : /\ thread'[r] = "none" <=> thread[r] = "none"
                        /\ Loads(r)' => Loads(r) /\ arg'[r] = arg[r]
    BY <1>5, MoveFacts, Zenon DEF Calm, Loads
  <2> QED
    BY <1>3, <1>4, <1>5, <2>1, Zenon DEF Calm, SameFlags
<1>6. CASE HkJoin \/ HkParent
  BY <1>1, <1>3, <1>4, <1>6, HkFacts, Zenon DEF Loads
<1>7. ASSUME NEW q \in Pids, Deletes(q) PROVE StartsFit'
  <2>1. \A r \in Pids : /\ thread'[r] = "none" <=> thread[r] = "none"
                        /\ Loads(r)' => Loads(r) /\ arg'[r] = arg[r]
    BY <1>7, MoveFacts, Zenon DEF Deletes, Loads
  <2>2. shares = {} /\ UNCHANGED <<next, flags>>
    BY <1>7, Zenon DEF Deletes
  <2> QED
    BY <1>3, <1>4, <2>1, <2>2, Zenon
<1>8. ASSUME NEW p \in Pids, NEW q \in Pids, Reports(p, q) PROVE StartsFit'
  <2>1. /\ UNCHANGED <<procs, next>> /\ thread[p] = "wait"
        /\ \A r \in Pids : "PRESTART" \in flags'[r] => "PRESTART" \in flags[r]
    BY <1>2, <1>8, Zenon DEF Reports
  <2>2. CASE Moved(p)
    <3>1. \A r \in Pids : /\ thread'[r] = "none" <=> thread[r] = "none"
                          /\ Loads(r)' => Loads(r) /\ arg'[r] = arg[r]
      BY <2>2, MoveFacts, Zenon DEF OneMoves, Loads
    <3> QED
      BY <1>3, <1>4, <2>1, <3>1, Zenon
  <2>3. CASE ~Moved(p)
    <3>1. ThreadTo(p, "reap") /\ \A r \in Pids : r # p => arg'[r] = arg[r]
      BY <1>8, <2>3, Zenon DEF Reports
    <3>2. ASSUME NEW r \in Pids
          PROVE  /\ thread'[r] = "none" <=> thread[r] = "none"
                 /\ Loads(r)' => Loads(r) /\ arg'[r] = arg[r]
      BY <2>1, <3>1, Zenon DEF ThreadTo, Loads
    <3> QED
      BY <1>3, <1>4, <2>1, <3>2, Zenon
  <2> QED
    BY <2>2, <2>3, Zenon
<1>9. ASSUME NEW p \in Pids, Fetches(p) PROVE StartsFit'
  <2>1. UNCHANGED <<arg, procs, next, flags>> /\ thread[p] = "load" /\ ThreadTo(p, "loading")
    BY <1>9, Zenon DEF Fetches
  <2>2. ASSUME NEW r \in Pids
        PROVE  /\ thread'[r] = "none" <=> thread[r] = "none"
               /\ Loads(r)' => Loads(r) /\ arg'[r] = arg[r]
    BY <2>1, Zenon DEF ThreadTo, Loads
  <2> QED
    BY <1>3, <1>4, <2>1, <2>2, Zenon
<1>10. ASSUME NEW p \in Pids, Creates(p) PROVE StartsFit'
  <2>1. /\ next \in Pids /\ next # 1 /\ thread[next] = "none" /\ next' = next + 1
        /\ procs' = procs \union {next} /\ next \notin procs
    <3>1. conf.maxPid \in Pids /\ next <= conf.maxPid /\ next >= next
      BY <1>1, <1>10, ProcessAssumption, Numbers, Zenon DEF Creates, TypeOK
    <3>2. next \in Pids
      BY <1>1, <3>1, Numbers, Zenon
    <3> QED
      BY <1>1, <1>2, <1>10, <3>1, <3>2, Numbers, Zenon DEF Creates, StartsFit
  <2>2. ASSUME NEW r \in Pids
        PROVE  /\ thread'[r] = "none" <=> thread[r] = "none"
               /\ Loads(r)' => Loads(r) /\ arg'[r] = arg[r]
    BY <1>10, MoveFacts, Zenon DEF Creates, OneMoves, Loads
  <2>3. \A r \in Pids : r # next => flags'[r] = flags[r]
    BY <1>2, <1>10, Zenon DEF Creates
  <2>4. \A r \in Pids : "PRESTART" \in flags'[r] => thread'[r] = "none" /\ r # 1
    BY <1>1, <2>1, <2>2, <2>3, Zenon DEF StartsFit
  <2>5. \A r \in Pids : r >= next' => thread'[r] = "none"
    <3>1. \A r \in Pids : r >= next' => r >= next
      BY <1>1, <2>1, Numbers, Zenon
    <3> QED
      BY <1>1, <2>2, <3>1, Zenon DEF StartsFit
  <2>6. ASSUME NEW r \in Pids, Loads(r)'
        PROVE  /\ arg'[r] \in procs' \ {1} /\ thread'[arg'[r]] = "none"
               /\ "PRESTART" \notin flags'[arg'[r]]
               /\ \A s \in Pids : Loads(s)' /\ arg'[s] = arg'[r] => s = r
    <3>1. Loads(r) /\ arg'[r] = arg[r]
      BY <2>2, <2>6, Zenon
    <3>2. /\ arg[r] \in procs \ {1} /\ thread[arg[r]] = "none" /\ "PRESTART" \notin flags[arg[r]]
          /\ \A s \in Pids : Loads(s) /\ arg[s] = arg[r] => s = r
      BY <1>1, <3>1, Zenon DEF StartsFit
    <3>3. arg[r] \in Pids /\ arg[r] # next
      BY <1>1, <2>1, <3>2, Zenon
    <3> QED
      BY <2>1, <2>2, <2>3, <3>1, <3>2, <3>3, Zenon
  <2> QED
    BY <2>4, <2>5, <2>6, Zenon DEF StartsFit
<1>11. ASSUME NEW p \in Pids, Claims(p) PROVE StartsFit'
  <2> DEFINE q == arg[p]
  <2>1. /\ thread[p] = "start" /\ q \in procs /\ "PRESTART" \in flags[q] /\ UNCHANGED <<arg, procs, next>>
        /\ thread'[p] = "load" /\ \A r \in Pids : r # p => thread'[r] = thread[r]
    BY <1>11, Zenon DEF Claims, Claimed, ThreadTo
  <2>2. "PRESTART" \notin flags'[q] /\ \A r \in Pids : r # q => flags'[r] = flags[r]
    BY <1>1, <1>2, <1>11, <2>1, Zenon DEF Claims
  <2>3. thread[q] = "none" /\ q \in Pids \ {1}
    BY <1>1, <2>1, Zenon DEF StartsFit
  <2> HIDE DEF q
  <2>4. \A r \in Pids : /\ thread'[r] = "none" <=> thread[r] = "none"
                        /\ Loads(r)' => Loads(r) \/ r = p
    BY <2>1, Zenon DEF Loads
  <2>5. \A r \in Pids : "PRESTART" \in flags'[r] => thread'[r] = "none" /\ r # 1
    BY <1>1, <2>2, <2>4, Zenon DEF StartsFit
  <2>6. \A r \in Pids : r >= next' => thread'[r] = "none"
    BY <1>1, <2>1, <2>4, Zenon DEF StartsFit
  <2>7. ASSUME NEW r \in Pids, Loads(r)
        PROVE  /\ arg[r] \in procs \ {1} /\ arg[r] \in Pids /\ thread[arg[r]] = "none" /\ arg[r] # q
               /\ "PRESTART" \notin flags[arg[r]]
               /\ \A s \in Pids : Loads(s) /\ arg[s] = arg[r] => s = r
    BY <1>1, <2>1, <2>7, Zenon DEF StartsFit
  <2>8. ASSUME NEW r \in Pids, Loads(r)', r # p
        PROVE  /\ arg'[r] \in procs' \ {1} /\ thread'[arg'[r]] = "none" /\ arg'[r] # arg'[p]
               /\ "PRESTART" \notin flags'[arg'[r]]
               /\ \A s \in Pids : Loads(s)' /\ arg'[s] = arg'[r] => s = r
    <3>1. Loads(r)
      BY <2>4, <2>8, Zenon
    <3> QED
      BY <2>1, <2>2, <2>4, <2>7, <3>1, Zenon DEF q
  <2>9. /\ arg'[p] \in procs' \ {1} /\ thread'[arg'[p]] = "none"
        /\ "PRESTART" \notin flags'[arg'[p]]
    BY <2>1, <2>2, <2>3, <2>4, Zenon DEF q
  <2> QED
    BY <2>5, <2>6, <2>8, <2>9, Zenon DEF StartsFit
<1>12. ASSUME NEW p \in Pids, Starts(p) PROVE StartsFit'
  <2> DEFINE q == arg[p]
  <2>1. /\ Loads(p) /\ thread[p] # "none" /\ UNCHANGED <<procs, next>>
        /\ \A r \in Pids : r # p => arg'[r] = arg[r]
    BY <1>12, Zenon DEF Starts, Loads
  <2>2. /\ q \in procs \ {1} /\ q \in Pids /\ thread[q] = "none" /\ q # p
        /\ \A r \in Pids : Loads(r) /\ arg[r] = q => r = p
    BY <1>1, <2>1, Zenon DEF StartsFit
  <2>3. /\ thread'[p] \in {"exited", "user"} /\ thread'[q] = "user"
        /\ \A r \in Pids : r # p /\ r # q => thread'[r] = thread[r]
    BY <1>2, <1>12, <2>2, Zenon DEF Starts, Resume
  <2>4. flags'[q] = {"RUNNING"} /\ \A r \in Pids : r # q => flags'[r] = flags[r]
    BY <1>2, <1>12, <2>2, Zenon DEF Starts
  <2> HIDE DEF q
  <2>5. \A r \in Pids : "PRESTART" \in flags'[r] => thread'[r] = "none" /\ r # 1
    <3>3. "PRESTART" \notin flags'[q]
      BY <2>4, Zenon
    <3>1. \A r \in Pids : "PRESTART" \in flags'[r] => r # q /\ "PRESTART" \in flags[r]
      BY <2>4, <3>3, Zenon
    <3>2. \A r \in Pids : "PRESTART" \in flags[r] => thread[r] = "none" /\ r # 1
      BY <1>1, Zenon DEF StartsFit
    <3> QED
      BY <2>1, <2>3, <3>1, <3>2, Zenon
  <2>6. \A r \in Pids : r >= next' => thread'[r] = "none"
    BY <1>1, <1>2, <2>1, <2>2, <2>3, Zenon DEF StartsFit
  <2>7. \A r \in Pids : Loads(r)' => Loads(r) /\ r # p /\ r # q /\ arg'[r] = arg[r]
    BY <2>1, <2>3, Zenon DEF Loads
  <2>8. ASSUME NEW r \in Pids, Loads(r)'
        PROVE  /\ arg'[r] \in procs' \ {1} /\ thread'[arg'[r]] = "none"
               /\ "PRESTART" \notin flags'[arg'[r]]
               /\ \A s \in Pids : Loads(s)' /\ arg'[s] = arg'[r] => s = r
    <3>1. Loads(r) /\ r # p /\ arg'[r] = arg[r]
      BY <2>7, <2>8, Zenon
    <3>2. /\ arg[r] \in procs \ {1} /\ arg[r] \in Pids /\ thread[arg[r]] = "none" /\ arg[r] # q
          /\ "PRESTART" \notin flags[arg[r]] /\ arg[r] # p
          /\ \A s \in Pids : Loads(s) /\ arg[s] = arg[r] => s = r
      BY <1>1, <2>1, <2>2, <3>1, Zenon DEF StartsFit
    <3> QED
      BY <2>1, <2>3, <2>4, <2>7, <3>1, <3>2, Zenon
  <2> QED
    BY <2>5, <2>6, <2>8, Zenon DEF StartsFit
<1> QED
  BY <1>1, <1>5, <1>6, <1>7, <1>8, <1>9, <1>10, <1>11, <1>12, NextCases, Zenon

(* ExitsFit, for every step.                                               *)
LEMMA ExitsHold == IInv /\ Next => ExitsFit'
<1> SUFFICES ASSUME IInv, Next PROVE ExitsFit'
  BY Zenon
<1>1. /\ TypeOK /\ ExitsFit /\ flags \in [Pids -> SUBSET Flags] /\ thread \in [Pids -> Places]
  BY Zenon DEF IInv, TypeOK
<1>2. ASSUME \A r \in Pids :
               /\ "EXITED" \in flags'[r] => "EXITED" \in flags[r]
               /\ "RUNNING" \in flags'[r] => "RUNNING" \in flags[r]
               /\ "EXITED" \in flags'[r] /\ NoThread(r) => NoThread(r)'
      PROVE  ExitsFit'
  BY <1>1, <1>2, Zenon DEF ExitsFit
<1>3. ASSUME NEW p \in Pids, NEW x, ~NoThread(p), ThreadTo(p, x)
      PROVE  \A r \in Pids : NoThread(r) => NoThread(r)'
  BY <1>3, Zenon DEF ThreadTo, NoThread
<1>4. CASE Calm
  <2>1. \A r \in Pids : NoThread(r) => NoThread(r)'
    BY <1>4, MoveFacts, Zenon DEF Calm
  <2> QED
    BY <1>2, <1>4, <2>1, Zenon DEF Calm, SameFlags
<1>5. CASE HkJoin
  <2>1. NoThread(hkp) /\ \A r \in Pids : NoThread(r)' <=> NoThread(r)
    BY <1>1, <1>5, HkFacts, Zenon DEF HkJoin, Joined, NoThread
  <2> QED
    BY <1>1, <1>5, <2>1, HkFacts, Zenon DEF ExitsFit
<1>6. CASE HkParent
  <2>1. \A r \in Pids : NoThread(r)' <=> NoThread(r)
    BY <1>1, <1>6, HkFacts, Zenon DEF NoThread
  <2> QED
    BY <1>1, <1>2, <1>6, <2>1, HkFacts, Zenon
<1>7. ASSUME NEW q \in Pids, Deletes(q) PROVE ExitsFit'
  <2>1. \A r \in Pids : NoThread(r) => NoThread(r)'
    BY <1>7, MoveFacts, Zenon DEF Deletes
  <2> QED
    BY <1>2, <1>7, <2>1, Zenon DEF Deletes
<1>8. ASSUME NEW p \in Pids, NEW q \in Pids, Reports(p, q) PROVE ExitsFit'
  <2>1. \A r \in Pids : NoThread(r) => NoThread(r)'
    <3>1. CASE Moved(p)
      BY <3>1, MoveFacts, Zenon DEF OneMoves
    <3>2. CASE ~Moved(p)
      <4>1. ~NoThread(p) /\ ThreadTo(p, "reap")
        BY <1>8, <3>2, Zenon DEF Reports, NoThread
      <4> QED
        BY <1>3, <4>1, Zenon
    <3> QED
      BY <3>1, <3>2, Zenon
  <2>2. \A r \in Pids : \A f \in flags'[r] : f \in flags[r]
    BY <1>1, <1>8, Zenon DEF Reports
  <2> QED
    BY <1>2, <2>1, <2>2, Zenon
<1>9. ASSUME NEW p \in Pids, Claims(p) \/ Fetches(p) PROVE ExitsFit'
  <2>1. ~NoThread(p) /\ \E x : ThreadTo(p, x)
    BY <1>9, Zenon DEF Claims, Fetches, NoThread
  <2>2. \A r \in Pids : \A f \in flags'[r] : f \in flags[r]
    BY <1>1, <1>9, Zenon DEF Claims, Fetches
  <2> QED
    BY <1>2, <1>3, <2>1, <2>2, Zenon
<1>10. ASSUME NEW p \in Pids, Creates(p) PROVE ExitsFit'
  <2>1. \A r \in Pids : NoThread(r) => NoThread(r)'
    BY <1>10, MoveFacts, Zenon DEF Creates, OneMoves
  <2>2. \A r \in Pids : flags'[r] = flags[r] \/ flags'[r] = {"PRESTART"}
    BY <1>1, <1>10, Zenon DEF Creates
  <2>3. "EXITED" \notin {"PRESTART"} /\ "RUNNING" \notin {"PRESTART"}
    BY Zenon
  <2>4. \A r \in Pids : /\ "EXITED" \in flags'[r] => "EXITED" \in flags[r]
                        /\ "RUNNING" \in flags'[r] => "RUNNING" \in flags[r]
    BY <2>2, <2>3, Zenon
  <2> QED
    BY <1>2, <2>1, <2>4, Zenon
<1>11. ASSUME NEW p \in Pids, Starts(p) PROVE ExitsFit'
  <2>1. \A r \in Pids : r # arg[p] => flags'[r] = flags[r] /\ (r # p => thread'[r] = thread[r])
    BY <1>1, <1>11, Zenon DEF Starts
  <2>2. ASSUME NEW r \in Pids, r = arg[p] PROVE "EXITED" \notin flags'[r]
    BY <1>1, <1>11, <2>2, Zenon DEF Starts
  <2>3. ~NoThread(p)
    BY <1>11, Zenon DEF Starts, NoThread
  <2>4. ASSUME NEW r \in Pids, "EXITED" \in flags'[r] PROVE NoThread(r)' /\ "RUNNING" \notin flags'[r]
    <3>1. r # arg[p] /\ "EXITED" \in flags[r] /\ flags'[r] = flags[r]
      BY <2>1, <2>2, <2>4, Zenon
    <3>2. NoThread(r) /\ "RUNNING" \notin flags[r]
      BY <1>1, <3>1, Zenon DEF ExitsFit
    <3>3. thread'[r] = thread[r]
      BY <2>1, <2>3, <3>1, <3>2, Zenon
    <3> QED
      BY <3>1, <3>2, <3>3, Zenon DEF NoThread
  <2> QED
    BY <2>4, Zenon DEF ExitsFit
<1> QED
  BY <1>1, <1>4, <1>5, <1>6, <1>7, <1>8, <1>9, <1>10, <1>11, NextCases, Zenon

(* ReapsFit, for every step.                                               *)
LEMMA ReapsHold == IInv /\ Next => ReapsFit'
<1> SUFFICES ASSUME IInv, Next PROVE ReapsFit'
  BY Zenon
<1>1. /\ TypeOK /\ ReapsFit /\ TreeFits /\ reports \in [Pids -> Nat] /\ thread \in [Pids -> Places]
  BY Zenon DEF IInv, TypeOK
<1>2. ASSUME UNCHANGED reports,
             \A r \in Pids : thread'[r] = "reap" => thread[r] = "reap" /\ arg'[r] = arg[r]
      PROVE  ReapsFit'
  BY <1>1, <1>2, Zenon DEF ReapsFit
<1>3. CASE Calm \/ (\E q \in Pids : Deletes(q)) \/ \E p \in Pids : Creates(p)
  <2>1. OneMoves /\ UNCHANGED reports
    BY <1>3, Zenon DEF Calm, Deletes, Creates, OneMoves
  <2> QED
    BY <1>2, <2>1, MoveFacts, Zenon
<1>4. CASE HkJoin \/ HkParent
  BY <1>1, <1>2, <1>4, HkFacts, Zenon
<1>5. ASSUME NEW p \in Pids, Claims(p) \/ Fetches(p) PROVE ReapsFit'
  <2>1. UNCHANGED <<arg, reports>> /\ \E x \in {"load", "loading"} : ThreadTo(p, x)
    BY <1>5, Zenon DEF Claims, Fetches
  <2>2. \A r \in Pids : thread'[r] = "reap" => thread[r] = "reap"
    BY <2>1, Zenon DEF ThreadTo
  <2> QED
    BY <1>2, <2>1, <2>2, Zenon
<1>6. ASSUME NEW p \in Pids, Starts(p) PROVE ReapsFit'
  <2>1. /\ UNCHANGED reports /\ \A r \in Pids : r # p => arg'[r] = arg[r]
        /\ thread' = [thread EXCEPT ![arg[p]] = "user", ![p] = Resume(p)]
    BY <1>6, Zenon DEF Starts
  <2>2. \A r \in Pids : thread'[r] \in {thread[r], "user", "exited"} /\ (r = p => thread'[r] = Resume(p))
    BY <1>1, <2>1, Zenon DEF Resume
  <2>3. ASSUME NEW r \in Pids, thread'[r] = "reap" PROVE thread[r] = "reap" /\ r # p
    BY <2>2, <2>3, Zenon DEF Resume
  <2> QED
    BY <1>2, <2>1, <2>3, Zenon
<1>7. ASSUME NEW p \in Pids, NEW q \in Pids, Reports(p, q) PROVE ReapsFit'
  <2>1. q # 1 /\ reports'[q] = reports[q] + 1 /\ \A r \in Pids : r # q => reports'[r] = reports[r]
    BY <1>1, <1>7, Zenon DEF Reports, TreeFits
  <2>2. reports'[q] # 0
    BY <1>1, <2>1, Numbers, Zenon
  <2>3. ASSUME NEW r \in Pids, thread'[r] = "reap"
        PROVE  arg'[r] = q \/ (thread[r] = "reap" /\ arg'[r] = arg[r])
    <3>1. CASE Moved(p)
      BY <2>3, <3>1, MoveFacts, Zenon DEF OneMoves
    <3>2. CASE ~Moved(p)
      BY <1>7, <2>3, <3>2, Zenon DEF Reports, ThreadTo
    <3> QED
      BY <3>1, <3>2, Zenon
  <2> QED
    BY <1>1, <2>1, <2>2, <2>3, Zenon DEF ReapsFit
<1> QED
  BY <1>1, <1>3, <1>4, <1>5, <1>6, <1>7, NextCases, Zenon

(* Whose children init takes over.                                         *)
LEMMA AdoptFacts ==
  ASSUME TypeOK, NEW q \in Pids
  PROVE  /\ Adopt(q) \in [Pids -> SUBSET Pids]
         /\ q = 1 => Adopt(q) = kids
         /\ q # 1 => /\ Adopt(q)[1] = kids[1] \union kids[q] /\ Adopt(q)[q] = {}
                     /\ \A p \in Pids : p # 1 /\ p # q => Adopt(q)[p] = kids[p]
<1>1. kids \in [Pids -> SUBSET Pids] /\ 1 \in Pids
  BY Numbers, Zenon DEF TypeOK
<1>2. CASE q = 1
  BY <1>1, <1>2, Zenon DEF Adopt
<1>3. CASE q # 1
  <2> DEFINE k == [kids EXCEPT ![1] = kids[1] \union kids[q]]
  <2>1. /\ k \in [Pids -> SUBSET Pids] /\ k[1] = kids[1] \union kids[q]
        /\ \A p \in Pids : p # 1 => k[p] = kids[p]
    BY <1>1, Zenon
  <2>2. Adopt(q) = [k EXCEPT ![q] = {}]
    BY <1>3, Zenon DEF Adopt
  <2> HIDE DEF k
  <2> QED
    BY <1>1, <1>3, <2>1, <2>2, Zenon
<1> QED
  BY <1>2, <1>3, Zenon

(* TreeFits, for every step.                                               *)
LEMMA TreeHolds == IInv /\ Next => TreeFits'
<1> SUFFICES ASSUME IInv, Next PROVE TreeFits'
  BY Zenon
<1>1. /\ TypeOK /\ TreeFits /\ StartsFit /\ DeletedIsUnused
      /\ next \in 2 .. MaxPid + 1 /\ procs \subseteq 1 .. next - 1 /\ procs \subseteq Pids
      /\ kids \in [Pids -> SUBSET Pids] /\ parent \in [Pids -> Pids \union {NoPid}]
  BY Numbers, Zenon DEF IInv, TypeOK
<1>2. 1 \in Pids /\ ~(1 >= next) /\ (\A p \in procs : ~(p >= next)) /\ \A p \in Pids : p # NoPid
  BY <1>1, Numbers, Zenon
<1>3. CASE UNCHANGED <<procs, next, parent, kids>>
  BY <1>1, <1>3, Zenon DEF TreeFits, FamilyTree, OnlyInitsChildren, ChildrenAgree
<1>4. ASSUME NEW q \in procs, \A p \in Pids : parent[p] \in {NoPid, 1}
      PROVE  \A p \in procs : Adopt(q)[p] = {r \in procs : parent[r] = p}
  <2>1. \A p \in procs : kids[p] = {r \in procs : parent[r] = p}
    BY <1>1, <1>4, Zenon DEF TreeFits, FamilyTree, OnlyInitsChildren, ChildrenAgree
  <2>2. CASE q = 1
    BY <1>1, <2>1, <2>2, AdoptFacts, Zenon
  <2>3. CASE q # 1
    <3>1. kids[q] = {} /\ q \in Pids
      <4>1. q \in Pids /\ \A r \in procs : parent[r] # q
        BY <1>1, <1>2, <1>4, <2>3, Zenon
      <4> QED
        BY <2>1, <4>1, Zenon
    <3>2. ASSUME NEW p \in procs PROVE Adopt(q)[p] = kids[p]
      <4>1. CASE p = 1
        <5>1. Adopt(q)[1] = kids[1] \union kids[q]
          BY <1>1, <2>3, <3>1, AdoptFacts, Zenon
        <5> QED
          BY <3>1, <4>1, <5>1, Zenon
      <4>2. CASE p = q
        BY <1>1, <2>3, <3>1, <4>2, AdoptFacts, Zenon
      <4>3. CASE p # 1 /\ p # q
        BY <1>1, <2>3, <3>1, <4>3, AdoptFacts, Zenon
      <4> QED
        BY <4>1, <4>2, <4>3, Zenon
    <3> QED
      BY <2>1, <3>2, Zenon
  <2> QED
    BY <2>2, <2>3, Zenon
<1>5. ASSUME NEW q \in Pids
      PROVE  \A p \in Pids : 1 \notin Adopt(q)[p] /\ (p >= next => Adopt(q)[p] = {})
  <2>1. \A p \in Pids : 1 \notin kids[p] /\ (p >= next => kids[p] = {})
    BY <1>1, Zenon DEF TreeFits
  <2>2. CASE q = 1
    BY <1>1, <2>1, <2>2, AdoptFacts, Zenon
  <2>3. CASE q # 1
    <3>1. ASSUME NEW p \in Pids PROVE 1 \notin Adopt(q)[p] /\ (p >= next => Adopt(q)[p] = {})
      <4>1. CASE p = 1
        <5>1. Adopt(q)[1] = kids[1] \union kids[q]
          BY <1>1, <2>3, AdoptFacts, Zenon
        <5>2. 1 \notin kids[1] /\ 1 \notin kids[q]
          BY <1>2, <2>1, Zenon
        <5> QED
          BY <1>2, <4>1, <5>1, <5>2, Zenon
      <4>2. CASE p = q
        BY <1>1, <2>3, <4>2, AdoptFacts, Zenon
      <4>3. CASE p # 1 /\ p # q
        BY <1>1, <2>1, <2>3, <4>3, AdoptFacts, Zenon
      <4> QED
        BY <4>1, <4>2, <4>3, Zenon
    <3> QED
      BY <3>1, Zenon
  <2> QED
    BY <2>2, <2>3, Zenon
<1>6. CASE HkJoin
  <2>1. UNCHANGED <<procs, next, parent>> /\ kids' = Adopt(hkp) /\ hkp \in procs
    BY <1>1, <1>6, HkFacts, Zenon DEF HkJoin, DeletedIsUnused
  <2>2. \A p \in Pids : 1 \notin kids'[p]
    BY <1>1, <1>5, <2>1, Zenon
  <2>3. \A p \in Pids : p >= next' => parent'[p] = NoPid /\ kids'[p] = {}
    BY <1>1, <1>5, <2>1, Zenon DEF TreeFits
  <2>4. FamilyTree'
    <3> SUFFICES ASSUME \A p \in Pids : parent'[p] \in {NoPid, 1}, NEW p \in procs'
                 PROVE  kids'[p] = {r \in procs' : parent'[r] = p}
      BY Zenon DEF FamilyTree, OnlyInitsChildren, ChildrenAgree
    <3>1. \A r \in Pids : parent[r] \in {NoPid, 1}
      BY <2>1, Zenon
    <3>2. Adopt(hkp)[p] = {r \in procs : parent[r] = p}
      BY <1>4, <2>1, <3>1, Zenon
    <3> QED
      BY <2>1, <3>2, Zenon
  <2> QED
    BY <2>2, <2>3, <2>4, Zenon DEF TreeFits
<1>7. ASSUME NEW q \in Pids, Deletes(q) PROVE TreeFits'
  <2> DEFINE k == IF "EXITED" \in flags[q] THEN kids ELSE Adopt(q)
  <2>1. /\ UNCHANGED <<next, parent>> /\ q \in procs /\ procs' = procs \ {q} /\ kids' = Unlisted(k, q)
    BY <1>7, Zenon DEF Deletes
  <2>2. /\ \A p \in Pids : 1 \notin k[p] /\ (p >= next => k[p] = {})
    BY <1>1, <1>5, Zenon DEF TreeFits
  <2>3. ASSUME \A p \in Pids : parent[p] \in {NoPid, 1}
        PROVE  \A p \in procs : k[p] = {r \in procs : parent[r] = p}
    BY <1>1, <1>4, <2>1, <2>3, Zenon DEF TreeFits, FamilyTree, OnlyInitsChildren, ChildrenAgree
  <2> HIDE DEF k
  <2>4. \A p \in Pids : kids'[p] = IF p = parent[q] THEN k[p] \ {q} ELSE k[p]
    BY <2>1, Zenon DEF Unlisted
  <2>5. ASSUME NEW p \in Pids PROVE 1 \notin kids'[p] /\ (p >= next => kids'[p] = {})
    BY <2>2, <2>4, Zenon
  <2>6. FamilyTree'
    <3> SUFFICES ASSUME \A p \in Pids : parent'[p] \in {NoPid, 1}, NEW p \in procs'
                 PROVE  kids'[p] = {r \in procs' : parent'[r] = p}
      BY Zenon DEF FamilyTree, OnlyInitsChildren, ChildrenAgree
    <3>1. k[p] = {r \in procs : parent[r] = p} /\ p \in Pids
      BY <1>1, <2>1, <2>3, Zenon
    <3> QED
      BY <2>1, <2>4, <3>1, Zenon
  <2> QED
    BY <1>1, <2>1, <2>5, <2>6, Zenon DEF TreeFits
<1>8. ASSUME NEW p \in Pids, Creates(p) PROVE TreeFits'
  <2>1. /\ next \in Pids /\ next # 1 /\ next' = next + 1 /\ next >= next
        /\ procs' = procs \union {next} /\ next \notin procs
    <3>1. conf.maxPid \in Pids /\ next <= conf.maxPid /\ next >= next
      BY <1>1, <1>8, ProcessAssumption, Numbers, Zenon DEF Creates, TypeOK
    <3>2. next \in Pids
      BY <1>1, <3>1, Numbers, Zenon
    <3> QED
      BY <1>1, <1>2, <1>8, <3>1, <3>2, Numbers, Zenon DEF Creates
  <2>2. ~(p >= next) /\ p # next
    <3>1. ~NoThread(p)
      BY <1>8, Zenon DEF Creates, Moved
    <3> QED
      BY <1>1, <2>1, <3>1, Zenon DEF StartsFit, NoThread
  <2>3. /\ kids'[p] = kids[p] \union {next} /\ \A r \in Pids : r # p => kids'[r] = kids[r]
        /\ parent'[next] = p /\ \A r \in Pids : r # next => parent'[r] = parent[r]
    BY <1>1, <1>8, <2>1, Zenon DEF Creates
  <2>4. parent[next] = NoPid /\ kids[next] = {}
    BY <1>1, <2>1, Zenon DEF TreeFits
  <2>5. \A r \in Pids : 1 \notin kids'[r]
    BY <1>1, <2>1, <2>3, Zenon DEF TreeFits
  <2>6. ASSUME NEW r \in Pids, r >= next' PROVE parent'[r] = NoPid /\ kids'[r] = {}
    <3>1. r >= next /\ r # next
      BY <1>1, <2>1, <2>6, Numbers, Zenon
    <3> QED
      BY <1>1, <2>2, <2>3, <3>1, Zenon DEF TreeFits
  <2>7. FamilyTree'
    <3> SUFFICES ASSUME \A r \in Pids : parent'[r] \in {NoPid, 1}, NEW r \in procs'
                 PROVE  kids'[r] = {s \in procs' : parent'[s] = r}
      BY Zenon DEF FamilyTree, OnlyInitsChildren, ChildrenAgree
    <3>1. p = 1
      BY <1>2, <2>1, <2>3, Zenon
    <3>2. \A s \in Pids : parent[s] \in {NoPid, 1}
      BY <2>3, <2>4, Zenon
    <3>3. \A s \in procs : kids[s] = {x \in procs : parent[x] = s}
      BY <1>1, <3>2, Zenon DEF TreeFits, FamilyTree, OnlyInitsChildren, ChildrenAgree
    <3>4. \A x \in procs : parent'[x] = parent[x]
      BY <1>1, <2>1, <2>3, Zenon
    <3>5. CASE r = next
      <4>1. kids'[r] = {}
        BY <2>1, <2>2, <2>3, <2>4, <3>5, Zenon
      <4>2. \A s \in procs' : parent'[s] # r
        BY <1>1, <1>2, <2>1, <2>3, <3>1, <3>5, Zenon
      <4> QED
        BY <4>1, <4>2, Zenon
    <3>6. CASE r = 1
      <4>1. kids'[1] = {x \in procs : parent[x] = 1} \union {next}
        <5>1. 1 \in procs /\ kids'[1] = kids[1] \union {next}
          BY <2>1, <2>3, <3>1, <3>6, Zenon
        <5> QED
          BY <3>3, <5>1, Zenon
      <4> QED
        BY <2>1, <2>3, <3>1, <3>4, <3>6, <4>1, Zenon
    <3>7. CASE r # next /\ r # 1
      <4>1. r \in procs /\ kids'[r] = {x \in procs : parent[x] = r}
        BY <1>1, <2>1, <2>3, <3>1, <3>3, <3>7, Zenon
      <4> QED
        BY <2>1, <2>3, <3>1, <3>4, <3>7, <4>1, Zenon
    <3> QED
      BY <3>5, <3>6, <3>7, Zenon
  <2> QED
    BY <2>5, <2>6, <2>7, Zenon DEF TreeFits
<1>9. CASE \/ Calm \/ HkParent \/ \E p \in Pids : Claims(p) \/ Fetches(p) \/ Starts(p)
           \/ \E p, q \in Pids : Reports(p, q)
  <2>1. UNCHANGED <<procs, next, parent, kids>>
    BY <1>1, <1>9, HkFacts, Zenon DEF Calm, Claims, Fetches, Starts, Reports
  <2> QED
    BY <1>3, <2>1, Zenon
<1> QED
  BY <1>1, <1>6, <1>7, <1>8, <1>9, NextCases, Zenon

(* Only its own steps move the housekeeping thread.                        *)
LEMMA HkFrame == Next => HkStep \/ UNCHANGED <<hk, hkp>>
<1> USE DEF procVars, lockVars, hkVars
<1>1. ASSUME NEW p \in Pids, PlainCall(p) PROVE UNCHANGED <<hk, hkp>>
  BY <1>1, Zenon DEF PlainCall, Syscall, Killed, TakeSignal, HandleSignal, WaitNoChild, Poll, Touch,
     Shutdown, ExitMark, ExitQueue, ThreadExit, StartFails, ReapJoins, DeleteJoins
<1>2. ASSUME NEW p \in Pids, \/ Create(p) \/ StartClaim(p) \/ StartLock(p) \/ StartDone(p)
                             \/ WaitClaim(p) \/ Destroy(p) \/ Reap(p)
      PROVE  UNCHANGED <<hk, hkp>>
  BY <1>2, Zenon DEF Create, StartClaim, StartLock, StartDone, WaitClaim, Destroy, Reap
<1>3. ASSUME MainStep PROVE UNCHANGED <<hk, hkp>>
  BY <1>3, Zenon DEF MainStep, MainStart, MainWarn, MainHup, MainSignalled, MainWait, MainDoom, MainKill,
     MainQueue, MainInit, MainInitHup, MainWaitInit, Survey, SignalAll
<1> QED
  BY <1>1, <1>2, <1>3, Zenon DEF Next, Step, PlainCall

(* The mutex of a process that is not in the table is not acquired.        *)
LEMMA MutexFacts ==
  ASSUME IInv, Next, NEW r \in Pids \ procs
  PROVE  mtx'[r] = mtx[r] \/ mtx'[r] = Nobody
<1> USE DEF procVars, lockVars
<1>1. /\ mtx \in [Pids -> Pids \union {Hk, Nobody}]
      /\ \A p \in Pids : Loads(p) => arg[p] \in procs
      /\ hk = "runtime" => hkp \in procs
  BY Zenon DEF IInv, TypeOK, DeletedIsUnused, StartsFit
<1>2. ASSUME NEW a, NEW q, DeleteJoins(a, q) PROVE mtx'[r] = mtx[r]
  BY <1>1, <1>2, Zenon DEF DeleteJoins
<1>3. ASSUME NEW a, NEW q, Delete(a, q) PROVE mtx'[r] = mtx[r] \/ mtx'[r] = Nobody
  BY <1>1, <1>3, Zenon DEF Delete
<1>4. ASSUME NEW p \in Pids, Syscall(p) \/ TakeSignal(p) \/ Step(p)
      PROVE  mtx'[r] = mtx[r] \/ mtx'[r] = Nobody
  <2>1. CASE PlainCall(p)
    <3>1. CASE StartFails(p)
      BY <1>1, <3>1, Zenon DEF StartFails
    <3>2. CASE ReapJoins(p)
      BY <1>2, <3>2, Zenon DEF ReapJoins
    <3>3. CASE ~StartFails(p) /\ ~ReapJoins(p)
      BY <2>1, <3>3, Zenon DEF PlainCall, Syscall, Killed, TakeSignal, HandleSignal, WaitNoChild,
         Poll, Touch, Shutdown, ExitMark, ExitQueue, ThreadExit
    <3> QED
      BY <3>1, <3>2, <3>3, Zenon
  <2>2. CASE Create(p) \/ StartClaim(p) \/ WaitClaim(p)
    BY <2>2, Zenon DEF Create, StartClaim, WaitClaim
  <2>3. CASE StartLock(p)
    BY <1>1, <2>3, Zenon DEF StartLock, Loads
  <2>4. CASE StartDone(p)
    BY <1>1, <2>4, Zenon DEF StartDone
  <2>5. CASE Destroy(p)
    BY <1>3, <2>5, Zenon DEF Destroy
  <2>6. CASE Reap(p)
    BY <1>3, <2>6, Zenon DEF Reap
  <2> QED
    BY <1>4, <2>1, <2>2, <2>3, <2>4, <2>5, <2>6, Zenon DEF Step, PlainCall
<1>5. ASSUME HkStep PROVE mtx'[r] = mtx[r] \/ mtx'[r] = Nobody
  <2>1. CASE HkRuntime
    BY <1>1, <2>1, Zenon DEF HkRuntime
  <2>2. CASE HkJoin
    BY <1>1, <2>2, Zenon DEF HkJoin
  <2>3. CASE HkDeleteJoins
    BY <1>2, <2>3, Zenon DEF HkDeleteJoins
  <2>4. CASE HkDelete
    BY <1>3, <2>4, Zenon DEF HkDelete
  <2>5. CASE HkTake \/ HkPassEnd \/ HkLookup \/ HkPanic \/ HkParent \/ HkNotify
    BY <2>5, Zenon DEF HkTake, HkPassEnd, HkLookup, HkPanic, HkParent, HkNotify
  <2> QED
    BY <1>5, <2>1, <2>2, <2>3, <2>4, <2>5, Zenon DEF HkStep
<1>6. ASSUME MainStep PROVE mtx'[r] = mtx[r]
  BY <1>6, Zenon DEF MainStep, MainStart, MainWarn, MainHup, MainSignalled, MainWait, MainDoom, MainKill,
     MainQueue, MainInit, MainInitHup, MainWaitInit, Survey, SignalAll
<1> QED
  BY <1>4, <1>5, <1>6, Zenon DEF Next

(* Who leaves the table, and that nobody uses a process then.              *)
LEMMA TableFacts ==
  ASSUME TypeOK, Next
  PROVE  /\ procs' = procs \/ shares = {}
         /\ \A r \in procs \ procs' : Deletes(r)
         /\ procs' \ procs \subseteq {next}
<1>1. CASE Calm \/ HkJoin \/ HkParent
  <2>1. procs' = procs
    BY <1>1, HkFacts, Zenon DEF Calm
  <2> QED
    BY <2>1, Zenon
<1>2. ASSUME NEW p \in Pids, Creates(p) PROVE shares = {} /\ procs' = procs \union {next}
  BY <1>2, Zenon DEF Creates
<1>3. ASSUME NEW q \in Pids, Deletes(q) PROVE shares = {} /\ procs' = procs \ {q}
  BY <1>3, Zenon DEF Deletes
<1>4. CASE \/ \E p \in Pids : Claims(p) \/ Fetches(p) \/ Starts(p)
           \/ \E p, q \in Pids : Reports(p, q)
  <2>1. procs' = procs
    BY <1>4, Zenon DEF Claims, Fetches, Starts, Reports
  <2> QED
    BY <2>1, Zenon
<1> QED
  BY <1>1, <1>2, <1>3, <1>4, NextCases, Zenon

(* Who gives its share of proc_mtx back uses no other process any more, and *)
(* nobody who joins with proc_mtx has company.                              *)
LEMMA ShareFacts ==
  ASSUME IInv, Next
  PROVE  /\ excl' # Nobody => shares' = {}
         /\ \A r \in Pids : r \in shares => r \in shares' \/ ~Loads(r)'
         /\ Hk \in shares => Hk \in shares' \/ ~HkUses'
<1> USE DEF procVars, lockVars, threadVars
<1>1. excl # Nobody => shares = {}
  BY Zenon DEF IInv, LocksFit
<1>2. CASE UNCHANGED <<shares, excl>>
  BY <1>1, <1>2, Zenon
<1>3. ASSUME NEW a, NEW q, DeleteJoins(a, q) PROVE UNCHANGED shares /\ shares = {}
  BY <1>3, Zenon DEF DeleteJoins, ExclusiveProcs
<1>4. ASSUME NEW a, NEW q, Delete(a, q) PROVE UNCHANGED shares /\ shares = {}
  BY <1>4, Zenon DEF Delete
<1>5. CASE UNCHANGED shares /\ shares = {}
  BY <1>5, Zenon
<1>6. ASSUME NEW p \in Pids, Syscall(p) \/ TakeSignal(p) \/ Step(p), ~UNCHANGED <<shares, excl>>
      PROVE  \/ UNCHANGED shares /\ shares = {}
             \/ StartClaim(p) \/ StartDone(p) \/ StartFails(p)
  <2>1. CASE ReapJoins(p)
    BY <1>3, <2>1, Zenon DEF ReapJoins
  <2>2. CASE Destroy(p)
    BY <1>4, <1>6, <2>2, Zenon DEF Destroy
  <2>3. CASE Reap(p)
    BY <1>4, <2>3, Zenon DEF Reap
  <2>4. CASE ~ReapJoins(p) /\ ~Destroy(p) /\ ~Reap(p)
    BY <1>6, <2>4, Zenon DEF Step, Syscall, Killed, TakeSignal, HandleSignal, WaitNoChild, Poll, Touch,
       Shutdown, ExitMark, ExitQueue, ThreadExit, Create, StartLock, WaitClaim
  <2> QED
    BY <2>1, <2>2, <2>3, <2>4, Zenon
<1>7. ASSUME HkStep, ~UNCHANGED <<shares, excl>>
      PROVE  \/ UNCHANGED shares /\ shares = {}
             \/ HkLookup \/ HkParent \/ HkNotify
  <2>1. CASE HkDeleteJoins
    BY <1>3, <2>1, Zenon DEF HkDeleteJoins
  <2>2. CASE HkDelete
    BY <1>4, <2>2, Zenon DEF HkDelete
  <2>3. CASE ~HkDeleteJoins /\ ~HkDelete
    BY <1>7, <2>3, Zenon DEF HkStep, HkTake, HkPassEnd, HkPanic, HkRuntime, HkJoin
  <2> QED
    BY <2>1, <2>2, <2>3, Zenon
<1>8. ASSUME MainStep, ~UNCHANGED <<shares, excl>>
      PROVE  MainWarn \/ MainSignalled \/ MainDoom \/ MainInit \/ MainInitHup
  BY <1>8, Zenon DEF MainStep, MainStart, MainHup, MainWait, MainKill, MainQueue, MainWaitInit, Survey
<1>9. ASSUME UNCHANGED excl, shares \subseteq shares', excl = Nobody
      PROVE  /\ excl' # Nobody => shares' = {}
             /\ \A r \in Pids : r \in shares => r \in shares' \/ ~Loads(r)'
             /\ Hk \in shares => Hk \in shares' \/ ~HkUses'
  BY <1>9, Zenon
<1>10. ASSUME NEW x, UNCHANGED excl, shares' = shares \ {x}, x \in Pids => ~Loads(x)', x = Hk => ~HkUses'
       PROVE  /\ excl' # Nobody => shares' = {}
              /\ \A r \in Pids : r \in shares => r \in shares' \/ ~Loads(r)'
              /\ Hk \in shares => Hk \in shares' \/ ~HkUses'
  <2>1. excl' # Nobody => shares' = {}
    BY <1>1, <1>10, Zenon
  <2>2. \A r : r \in shares => r \in shares' \/ r = x
    BY <1>10, Zenon
  <2> QED
    BY <1>10, <2>1, <2>2, Zenon
<1>11. ASSUME NEW p \in Pids, StartDone(p) \/ StartFails(p)
       PROVE  UNCHANGED excl /\ shares' = shares \ {p} /\ ~Loads(p)' /\ p # Hk
  <2>1. thread \in [Pids -> Places]
    BY Zenon DEF IInv, TypeOK
  <2>2. thread'[p] = Resume(p)
    BY <1>11, <2>1, Zenon DEF StartDone, StartFails, Return, Goto
  <2> QED
    BY <1>11, <2>2, Numbers, Zenon DEF StartDone, StartFails, Resume, Loads
<1>12. ASSUME NEW p \in Pids, StartClaim(p)
       PROVE  UNCHANGED excl /\ shares \subseteq shares' /\ excl = Nobody
  BY <1>12, Zenon DEF StartClaim, SharedProcs, StartHolds
<1>13. ASSUME HkLookup PROVE UNCHANGED excl /\ shares \subseteq shares' /\ excl = Nobody
  BY <1>13, Zenon DEF HkLookup, SharedProcs
<1>14. ASSUME HkParent \/ HkNotify
       PROVE  /\ UNCHANGED excl
              /\ \/ UNCHANGED shares
                 \/ shares' = shares \ {Hk} /\ ~HkUses'
  BY <1>14, Zenon DEF HkParent, HkNotify, HkGoto, HkUses
<1>15. ASSUME MainWarn \/ MainDoom \/ MainInit
       PROVE  UNCHANGED excl /\ shares \subseteq shares' /\ excl = Nobody
  BY <1>15, Zenon DEF MainWarn, MainDoom, MainInit, SharedProcs, SignalAll
<1>16. ASSUME MainSignalled \/ MainInitHup PROVE UNCHANGED excl /\ shares' = shares \ {Main}
  BY <1>16, Zenon DEF MainSignalled, MainInitHup
<1>17. \A p \in Pids : StartClaim(p) \/ StartDone(p) \/ StartFails(p) =>
                 /\ excl' # Nobody => shares' = {}
                 /\ \A r \in Pids : r \in shares => r \in shares' \/ ~Loads(r)'
                 /\ Hk \in shares => Hk \in shares' \/ ~HkUses'
  BY <1>9, <1>10, <1>11, <1>12, Zenon
<1>18. CASE HkLookup \/ HkParent \/ HkNotify
  BY <1>2, <1>9, <1>10, <1>13, <1>14, <1>18, Numbers, Zenon
<1>19. CASE MainWarn \/ MainSignalled \/ MainDoom \/ MainInit \/ MainInitHup
  BY <1>9, <1>10, <1>15, <1>16, <1>19, Numbers, Zenon
<1>20. CASE ~UNCHANGED <<shares, excl>>
  BY <1>5, <1>6, <1>7, <1>8, <1>17, <1>18, <1>19, <1>20, Zenon DEF Next
<1> QED
  BY <1>2, <1>20, Zenon

(* Who starts to use a process takes a share.                              *)
LEMMA LocksHold == IInv /\ Next => LocksFit'
<1> SUFFICES ASSUME IInv, Next PROVE LocksFit'
  BY Zenon
<1>1. TypeOK /\ LocksFit
  BY Zenon DEF IInv
<1>2. ASSUME NEW r \in Pids, Loads(r)' PROVE Loads(r) \/ r \in shares'
  <2>1. CASE OneMoves
    BY <1>2, <2>1, MoveFacts, Zenon DEF Loads
  <2>2. CASE HkJoin \/ HkParent
    BY <1>1, <1>2, <2>2, HkFacts, Zenon DEF Loads
  <2>3. ASSUME NEW p \in Pids, Claims(p) PROVE Loads(r) \/ r \in shares'
    BY <1>2, <2>3, Zenon DEF Claims, ThreadTo, Loads
  <2>4. ASSUME NEW p \in Pids, Fetches(p) PROVE Loads(r)
    BY <1>2, <2>4, Zenon DEF Fetches, ThreadTo, Loads
  <2>5. ASSUME NEW p \in Pids, Starts(p) PROVE Loads(r)
    <3>1. r # p /\ r # arg[p] => thread'[r] = thread[r]
      BY <1>1, <2>5, Zenon DEF Starts, TypeOK
    <3>2. r = p \/ r = arg[p] => thread'[r] \in {"user", "exited"}
      BY <1>1, <2>5, Zenon DEF Starts, TypeOK, Resume
    <3> QED
      BY <1>2, <3>1, <3>2, Zenon DEF Loads
  <2>6. ASSUME NEW p \in Pids, NEW q \in Pids, Reports(p, q), ~Moved(p) PROVE Loads(r)
    BY <1>2, <2>6, Zenon DEF Reports, ThreadTo, Loads
  <2> QED
    BY <1>1, <2>1, <2>2, <2>3, <2>4, <2>5, <2>6, NextCases, Zenon DEF Calm, Creates, Deletes, OneMoves
<1>3. HkUses' => HkUses \/ Hk \in shares'
  <2>1. CASE HkLookup
    BY <2>1, Zenon DEF HkLookup
  <2>2. CASE HkStep /\ ~HkLookup
    BY <2>2, Zenon DEF HkStep, HkTake, HkPassEnd, HkPanic, HkRuntime, HkJoin, HkParent, HkNotify,
       HkDeleteJoins, DeleteJoins, HkDelete, HkGoto, HkUses, hkVars
  <2>3. CASE UNCHANGED <<hk, hkp>>
    BY <2>3, Zenon DEF HkUses
  <2> QED
    BY <2>1, <2>2, <2>3, HkFrame, Zenon
<1> QED
  BY <1>1, <1>2, <1>3, ShareFacts, Zenon DEF LocksFit

(* What becomes of init: it is never pre-start, deleted or started anew    *)
(* while it runs, and an exited init stays exited.                         *)
LEMMA InitFacts ==
  ASSUME IInv, Next
  PROVE  /\ "EXITED" \in flags[1] => "EXITED" \in flags'[1]
         /\ ~InitGone /\ ~(HkJoin /\ hkp = 1) => ~InitGone'
<1>1. /\ TypeOK /\ StartsFit /\ ReapsFit /\ ExitsFit /\ InitLast /\ 1 \in Pids /\ next # 1
      /\ flags \in [Pids -> SUBSET Flags]
  BY Numbers, Zenon DEF IInv, TypeOK
<1>2. "PRESTART" \notin flags[1]
  BY <1>1, Zenon DEF StartsFit
<1>3. CASE Calm
  BY <1>1, <1>3, Zenon DEF Calm, SameFlags, InitGone
<1>4. CASE HkJoin \/ HkParent
  <2>1. UNCHANGED procs /\ (hkp # 1 => flags'[1] = flags[1])
    BY <1>1, <1>4, HkFacts, Zenon
  <2>2. /\ HkJoin /\ hkp = 1 => "EXITED" \in flags'[1]
        /\ HkParent => /\ "EXITED" \in flags'[1] <=> "EXITED" \in flags[1]
                       /\ "RUNNING" \in flags'[1] <=> "RUNNING" \in flags[1]
    BY <1>1, HkFacts, Zenon
  <2> QED
    BY <1>4, <2>1, <2>2, Zenon DEF InitGone
<1>5. ASSUME NEW p \in Pids, Creates(p)
      PROVE  flags'[1] = flags[1] /\ procs \subseteq procs'
  BY <1>1, <1>5, Zenon DEF Creates
<1>6. ASSUME NEW p \in Pids, Claims(p)
      PROVE  /\ "EXITED" \in flags'[1] <=> "EXITED" \in flags[1]
             /\ "RUNNING" \in flags'[1] <=> "RUNNING" \in flags[1]
             /\ UNCHANGED procs
  <2>1. UNCHANGED procs /\ (flags'[1] = flags[1] \/ flags'[1] = flags[1] \ {"PRESTART"})
    BY <1>1, <1>6, Zenon DEF Claims
  <2>2. "EXITED" # "PRESTART" /\ "RUNNING" # "PRESTART"
    BY Zenon
  <2> QED
    BY <2>1, <2>2, Zenon
<1>7. ASSUME NEW p \in Pids, Fetches(p) PROVE UNCHANGED <<procs, flags>>
  BY <1>7, Zenon DEF Fetches
<1>8. ASSUME NEW p \in Pids, Starts(p) PROVE UNCHANGED procs /\ flags'[1] = flags[1]
  <2>1. arg[p] # 1
    BY <1>1, <1>8, Zenon DEF Starts, StartsFit, Loads
  <2> QED
    BY <1>1, <1>8, <2>1, Zenon DEF Starts
<1>9. ASSUME NEW q \in Pids, Deletes(q)
      PROVE  UNCHANGED flags /\ (InitGone \/ 1 \in procs')
  <2>1. UNCHANGED flags /\ procs' = procs \ {q}
    BY <1>9, Zenon DEF Deletes
  <2>2. CASE q = 1
    <3>1. hk = "delete" /\ hkp = 1
      BY <1>1, <1>2, <1>9, <2>2, Zenon DEF Deletes, ReapsFit
    <3> QED
      BY <1>1, <2>1, <3>1, Zenon DEF InitLast, ExitsFit, InitGone
  <2> QED
    BY <2>1, <2>2, Zenon DEF InitGone
<1>10. ASSUME NEW p \in Pids, NEW q \in Pids, Reports(p, q)
       PROVE  /\ "EXITED" \in flags'[1] <=> "EXITED" \in flags[1]
              /\ "RUNNING" \in flags'[1] <=> "RUNNING" \in flags[1]
              /\ UNCHANGED procs
  <2>1. UNCHANGED procs /\ (flags'[1] = flags[1] \/ flags'[1] = flags[1] \ {"STATECHG"})
    BY <1>1, <1>10, Zenon DEF Reports
  <2>2. "EXITED" # "STATECHG" /\ "RUNNING" # "STATECHG"
    BY Zenon
  <2> QED
    BY <2>1, <2>2, Zenon
<1> QED
  BY <1>1, <1>3, <1>4, <1>5, <1>6, <1>7, <1>8, <1>9, <1>10, NextCases, Zenon DEF InitGone

(* InitLast, for every step.                                               *)
LEMMA InitLastHolds == IInv /\ Next => InitLast'
<1> SUFFICES ASSUME IInv, Next PROVE InitLast'
  BY Zenon
<1>1. TypeOK /\ InitLast /\ LocksFit /\ DeletedIsUnused /\ 1 \in Pids
  BY Numbers, Zenon DEF IInv
<1>2. hk' = "join" /\ hkp' = 1 => procs' = {1}
  <2>1. CASE HkRuntime
    BY <2>1, Zenon DEF HkRuntime, HkGoto, InitMayDie
  <2>2. CASE ~HkRuntime /\ hk' = "join"
    <3>1. hk = "join" /\ hkp' = hkp
      BY <2>2, HkFrame, Zenon DEF HkStep, HkTake, HkPassEnd, HkLookup, HkPanic, HkJoin, HkParent,
         HkNotify, HkDeleteJoins, DeleteJoins, HkDelete, HkGoto, hkVars
    <3>2. procs' = procs
      BY <1>1, <3>1, TableFacts, Zenon DEF LocksFit, HkUses
    <3> QED
      BY <1>1, <3>1, <3>2, Zenon DEF InitLast
  <2> QED
    BY <2>1, <2>2, Zenon
<1>3. hk' \in {"parent", "notify", "delete"} /\ hkp' = 1 => "EXITED" \in flags'[1]
  <2>1. CASE HkRuntime
    BY <1>1, <2>1, Zenon DEF HkRuntime, HkGoto
  <2>2. CASE HkJoin
    BY <1>1, <2>2, HkFacts, Zenon DEF HkJoin, HkGoto
  <2>3. ASSUME ~HkRuntime, ~HkJoin, hk' \in {"parent", "notify", "delete"}
        PROVE  hk \in {"parent", "notify", "delete"} /\ hkp' = hkp
    <3>1. CASE HkTake \/ HkPassEnd \/ HkLookup \/ HkPanic \/ HkNotify \/ HkDelete
      BY <2>3, <3>1, Zenon DEF HkTake, HkPassEnd, HkLookup, HkPanic, HkNotify, HkDelete, HkGoto
    <3>2. CASE HkParent
      BY <3>2, Zenon DEF HkParent, HkGoto
    <3>3. CASE HkDeleteJoins
      BY <3>3, Zenon DEF HkDeleteJoins, DeleteJoins, hkVars
    <3>4. CASE UNCHANGED <<hk, hkp>>
      BY <2>3, <3>4, Zenon
    <3> QED
      BY <2>3, <3>1, <3>2, <3>3, <3>4, HkFrame, Zenon DEF HkStep
  <2> QED
    BY <1>1, <2>1, <2>2, <2>3, InitFacts, Zenon DEF InitLast
<1>4. InitGone' => procs' \subseteq {1} /\ \A p \in Pids : NoThread(p)'
  <2>1. CASE InitGone
    <3>1. procs \subseteq {1} /\ \A p \in Pids : NoThread(p)
      BY <1>1, <2>1, Zenon DEF InitLast
    <3>2. ASSUME NEW p \in Pids
          PROVE  ~Creates(p) /\ ~Claims(p) /\ ~Fetches(p) /\ ~Starts(p) /\ \A q \in Pids : ~Reports(p, q)
      BY <3>1, Zenon DEF Creates, Claims, Fetches, Starts, Reports, Moved, NoThread
    <3>3. procs' \subseteq procs
      BY <1>1, <3>2, NextCases, HkFacts, Zenon DEF Calm, Deletes
    <3>4. OneMoves \/ UNCHANGED thread
      BY <1>1, <3>2, NextCases, HkFacts, Zenon DEF Calm, Deletes
    <3>5. \A p \in Pids : NoThread(p)'
      BY <3>1, <3>4, MoveFacts, Zenon DEF NoThread
    <3> QED
      BY <3>1, <3>3, <3>5, Zenon
  <2>2. CASE HkJoin /\ hkp = 1
    <3>1. procs = {1} /\ UNCHANGED <<procs, thread>> /\ NoThread(1)
      BY <1>1, <2>2, HkFacts, Zenon DEF HkJoin, Joined, InitLast
    <3>2. \A p \in Pids : NoThread(p)
      BY <1>1, <3>1, Zenon DEF DeletedIsUnused
    <3> QED
      BY <3>1, <3>2, Zenon DEF NoThread
  <2> QED
    BY <2>1, <2>2, InitFacts, Zenon
<1>5. main' = "off" => InitGone'
  <2>1. main # "off"
    BY Zenon DEF Next, Up, Halted
  <2>2. ASSUME main' = "off" PROVE MainWaitInit
    <3>1. ASSUME NEW p \in Pids, Syscall(p) \/ TakeSignal(p) \/ Step(p) PROVE UNCHANGED main
      BY <3>1, Zenon DEF Step, Syscall, Killed, TakeSignal, HandleSignal, WaitNoChild, Poll, Touch,
         Shutdown, ExitMark, ExitQueue, ThreadExit, Create, StartClaim, StartLock, StartDone,
         StartFails, WaitClaim, ReapJoins, DeleteJoins, Destroy, Reap, mainVars
    <3>2. ASSUME HkStep PROVE UNCHANGED main
      BY <3>2, Zenon DEF HkStep, HkTake, HkPassEnd, HkLookup, HkPanic, HkRuntime, HkJoin, HkParent,
         HkNotify, HkDeleteJoins, DeleteJoins, HkDelete, mainVars
    <3>3. ASSUME MainStep, ~MainWaitInit PROVE FALSE
      BY <2>1, <2>2, <3>3, Zenon DEF MainStep, MainStart, MainWarn, MainHup, MainSignalled, MainWait,
         MainDoom, MainKill, MainQueue, MainInit, MainInitHup, MainGoto, Survey, SignalAll
    <3> QED
      BY <2>1, <2>2, <3>1, <3>2, <3>3, Zenon DEF Next
  <2>3. ASSUME main' = "off" PROVE InitGone
    <3>1. MainWaitInit
      BY <2>2, <2>3, Zenon
    <3> QED
      BY <2>3, <3>1, Zenon DEF MainWaitInit, MainGoto, InitGone
  <2>4. ASSUME main' = "off" PROVE UNCHANGED <<procs, flags>>
    BY <2>2, <2>4, Zenon DEF MainWaitInit, procVars
  <2> QED
    BY <2>3, <2>4, Zenon DEF InitGone
<1> QED
  BY <1>2, <1>3, <1>4, <1>5, Zenon DEF InitLast

(* DeletedIsUnused, for every step.                                        *)
LEMMA UnusedHolds == IInv /\ Next => DeletedIsUnused'
<1> SUFFICES ASSUME IInv, Next PROVE DeletedIsUnused'
  BY Zenon
<1>1. TypeOK /\ DeletedIsUnused /\ LocksFit /\ StartsFit /\ procs \subseteq Pids
  BY Numbers, Zenon DEF IInv, TypeOK
<1>2. ASSUME NEW r \in Pids \ procs' PROVE NoThread(r)'
  <2>1. NoThread(r)
    BY <1>1, <1>2, TableFacts, Zenon DEF Deletes, DeletedIsUnused
  <2>2. CASE OneMoves
    BY <1>2, <2>1, <2>2, MoveFacts, Zenon
  <2>3. CASE UNCHANGED thread
    BY <2>1, <2>3, Zenon DEF NoThread
  <2>4. ASSUME NEW p \in Pids, thread[p] \notin {"none", "exited"}, NEW x, ThreadTo(p, x) PROVE NoThread(r)'
    BY <1>2, <2>1, <2>4, Zenon DEF ThreadTo, NoThread
  <2>5. ASSUME NEW p \in Pids, Starts(p) PROVE NoThread(r)'
    <3>1. arg[p] \in procs /\ procs' = procs /\ r # p
      BY <1>1, <2>1, <2>5, Zenon DEF Starts, DeletedIsUnused, NoThread
    <3>2. thread'[r] = thread[r]
      BY <1>1, <1>2, <2>5, <3>1, Zenon DEF Starts, TypeOK
    <3> QED
      BY <2>1, <3>2, Zenon DEF NoThread
  <2>6. ASSUME NEW p \in Pids, Claims(p) \/ Fetches(p) PROVE NoThread(r)'
    BY <2>4, <2>6, Zenon DEF Claims, Fetches
  <2>7. ASSUME NEW p \in Pids, NEW q \in Pids, Reports(p, q), ~Moved(p) PROVE NoThread(r)'
    BY <2>4, <2>7, Zenon DEF Reports
  <2>8. HkJoin \/ HkParent => UNCHANGED thread
    BY <1>1, HkFacts, Zenon
  <2> QED
    BY <1>1, <2>2, <2>3, <2>5, <2>6, <2>7, <2>8, NextCases, Zenon DEF Calm, Creates, Deletes, OneMoves
<1>3. ASSUME NEW r \in Pids \ procs' PROVE Unlocked(r)'
  <2>1. CASE r \in procs
    BY <1>1, <2>1, TableFacts, Zenon DEF Deletes, Unlocked
  <2>2. CASE r \notin procs
    BY <1>1, <2>2, MutexFacts, Zenon DEF DeletedIsUnused, Unlocked
  <2> QED
    BY <2>1, <2>2, Zenon
<1>4. \A p \in Pids : Loads(p)' => arg'[p] \in procs'
  BY StartsHold, Zenon DEF StartsFit
<1>5. HkUses' => hkp' \in procs' /\ hkp' \in Pids
  <2>1. CASE HkUses
    <3>1. procs' = procs /\ hkp \in procs
      BY <1>1, <2>1, TableFacts, Zenon DEF LocksFit, DeletedIsUnused, HkUses
    <3>2. HkUses' => hkp' = hkp
      BY <2>1, HkFrame, Zenon DEF HkStep, HkTake, HkPassEnd, HkLookup, HkPanic, HkRuntime, HkJoin,
         HkParent, HkNotify, HkDeleteJoins, HkDelete, HkGoto, HkUses
    <3> QED
      BY <1>1, <3>1, <3>2, Zenon
  <2>2. CASE ~HkUses
    <3>1. CASE HkLookup
      BY <1>1, <3>1, Zenon DEF HkLookup, HkGoto, HkUses, procVars
    <3>2. CASE ~HkLookup
      BY <2>2, <3>2, HkFrame, Zenon DEF HkStep, HkTake, HkPassEnd, HkPanic, HkRuntime, HkJoin,
         HkParent, HkNotify, HkDeleteJoins, DeleteJoins, HkDelete, HkGoto, HkUses, hkVars
    <3> QED
      BY <3>1, <3>2, Zenon
  <2> QED
    BY <2>1, <2>2, Zenon
<1>6. ASSUME OnlyInitsChildren', HkUses' PROVE parent'[hkp'] \in procs' \union {NoPid}
  <2>1. parent'[hkp'] \in {NoPid, 1} /\ hkp' \in procs'
    BY <1>5, <1>6, Zenon DEF OnlyInitsChildren
  <2>2. 1 \in procs'
    BY <2>1, InitLastHolds, Zenon DEF InitLast, InitGone
  <2> QED
    BY <2>1, <2>2, Zenon
<1> QED
  BY <1>2, <1>3, <1>4, <1>5, <1>6, Zenon DEF DeletedIsUnused, ParentLives, Loads, HkUses

(* A thread that has made its last call makes no other.                    *)
LEMMA EndedHolds ==
  ASSUME IInv, Next, NEW r \in Pids, Ended(r)
  PROVE  Ended(r)'
<1>1. TypeOK /\ StartsFit /\ thread \in [Pids -> Places]
  BY Zenon DEF IInv, TypeOK
<1>2. CASE OneMoves
  BY <1>2, MoveFacts, Zenon
<1>3. CASE HkJoin \/ HkParent
  BY <1>1, <1>3, HkFacts, Zenon DEF Ended
<1>4. ASSUME NEW p \in Pids, thread[p] \notin {"dying", "exited"}, NEW x, ThreadTo(p, x) PROVE Ended(r)'
  BY <1>4, Zenon DEF ThreadTo, Ended
<1>5. ASSUME NEW p \in Pids, Claims(p) \/ Fetches(p) PROVE Ended(r)'
  BY <1>4, <1>5, Zenon DEF Claims, Fetches
<1>6. ASSUME NEW p \in Pids, NEW q \in Pids, Reports(p, q), ~Moved(p) PROVE Ended(r)'
  BY <1>4, <1>6, Zenon DEF Reports
<1>7. ASSUME NEW p \in Pids, Starts(p) PROVE Ended(r)'
  <2>1. r # p /\ r # arg[p]
    BY <1>1, <1>7, Zenon DEF Starts, StartsFit, Loads, Ended
  <2>2. thread'[r] = thread[r]
    BY <1>1, <1>7, <2>1, Zenon DEF Starts
  <2> QED
    BY <2>2, Zenon DEF Ended
<1> QED
  BY <1>1, <1>2, <1>3, <1>5, <1>6, <1>7, NextCases, Zenon DEF Calm, Creates, Deletes, OneMoves

(* Reports and PROC_STATECHG: a report follows the notification.           *)
LEMMA ReportFacts ==
  ASSUME IInv, Next, CleanFits, NEW r \in Pids
  PROVE  /\ "STATECHG" \in flags'[r] => Ended(r)' /\ reports'[r] = 0
         /\ reports'[r] # 0 => Ended(r)' /\ reports'[r] = 1
         /\ "STATECHG" \in flags'[r] => \/ "STATECHG" \in flags[r]
                                        \/ r = hkp /\ hk = "parent" /\ hk' = "notify"
         /\ reports'[r] # reports[r] => "STATECHG" \in flags[r]
<1>1. /\ TypeOK /\ flags \in [Pids -> SUBSET Flags] /\ reports \in [Pids -> Nat]
      /\ "STATECHG" \in flags[r] => Ended(r) /\ reports[r] = 0
      /\ reports[r] # 0 => Ended(r) /\ reports[r] = 1
      /\ Ended(r) => Ended(r)'
  BY EndedHolds, Zenon DEF IInv, TypeOK, CleanFits
<1>2. CASE UNCHANGED reports /\ ("STATECHG" \in flags'[r] => "STATECHG" \in flags[r])
  BY <1>1, <1>2, Zenon
<1>3. CASE Calm
  BY <1>2, <1>3, Zenon DEF Calm, SameFlags
<1>4. CASE HkJoin
  BY <1>1, <1>2, <1>4, HkFacts, Zenon
<1>5. CASE HkParent
  <2>1. UNCHANGED reports /\ hk = "parent" /\ (r # hkp => flags'[r] = flags[r])
    BY <1>1, <1>5, HkFacts, Zenon DEF HkParent
  <2>2. r = hkp => Ended(r) /\ reports[r] = 0
    BY <2>1, Zenon DEF CleanFits, Pending
  <2>3. UNCHANGED flags \/ hk' = "notify"
    BY <1>5, Zenon DEF HkParent, HkGoto
  <2> QED
    BY <1>1, <2>1, <2>2, <2>3, Zenon
<1>6. ASSUME NEW p \in Pids, Creates(p) PROVE UNCHANGED reports /\ ("STATECHG" \in flags'[r] => "STATECHG" \in flags[r])
  <2>1. UNCHANGED reports /\ (flags'[r] = flags[r] \/ flags'[r] = {"PRESTART"})
    BY <1>1, <1>6, Zenon DEF Creates
  <2>2. "STATECHG" \notin {"PRESTART"}
    BY Zenon
  <2> QED
    BY <2>1, <2>2, Zenon
<1>7. ASSUME NEW p \in Pids, Claims(p) \/ Fetches(p)
      PROVE  UNCHANGED reports /\ ("STATECHG" \in flags'[r] => "STATECHG" \in flags[r])
  BY <1>1, <1>7, Zenon DEF Claims, Fetches
<1>8. ASSUME NEW p \in Pids, Starts(p) PROVE UNCHANGED reports /\ ("STATECHG" \in flags'[r] => "STATECHG" \in flags[r])
  <2>1. UNCHANGED reports /\ (flags'[r] = flags[r] \/ flags'[r] = {"RUNNING"})
    BY <1>1, <1>8, Zenon DEF Starts
  <2>2. "STATECHG" \notin {"RUNNING"}
    BY Zenon
  <2> QED
    BY <2>1, <2>2, Zenon
<1>9. ASSUME NEW q \in Pids, Deletes(q) PROVE UNCHANGED <<reports, flags>>
  BY <1>9, Zenon DEF Deletes
<1>10. ASSUME NEW p \in Pids, NEW q \in Pids, Reports(p, q)
       PROVE  /\ r # q => reports'[r] = reports[r] /\ flags'[r] = flags[r]
              /\ r = q => reports'[r] = reports[r] + 1 /\ "STATECHG" \notin flags'[r]
              /\ "STATECHG" \in flags[q]
  BY <1>1, <1>10, Zenon DEF Reports
<1>11. CASE \E p, q \in Pids : Reports(p, q)
  <2>1. PICK p \in Pids, q \in Pids : Reports(p, q)
    BY <1>11, Zenon
  <2>2. CASE r = q
    <3>1. reports[r] = 0 /\ reports'[r] = 0 + 1 /\ "STATECHG" \in flags[r] /\ "STATECHG" \notin flags'[r]
      BY <1>1, <1>10, <2>1, <2>2, Zenon
    <3> QED
      BY <1>1, <3>1, Numbers, Zenon
  <2>3. CASE r # q
    BY <1>1, <1>10, <2>1, <2>3, Zenon
  <2> QED
    BY <2>2, <2>3, Zenon
<1> QED
  BY <1>1, <1>2, <1>3, <1>4, <1>5, <1>6, <1>7, <1>8, <1>9, <1>11, NextCases, Zenon

(* The queue of tasks: a thread adds its task, the housekeeping thread     *)
(* takes the first.                                                        *)
LEMMA TaskFacts ==
  ASSUME Next, NobodyKilled'
  PROVE  /\ NobodyKilled
         /\ \/ UNCHANGED tasks /\ (hk' \notin {"idle", "pass"} => hk \notin {"idle", "pass"} /\ hkp' = hkp)
            \/ HkTake
            \/ \E p \in Pids : ExitQueue(p)
         /\ \/ HkTake
            \/ hk' \in {"lookup", "runtime", "join", "parent"} =>
                 hk \in {"lookup", "runtime", "join", "parent"} /\ hkp' = hkp
<1> USE DEF hkVars, mainVars
<1>1. ASSUME NEW p \in Pids, Syscall(p) \/ TakeSignal(p) \/ Step(p)
      PROVE  UNCHANGED <<main, hk, hkp>> /\ (UNCHANGED tasks \/ ExitQueue(p))
  BY <1>1, Zenon DEF Step, Syscall, Killed, TakeSignal, HandleSignal, WaitNoChild, Poll, Touch,
     Shutdown, ExitMark, ExitQueue, ThreadExit, Create, StartClaim, StartLock, StartDone,
     StartFails, WaitClaim, ReapJoins, DeleteJoins, Destroy, Reap
<1>2. ASSUME MainStep PROVE UNCHANGED <<hk, hkp, tasks>> /\ NobodyKilled
  <2>1. CASE MainStart \/ MainWarn \/ MainHup \/ MainWait \/ MainDoom
    BY <2>1, Zenon DEF MainStart, MainWarn, MainHup, MainWait, MainDoom, Survey, SignalAll, NobodyKilled
  <2>2. CASE MainSignalled
    BY <2>2, Zenon DEF MainSignalled, MainGoto, NobodyKilled
  <2>3. CASE MainKill \/ MainQueue \/ MainInit \/ MainInitHup \/ MainWaitInit
    BY <2>3, Zenon DEF MainKill, MainQueue, MainInit, MainInitHup, MainWaitInit, MainGoto, NobodyKilled
  <2> QED
    BY <1>2, <2>1, <2>2, <2>3, Zenon DEF MainStep
<1>3. ASSUME HkStep PROVE UNCHANGED main
  BY <1>3, Zenon DEF HkStep, HkTake, HkPassEnd, HkLookup, HkPanic, HkRuntime, HkJoin, HkParent,
     HkNotify, HkDeleteJoins, DeleteJoins, HkDelete
<1>4. ASSUME HkStep, ~HkTake
      PROVE  /\ UNCHANGED tasks
             /\ hk' \notin {"idle", "pass"} => hk \notin {"idle", "pass"} /\ hkp' = hkp
             /\ hk' \in {"lookup", "runtime", "join", "parent"} =>
                  hk \in {"lookup", "runtime", "join", "parent"} /\ hkp' = hkp
  <2>1. CASE HkPassEnd
    BY <2>1, Zenon DEF HkPassEnd
  <2>2. CASE HkLookup \/ HkPanic \/ HkRuntime \/ HkJoin
    BY <2>2, Zenon DEF HkLookup, HkPanic, HkRuntime, HkJoin, HkGoto
  <2>3. CASE HkParent
    BY <2>3, Zenon DEF HkParent, HkGoto
  <2>4. CASE HkNotify \/ HkDelete
    BY <2>4, Zenon DEF HkNotify, HkDelete, HkGoto
  <2>5. CASE HkDeleteJoins
    BY <2>5, Zenon DEF HkDeleteJoins, DeleteJoins
  <2> QED
    BY <1>4, <2>1, <2>2, <2>3, <2>4, <2>5, Zenon DEF HkStep
<1> QED
  BY <1>1, <1>2, <1>3, <1>4, Zenon DEF Next, NobodyKilled

(* The task queue that a thread extends or the housekeeping thread takes   *)
(* from.                                                                   *)
LEMMA QueueFacts ==
  ASSUME IInv, Next, NobodyKilled', CleanFits
  PROVE  /\ IsInjective(tasks')
         /\ hk' \notin {"idle", "pass"} => hkp' \in Pids \ Range(tasks')
         /\ \A r \in Pids : Pending(r)' => Pending(r) \/ ExitQueue(r)
<1>1. tasks \in Seq(Pids) /\ IsInjective(tasks) /\ (hk \notin {"idle", "pass"} => hkp \in Pids \ Range(tasks))
  BY Zenon DEF IInv, TypeOK, CleanFits
<1>2. CASE HkTake
  <2>1. tasks # <<>> /\ hkp' = Head(tasks) /\ tasks' = Tail(tasks) /\ hk' = "lookup"
    BY <1>2, Zenon DEF HkTake
  <2>2. Head(tasks) \in Range(tasks) /\ Head(tasks) \in Pids /\ Range(tasks') = Range(tasks) \ {Head(tasks)} /\ IsInjective(tasks')
    BY <1>1, <2>1, TailSet, Zenon
  <2> QED
    BY <2>1, <2>2, Zenon DEF Pending
<1>3. ASSUME NEW p \in Pids, ExitQueue(p), ~HkTake
      PROVE  /\ IsInjective(tasks')
             /\ hk' \notin {"idle", "pass"} => hkp' \in Pids \ Range(tasks')
             /\ \A r \in Pids : Pending(r)' => Pending(r) \/ ExitQueue(r)
  <2>1. /\ tasks' = <<p>> \o tasks \/ tasks' = tasks
        /\ hk = "idle" /\ hk' = hk /\ hkp' = hkp /\ thread[p] = "queue"
    BY <1>3, Zenon DEF ExitQueue, ExitTask, HkAddOnce
  <2>2. p \notin Range(tasks)
    BY <2>1, Zenon DEF CleanFits, Pending, Ended
  <2>3. Range(tasks') \subseteq {p} \union Range(tasks) /\ IsInjective(tasks')
    BY <1>1, <2>1, <2>2, Pushed, Zenon
  <2> QED
    BY <1>3, <2>1, <2>3, Zenon DEF Pending
<1>4. ASSUME ~HkTake, ~\E p \in Pids : ExitQueue(p)
      PROVE  /\ IsInjective(tasks')
             /\ hk' \notin {"idle", "pass"} => hkp' \in Pids \ Range(tasks')
             /\ \A r \in Pids : Pending(r)' => Pending(r) \/ ExitQueue(r)
  BY <1>1, <1>4, TaskFacts, Zenon DEF Pending
<1> QED
  BY <1>2, <1>3, <1>4, Zenon

(* CleanFits, for every step.                                              *)
LEMMA CleanHolds == IInv /\ Next => (NobodyKilled' => CleanFits')
<1> SUFFICES ASSUME IInv, Next, NobodyKilled' PROVE CleanFits'
  BY Zenon
<1>1. TypeOK /\ CleanFits /\ StartsFit /\ ReapsFit /\ DeletedIsUnused
  BY TaskFacts, Zenon DEF IInv
<1>2. ASSUME NEW r \in Pids, Pending(r)', Pending(r) PROVE r \in procs'
  <2>1. r \in procs /\ Ended(r) /\ reports[r] = 0
    BY <1>1, <1>2, Zenon DEF CleanFits
  <2>2. ASSUME Deletes(r) PROVE FALSE
    <3>1. "PRESTART" \notin flags[r]
      BY <1>1, <2>1, Zenon DEF StartsFit, Ended
    <3>2. ASSUME NEW p \in Pids, thread[p] = "reap", arg[p] = r PROVE FALSE
      BY <1>1, <2>1, <3>2, Zenon DEF ReapsFit
    <3>3. ~(hk = "delete" /\ hkp = r)
      BY <1>1, <1>2, Zenon DEF CleanFits, Pending
    <3> QED
      BY <2>2, <3>1, <3>2, <3>3, Zenon DEF Deletes
  <2> QED
    BY <1>1, <2>1, <2>2, TableFacts, Zenon
<1>3. ASSUME NEW r \in Pids, Pending(r)', Pending(r)
      PROVE  Ended(r)' /\ reports'[r] = 0 /\ "STATECHG" \notin flags'[r]
  <2>1. Ended(r) /\ reports[r] = 0 /\ "STATECHG" \notin flags[r]
    BY <1>1, <1>3, Zenon DEF CleanFits
  <2>2. Ended(r)' /\ reports'[r] = 0
    BY <1>1, <2>1, EndedHolds, ReportFacts, Zenon
  <2>3. ASSUME r = hkp, hk = "parent", hk' = "notify" PROVE FALSE
    <3>1. HkStep
      BY <2>3, HkFrame, Zenon
    <3>2. ~HkTake /\ \A p \in Pids : ~ExitQueue(p)
      BY <2>3, Zenon DEF HkTake, ExitQueue, ExitTask, HkAddOnce
    <3>3. UNCHANGED tasks
      BY <3>2, TaskFacts, Zenon
    <3>4. r \notin Range(tasks)
      BY <1>1, <2>3, Zenon DEF CleanFits
    <3> QED
      BY <1>3, <2>3, <3>3, <3>4, Zenon DEF Pending
  <2> QED
    BY <1>1, <2>1, <2>2, <2>3, ReportFacts, Zenon
<1>4. ASSUME NEW r \in Pids, ExitQueue(r)
      PROVE  r \in procs' /\ Ended(r)' /\ reports'[r] = 0 /\ "STATECHG" \notin flags'[r]
  <2>1. /\ thread[r] = "queue" /\ Goto(r, "dying") /\ UNCHANGED <<procs, reports, flags>>
    BY <1>4, Zenon DEF ExitQueue, procVars
  <2>2. r \in procs /\ ~Ended(r)
    BY <1>1, <2>1, Zenon DEF DeletedIsUnused, NoThread, Ended
  <2>3. thread'[r] = "dying"
    BY <1>1, <2>1, Zenon DEF Goto, TypeOK
  <2> QED
    BY <1>1, <2>1, <2>2, <2>3, Zenon DEF CleanFits, Ended
<1>5. \A r \in Pids : Pending(r)' =>
        r \in procs' /\ Ended(r)' /\ reports'[r] = 0 /\ "STATECHG" \notin flags'[r]
  BY <1>1, <1>2, <1>3, <1>4, QueueFacts, Zenon
<1>6. \A r \in Pids : /\ "STATECHG" \in flags'[r] => Ended(r)' /\ reports'[r] = 0
                      /\ reports'[r] # 0 => Ended(r)' /\ reports'[r] = 1
  BY <1>1, ReportFacts, Zenon
<1>7. IsInjective(tasks') /\ (hk' \notin {"idle", "pass"} => hkp' \in Pids \ Range(tasks'))
  BY <1>1, QueueFacts, Zenon
<1> QED
  BY <1>5, <1>6, <1>7, Zenon DEF CleanFits

(* CleanUpSurvives, for every step: a task finds its process, and a parent  *)
(* that the clean-up uses is init, which is there.                         *)
LEMMA SurvivesHolds == IInv /\ Next => CleanUpSurvives'
<1> SUFFICES ASSUME IInv, Next, NobodyKilled', OnlyInitsChildren', hk' = "crash" PROVE FALSE
  BY Zenon DEF CleanUpSurvives, Ordinary
<1>1. /\ hk # "crash" /\ CleanFits /\ DeletedIsUnused
  BY TaskFacts, Zenon DEF IInv, Next, Up
<1>2. HkStep
  BY <1>1, HkFrame, Zenon
<1>3. ASSUME HkLookup PROVE FALSE
  <2>1. hk = "lookup" /\ hkp \notin procs
    BY <1>3, Zenon DEF HkLookup, HkGoto
  <2>2. hk \notin {"idle", "pass"}
    BY <2>1, Zenon
  <2> QED
    BY <1>1, <2>1, <2>2, Zenon DEF CleanFits, Pending
<1>4. ASSUME HkParent PROVE FALSE
  <2>1. hk = "parent" /\ parent' = parent
    BY <1>4, Zenon DEF HkParent
  <2>2. parent[hkp] \notin procs \union {NoPid}
    BY <1>4, Zenon DEF HkParent, HkGoto
  <2>3. OnlyInitsChildren
    BY <2>1, Zenon DEF OnlyInitsChildren
  <2> QED
    BY <1>1, <2>1, <2>2, <2>3, Zenon DEF DeletedIsUnused, ParentLives
<1>5. ASSUME HkTake \/ HkPassEnd \/ HkPanic \/ HkRuntime \/ HkJoin \/ HkNotify \/ HkDelete PROVE FALSE
  BY <1>5, Zenon DEF HkTake, HkPassEnd, HkPanic, HkRuntime, HkJoin, HkNotify, HkDelete, HkGoto
<1>6. ASSUME HkDeleteJoins PROVE FALSE
  BY <1>1, <1>6, Zenon DEF HkDeleteJoins, DeleteJoins, hkVars
<1> QED
  BY <1>2, <1>3, <1>4, <1>5, <1>6, Zenon DEF HkStep

-----------------------------------------------------------------------------
(* The types of what NextCases tells.                                      *)
LEMMA TableTypes ==
  ASSUME IInv, Next
  PROVE  /\ next' \in 2 .. MaxPid + 1 /\ procs' \subseteq 1 .. next' - 1
         /\ parent' \in [Pids -> Pids \union {NoPid}] /\ kids' \in [Pids -> SUBSET Pids]
         /\ reports' \in [Pids -> Nat]
<1>1. /\ next \in 2 .. MaxPid + 1 /\ procs \subseteq 1 .. next - 1
      /\ parent \in [Pids -> Pids \union {NoPid}] /\ kids \in [Pids -> SUBSET Pids]
      /\ reports \in [Pids -> Nat] /\ TypeOK
  BY Zenon DEF IInv, TypeOK
<1>2. ASSUME NEW q \in Pids PROVE Adopt(q) \in [Pids -> SUBSET Pids]
  <2>1. kids[1] \union kids[q] \in SUBSET Pids
    BY <1>1, Numbers, Zenon
  <2>2. [kids EXCEPT ![1] = @ \union kids[q], ![q] = {}] \in [Pids -> SUBSET Pids]
    BY <1>1, <2>1, Zenon
  <2> QED
    BY <1>1, <2>2, Zenon DEF Adopt
<1>3. CASE UNCHANGED <<procs, next, parent, kids, reports>>
  BY <1>1, <1>3, Zenon
<1>4. CASE HkJoin \/ HkParent
  <2>1. hk = "join" => hkp \in Pids
    BY <1>1, Numbers, Zenon DEF IInv, DeletedIsUnused
  <2>2. kids' \in [Pids -> SUBSET Pids]
    BY <1>1, <1>2, <1>4, <2>1, Zenon DEF HkJoin, HkParent
  <2> QED
    BY <1>1, <1>4, <2>2, HkFacts, Zenon
<1>5. ASSUME NEW p \in Pids, Creates(p)
      PROVE  /\ next' \in 2 .. MaxPid + 1 /\ procs' \subseteq 1 .. next' - 1
             /\ parent' \in [Pids -> Pids \union {NoPid}] /\ kids' \in [Pids -> SUBSET Pids]
             /\ reports' \in [Pids -> Nat]
  <2>1. conf.maxPid \in Pids /\ next <= conf.maxPid
    BY <1>1, <1>5, ProcessAssumption, Zenon DEF Creates, TypeOK
  <2>2. /\ next' \in 2 .. MaxPid + 1 /\ next \in Pids /\ next' = next + 1
        /\ 1 .. (next + 1) - 1 = (1 .. next - 1) \union {next}
    BY <1>1, <1>5, <2>1, Numbers, Zenon DEF Creates
  <2>3. procs' \subseteq 1 .. next' - 1
    BY <1>1, <1>5, <2>2, Zenon DEF Creates
  <2>4. parent' \in [Pids -> Pids \union {NoPid}]
    BY <1>1, <1>5, Zenon DEF Creates
  <2>5. kids[p] \union {next} \in SUBSET Pids
    BY <1>1, <2>2, Zenon
  <2>6. kids' \in [Pids -> SUBSET Pids]
    BY <1>1, <1>5, <2>5, Zenon DEF Creates
  <2> QED
    BY <1>1, <1>5, <2>2, <2>3, <2>4, <2>6, Zenon DEF Creates
<1>6. ASSUME NEW p \in Pids, Claims(p) \/ Fetches(p) \/ Starts(p)
      PROVE  UNCHANGED <<procs, next, parent, kids, reports>>
  BY <1>6, Zenon DEF Claims, Fetches, Starts
<1>7. ASSUME NEW q \in Pids, Deletes(q)
      PROVE  /\ UNCHANGED <<next, parent, reports>> /\ procs' \subseteq 1 .. next - 1
             /\ kids' \in [Pids -> SUBSET Pids]
  <2>1. UNCHANGED <<next, parent, reports>> /\ procs' \subseteq 1 .. next - 1
    BY <1>1, <1>7, Zenon DEF Deletes
  <2>2. ASSUME NEW k \in [Pids -> SUBSET Pids] PROVE Unlisted(k, q) \in [Pids -> SUBSET Pids]
    <3>1. \A p \in Pids : (IF p = parent[q] THEN k[p] \ {q} ELSE k[p]) \in SUBSET Pids
      BY <2>2, Zenon
    <3> QED
      BY <3>1, Zenon DEF Unlisted
  <2>3. (IF "EXITED" \in flags[q] THEN kids ELSE Adopt(q)) \in [Pids -> SUBSET Pids]
    BY <1>1, <1>2, Zenon
  <2> QED
    BY <1>7, <2>1, <2>2, <2>3, Zenon DEF Deletes
<1>8. ASSUME NEW p \in Pids, NEW q \in Pids, Reports(p, q)
      PROVE  UNCHANGED <<procs, next, parent, kids>> /\ reports' \in [Pids -> Nat]
  <2>1. reports[q] + 1 \in Nat
    BY <1>1, Numbers, Zenon
  <2> QED
    BY <1>1, <1>8, <2>1, Zenon DEF Reports
<1> QED
  BY <1>1, <1>3, <1>4, <1>5, <1>6, <1>7, <1>8, NextCases, Zenon DEF Calm

(* The flags, the signals and their handlers.                              *)
LEMMA FlagTypes ==
  ASSUME TypeOK, Next
  PROVE  /\ flags' \in [Pids -> SUBSET Flags] /\ ignore' \in [Pids -> BOOLEAN]
         /\ sig' \in [Pids -> Seq({"CHLD", "HUP"})]
<1> USE DEF procVars
<1>1. /\ flags \in [Pids -> SUBSET Flags] /\ ignore \in [Pids -> BOOLEAN]
      /\ sig \in [Pids -> Seq({"CHLD", "HUP"})]
  BY Zenon DEF TypeOK
<1>2. ASSUME NEW q, NEW on \in SUBSET Flags, AddFlags(q, on) PROVE flags' \in [Pids -> SUBSET Flags]
  <2>1. q \in Pids => flags[q] \union on \in SUBSET Flags
    BY <1>1, Zenon
  <2>2. CASE q \in Pids
    BY <1>1, <1>2, <2>1, <2>2, Zenon DEF AddFlags
  <2> QED
    BY <1>1, <1>2, <2>2, Zenon DEF AddFlags
<1>3. /\ {"EXITING"} \in SUBSET Flags /\ {"SIGPEND"} \in SUBSET Flags /\ {"STATECHG"} \in SUBSET Flags
      /\ {"PRESTART"} \in SUBSET Flags /\ {"RUNNING"} \in SUBSET Flags /\ "EXITED" \in Flags
  BY Zenon DEF Flags
<1>4. ASSUME NEW q, NEW s \in {"CHLD", "HUP"}, Raise(q, s)
      PROVE  /\ flags' \in [Pids -> SUBSET Flags] /\ UNCHANGED ignore
             /\ sig' \in [Pids -> Seq({"CHLD", "HUP"})]
  <2>1. CASE UNCHANGED procVars
    BY <1>1, <2>1, Zenon
  <2>2. CASE ~UNCHANGED procVars
    <3>1. sig' = [sig EXCEPT ![q] = Append(sig[q], s)] /\ AddFlags(q, {"SIGPEND"}) /\ UNCHANGED ignore
      BY <1>4, <2>2, Zenon DEF Raise
    <3>2. q \in Pids => Append(sig[q], s) \in Seq({"CHLD", "HUP"})
      BY <1>1, ListTypes, Zenon
    <3>3. CASE q \in Pids
      BY <1>1, <1>2, <1>3, <3>1, <3>2, <3>3, Zenon
    <3> QED
      BY <1>1, <1>2, <1>3, <3>1, <3>3, Zenon
  <2> QED
    BY <2>1, <2>2, Zenon
<1>5. ASSUME NEW a, NEW q, DeleteJoins(a, q)
      PROVE  flags' \in [Pids -> SUBSET Flags] /\ UNCHANGED <<ignore, sig>>
  BY <1>2, <1>3, <1>5, Zenon DEF DeleteJoins
<1>6. ASSUME NEW a, NEW q, Delete(a, q) PROVE UNCHANGED <<flags, ignore, sig>>
  BY <1>6, Zenon DEF Delete
<1>7. ASSUME NEW p \in Pids, Syscall(p) \/ TakeSignal(p) \/ Step(p)
      PROVE  /\ flags' \in [Pids -> SUBSET Flags] /\ ignore' \in [Pids -> BOOLEAN]
             /\ sig' \in [Pids -> Seq({"CHLD", "HUP"})]
  <2>1. CASE HandleSignal(p)
    <3>1. /\ UNCHANGED <<flags, ignore>>
          /\ UNCHANGED sig \/ (sig[p] # <<>> /\ sig' = [sig EXCEPT ![p] = Tail(@)])
      BY <2>1, Zenon DEF HandleSignal
    <3>2. sig[p] # <<>> => Tail(sig[p]) \in Seq({"CHLD", "HUP"})
      BY <1>1, ListTypes, Zenon
    <3> QED
      BY <1>1, <3>1, <3>2, Zenon
  <2>2. CASE Create(p)
    <3>1. /\ UNCHANGED <<ignore, sig>>
          /\ UNCHANGED flags \/ flags' = [flags EXCEPT ![next] = {"PRESTART"}]
      BY <2>2, Zenon DEF Create
    <3> QED
      BY <1>1, <1>3, <3>1, Zenon
  <2>3. CASE StartClaim(p)
    <3>1. /\ UNCHANGED <<ignore, sig>>
          /\ UNCHANGED flags \/ (arg[p] \in Pids /\ flags' = [flags EXCEPT ![arg[p]] = @ \ {"PRESTART"}])
      BY <2>3, Numbers, Zenon DEF StartClaim, Claimed, TypeOK
    <3>2. arg[p] \in Pids => flags[arg[p]] \ {"PRESTART"} \in SUBSET Flags
      BY <1>1, Zenon
    <3> QED
      BY <1>1, <3>1, <3>2, Zenon
  <2>4. CASE StartDone(p)
    BY <1>1, <1>3, <2>4, Zenon DEF StartDone
  <2>5. CASE WaitClaim(p)
    <3>1. PICK q \in Pids : flags' = [flags EXCEPT ![q] = @ \ {"STATECHG"}]
      BY <2>5, Zenon DEF WaitClaim, Claim, TypeOK
    <3>2. flags[q] \ {"STATECHG"} \in SUBSET Flags
      BY <1>1, Zenon
    <3> QED
      BY <1>1, <2>5, <3>1, <3>2, Zenon DEF WaitClaim
  <2>6. CASE ReapJoins(p)
    BY <1>1, <1>5, <2>6, Zenon DEF ReapJoins
  <2>7. CASE Destroy(p) \/ Reap(p)
    BY <1>1, <1>6, <2>7, Zenon DEF Destroy, Reap
  <2>8. CASE Touch(p)
    BY <1>1, <2>8, Zenon DEF Touch
  <2>9. CASE ExitMark(p)
    BY <1>1, <1>2, <1>3, <2>9, Zenon DEF ExitMark
  <2>10. CASE \/ Syscall(p) \/ TakeSignal(p) \/ Killed(p) \/ WaitNoChild(p) \/ Poll(p) \/ Shutdown(p)
              \/ ExitQueue(p) \/ ThreadExit(p) \/ StartLock(p) \/ StartFails(p)
    BY <1>1, <2>10, Zenon DEF Syscall, TakeSignal, Killed, WaitNoChild, Poll, Shutdown, ExitQueue,
       ThreadExit, StartLock, StartFails
  <2> QED
    BY <1>7, <2>1, <2>2, <2>3, <2>4, <2>5, <2>6, <2>7, <2>8, <2>9, <2>10, Zenon DEF Step
<1>8. ASSUME HkStep
      PROVE  /\ flags' \in [Pids -> SUBSET Flags] /\ ignore' \in [Pids -> BOOLEAN]
             /\ sig' \in [Pids -> Seq({"CHLD", "HUP"})]
  <2>1. CASE HkRuntime
    <3>1. UNCHANGED <<ignore, sig>> /\ (UNCHANGED flags \/ AddFlags(hkp, {"EXITING"}))
      BY <2>1, Zenon DEF HkRuntime
    <3> QED
      BY <1>1, <1>2, <1>3, <3>1, Zenon
  <2>2. CASE HkJoin
    <3>1. UNCHANGED <<ignore, sig>> /\ flags' = [flags EXCEPT ![hkp] = (@ \union {"EXITED"}) \ {"EXITING", "RUNNING"}]
      BY <2>2, Zenon DEF HkJoin
    <3>2. hkp \in Pids => (flags[hkp] \union {"EXITED"}) \ {"EXITING", "RUNNING"} \in SUBSET Flags
      BY <1>1, <1>3, Zenon
    <3>3. CASE hkp \in Pids
      BY <1>1, <3>1, <3>2, <3>3, Zenon
    <3> QED
      BY <1>1, <3>1, <3>3, Zenon
  <2>3. CASE HkParent
    <3>1. UNCHANGED <<ignore, sig>> /\ (UNCHANGED flags \/ AddFlags(hkp, {"STATECHG"}))
      BY <2>3, Zenon DEF HkParent
    <3> QED
      BY <1>1, <1>2, <1>3, <3>1, Zenon
  <2>4. CASE HkNotify
    BY <1>1, <1>4, <2>4, Zenon DEF HkNotify
  <2>5. CASE HkDeleteJoins
    BY <1>1, <1>5, <2>5, Zenon DEF HkDeleteJoins
  <2>6. CASE HkDelete
    BY <1>1, <1>6, <2>6, Zenon DEF HkDelete
  <2>7. CASE HkTake \/ HkPassEnd \/ HkLookup \/ HkPanic
    BY <1>1, <2>7, Zenon DEF HkTake, HkPassEnd, HkLookup, HkPanic
  <2> QED
    BY <1>8, <2>1, <2>2, <2>3, <2>4, <2>5, <2>6, <2>7, Zenon DEF HkStep
<1>9. ASSUME MainStep
      PROVE  /\ flags' \in [Pids -> SUBSET Flags] /\ ignore' \in [Pids -> BOOLEAN]
             /\ sig' \in [Pids -> Seq({"CHLD", "HUP"})]
  <2>1. CASE MainHup
    BY <1>1, <1>4, <2>1, Zenon DEF MainHup
  <2>2. CASE MainInitHup
    BY <1>1, <1>4, <2>2, Zenon DEF MainInitHup
  <2>3. CASE MainKill
    BY <1>1, <1>2, <1>3, <2>3, Zenon DEF MainKill
  <2>4. CASE \/ MainStart \/ MainWarn \/ MainSignalled \/ MainWait \/ MainDoom \/ MainQueue
             \/ MainInit \/ MainWaitInit
    BY <1>1, <2>4, Zenon DEF MainStart, MainWarn, MainSignalled, MainWait, MainDoom, MainQueue, MainInit,
       MainWaitInit, Survey, SignalAll
  <2> QED
    BY <1>9, <2>1, <2>2, <2>3, <2>4, Zenon DEF MainStep
<1> QED
  BY <1>7, <1>8, <1>9, Zenon DEF Next

(* The threads and what their calls are about.                             *)
LEMMA ThreadTypes ==
  ASSUME TypeOK, Next
  PROVE  thread' \in [Pids -> Places] /\ arg' \in [Pids -> Pids \union {NoPid}]
<1> USE DEF threadVars
<1>1. thread \in [Pids -> Places] /\ arg \in [Pids -> Pids \union {NoPid}] /\ procs \subseteq Pids
  BY Numbers, Zenon DEF TypeOK
<1>2. /\ \A x \in {"user", "exited", "signal", "exit", "queue", "dying", "load", "loading", "reap"} : x \in Places
      /\ Calls \subseteq Places
  BY Zenon DEF Places, Calls
<1>3. ASSUME NEW p, NEW x \in Places, Goto(p, x) PROVE thread' \in [Pids -> Places]
  BY <1>1, <1>3, Zenon DEF Goto
<1>4. \A p : Resume(p) \in {"user", "exited"} /\ Resume(p) \in Places
  BY <1>2, Zenon DEF Resume
<1>5. ASSUME NEW p, Return(p)
      PROVE  thread' \in [Pids -> Places] /\ arg' \in [Pids -> Pids \union {NoPid}]
  <2>1. thread' \in [Pids -> Places]
    BY <1>3, <1>4, <1>5, Zenon DEF Return
  <2>2. arg' \in [Pids -> Pids \union {NoPid}]
    BY <1>1, <1>5, Zenon DEF Return
  <2> QED
    BY <2>1, <2>2, Zenon
<1>6. ASSUME NEW p \in Pids, Syscall(p) \/ TakeSignal(p) \/ Step(p)
      PROVE  thread' \in [Pids -> Places] /\ arg' \in [Pids -> Pids \union {NoPid}]
  <2>1. CASE Syscall(p)
    <3>1. conf.ops[p] \subseteq Calls
      BY ProcessAssumption, Zenon DEF TypeOK
    <3>2. PICK x \in Calls : Goto(p, x)
      BY <2>1, <3>1, Zenon DEF Syscall
    <3>3. UNCHANGED arg \/ \E q \in procs : arg' = [arg EXCEPT ![p] = q]
      BY <2>1, Zenon DEF Syscall
    <3>4. arg' \in [Pids -> Pids \union {NoPid}]
      BY <1>1, <3>3, Zenon
    <3> QED
      BY <1>2, <1>3, <3>2, <3>4, Zenon
  <2>2. CASE Killed(p) \/ TakeSignal(p) \/ ExitMark(p) \/ ExitQueue(p) \/ ThreadExit(p) \/ StartLock(p)
    BY <1>1, <1>2, <1>3, <2>2, Zenon DEF Killed, TakeSignal, ExitMark, ExitQueue, ThreadExit, StartLock
  <2>3. CASE HandleSignal(p)
    <3>1. UNCHANGED arg /\ (Goto(p, Resume(p)) \/ Goto(p, "exit"))
      BY <2>3, Zenon DEF HandleSignal
    <3> QED
      BY <1>1, <1>2, <1>3, <1>4, <3>1, Zenon
  <2>4. CASE StartClaim(p)
    <3>1. Return(p) \/ (Goto(p, "load") /\ UNCHANGED arg)
      BY <2>4, Zenon DEF StartClaim
    <3> QED
      BY <1>1, <1>2, <1>3, <1>5, <3>1, Zenon
  <2>5. CASE StartDone(p)
    <3>1. thread' = [thread EXCEPT ![arg[p]] = "user", ![p] = Resume(p)] /\ arg' = [arg EXCEPT ![p] = NoPid]
      BY <2>5, Zenon DEF StartDone
    <3>2. "user" \in Places
      BY <1>2, Zenon
    <3>3. thread' \in [Pids -> Places]
      BY <1>1, <1>4, <3>1, <3>2, Zenon
    <3>4. arg' \in [Pids -> Pids \union {NoPid}]
      BY <1>1, <3>1, Zenon
    <3> QED
      BY <3>3, <3>4, Zenon
  <2>6. CASE WaitClaim(p)
    <3>1. Return(p) \/ (Goto(p, "reap") /\ \E q \in Pids : arg' = [arg EXCEPT ![p] = q])
      BY <2>6, Zenon DEF WaitClaim, TypeOK
    <3> QED
      BY <1>1, <1>2, <1>3, <1>5, <3>1, Zenon
  <2>7. CASE ReapJoins(p)
    BY <1>1, <2>7, Zenon DEF ReapJoins, DeleteJoins
  <2>8. CASE \/ Create(p) \/ StartFails(p) \/ Destroy(p) \/ WaitNoChild(p) \/ Reap(p) \/ Poll(p)
             \/ Touch(p) \/ Shutdown(p)
    BY <1>5, <2>8, Zenon DEF Create, StartFails, Destroy, WaitNoChild, Reap, Poll, Touch, Shutdown
  <2> QED
    BY <1>6, <2>1, <2>2, <2>3, <2>4, <2>5, <2>6, <2>7, <2>8, Zenon DEF Step
<1>7. ASSUME HkStep \/ MainStep PROVE UNCHANGED <<thread, arg>>
  BY <1>7, Zenon DEF HkStep, HkTake, HkPassEnd, HkLookup, HkPanic, HkRuntime, HkJoin, HkParent, HkNotify,
     HkDeleteJoins, DeleteJoins, HkDelete, MainStep, MainStart, MainWarn, MainHup, MainSignalled, MainWait,
     MainDoom, MainKill, MainQueue, MainInit, MainInitHup, MainWaitInit, Survey, SignalAll
<1> QED
  BY <1>1, <1>6, <1>7, Zenon DEF Next

(* The mutexes.                                                            *)
LEMMA LockTypes ==
  ASSUME TypeOK, Next
  PROVE  /\ mtx' \in [Pids -> Pids \union {Hk, Nobody}] /\ shares' \subseteq Pids \union {Hk, Main}
         /\ excl' \in Pids \union {Hk, Nobody}
<1> USE DEF lockVars
<1>1. /\ mtx \in [Pids -> Pids \union {Hk, Nobody}] /\ shares \subseteq Pids \union {Hk, Main}
      /\ excl \in Pids \union {Hk, Nobody}
  BY Zenon DEF TypeOK
<1>2. ASSUME NEW a \in Pids \union {Hk, Nobody}, NEW q, mtx' = [mtx EXCEPT ![q] = a]
      PROVE  mtx' \in [Pids -> Pids \union {Hk, Nobody}]
  BY <1>1, <1>2, Zenon
<1>3. ASSUME NEW a \in Pids \union {Hk}, NEW q, DeleteJoins(a, q) \/ Delete(a, q)
      PROVE  /\ mtx' \in [Pids -> Pids \union {Hk, Nobody}] /\ UNCHANGED shares
             /\ excl' \in Pids \union {Hk, Nobody}
  <2>1. UNCHANGED shares /\ excl' \in Pids \union {Hk, Nobody}
    BY <1>3, Zenon DEF DeleteJoins, Delete
  <2>2. mtx' = [mtx EXCEPT ![q] = a] \/ mtx' = [mtx EXCEPT ![q] = Nobody]
    BY <1>3, Zenon DEF DeleteJoins, Delete
  <2> QED
    BY <1>2, <2>1, <2>2, Zenon
<1>4. ASSUME NEW p \in Pids, Syscall(p) \/ TakeSignal(p) \/ Step(p)
      PROVE  /\ mtx' \in [Pids -> Pids \union {Hk, Nobody}] /\ shares' \subseteq Pids \union {Hk, Main}
             /\ excl' \in Pids \union {Hk, Nobody}
  <2>1. CASE StartClaim(p)
    BY <1>1, <2>1, Zenon DEF StartClaim, StartHolds
  <2>2. CASE StartLock(p)
    BY <1>1, <1>2, <2>2, Zenon DEF StartLock
  <2>3. CASE StartDone(p) \/ StartFails(p)
    <3>1. mtx' = [mtx EXCEPT ![arg[p]] = Nobody] /\ shares' = shares \ {p} /\ UNCHANGED excl
      BY <2>3, Zenon DEF StartDone, StartFails
    <3> QED
      BY <1>1, <1>2, <3>1, Zenon
  <2>4. CASE ReapJoins(p) \/ Destroy(p) \/ Reap(p)
    BY <1>1, <1>3, <2>4, Zenon DEF ReapJoins, Destroy, Reap
  <2>5. CASE \/ Syscall(p) \/ TakeSignal(p) \/ Killed(p) \/ HandleSignal(p) \/ Create(p) \/ WaitClaim(p)
             \/ WaitNoChild(p) \/ Poll(p) \/ Touch(p) \/ Shutdown(p) \/ ExitMark(p) \/ ExitQueue(p)
             \/ ThreadExit(p)
    BY <1>1, <2>5, Zenon DEF Syscall, TakeSignal, Killed, HandleSignal, Create, WaitClaim, WaitNoChild,
       Poll, Touch, Shutdown, ExitMark, ExitQueue, ThreadExit
  <2> QED
    BY <1>4, <2>1, <2>2, <2>3, <2>4, <2>5, Zenon DEF Step
<1>5. ASSUME HkStep
      PROVE  /\ mtx' \in [Pids -> Pids \union {Hk, Nobody}] /\ shares' \subseteq Pids \union {Hk, Main}
             /\ excl' \in Pids \union {Hk, Nobody}
  <2>1. CASE HkLookup \/ HkParent \/ HkNotify
    <3>1. UNCHANGED <<mtx, excl>> /\ shares' \subseteq shares \union {Hk}
      BY <2>1, Zenon DEF HkLookup, HkParent, HkNotify
    <3> QED
      BY <1>1, <3>1, Zenon
  <2>2. CASE HkRuntime
    BY <1>1, <1>2, <2>2, Zenon DEF HkRuntime
  <2>3. CASE HkJoin
    BY <1>1, <1>2, <2>3, Zenon DEF HkJoin
  <2>4. CASE HkDeleteJoins \/ HkDelete
    BY <1>1, <1>3, <2>4, Zenon DEF HkDeleteJoins, HkDelete
  <2>5. CASE HkTake \/ HkPassEnd \/ HkPanic
    BY <1>1, <2>5, Zenon DEF HkTake, HkPassEnd, HkPanic
  <2> QED
    BY <1>5, <2>1, <2>2, <2>3, <2>4, <2>5, Zenon DEF HkStep
<1>6. ASSUME MainStep PROVE UNCHANGED <<mtx, excl>> /\ shares' \subseteq shares \union {Main}
  BY <1>6, Zenon DEF MainStep, MainStart, MainWarn, MainHup, MainSignalled, MainWait, MainDoom, MainKill,
     MainQueue, MainInit, MainInitHup, MainWaitInit, Survey, SignalAll
<1>7. MainStep => shares' \subseteq Pids \union {Hk, Main}
  BY <1>1, <1>6, Zenon
<1> QED
  BY <1>1, <1>4, <1>5, <1>6, <1>7, Zenon DEF Next

(* The housekeeping thread, its tasks and userland_shutdown.               *)
LEMMA TaskTypes ==
  ASSUME TypeOK, Next
  PROVE  /\ tasks' \in Seq(Pids) /\ hkp' \in Pids \union {NoPid}
         /\ hk' \in {"idle", "pass", "lookup", "runtime", "join", "parent", "notify", "delete", "crash",
                     "panic"}
         /\ main' \in {"up", "warn", "hup", "wait", "doom", "kill", "queue", "init", "inithup",
                       "waitinit", "off", "panic"}
         /\ todo' \subseteq Pids /\ shutdown' \in BOOLEAN
<1> USE DEF hkVars, mainVars
<1>1. /\ tasks \in Seq(Pids) /\ hkp \in Pids \union {NoPid}
      /\ hk \in {"idle", "pass", "lookup", "runtime", "join", "parent", "notify", "delete", "crash", "panic"}
      /\ main \in {"up", "warn", "hup", "wait", "doom", "kill", "queue", "init", "inithup",
                       "waitinit", "off", "panic"}
      /\ todo \subseteq Pids /\ shutdown \in BOOLEAN /\ procs \subseteq Pids
  BY Numbers, Zenon DEF TypeOK
<1>2. ASSUME NEW p \in Pids, HkAddOnce(p) PROVE tasks' \in Seq(Pids)
  BY <1>1, <1>2, ListTypes, Zenon DEF HkAddOnce
<1>3. ASSUME NEW p \in Pids, Syscall(p) \/ TakeSignal(p) \/ Step(p)
      PROVE  /\ UNCHANGED <<hk, hkp, main, todo>> /\ tasks' \in Seq(Pids) /\ shutdown' \in BOOLEAN
  <2>1. CASE Shutdown(p)
    BY <1>1, <2>1, Zenon DEF Shutdown
  <2>2. CASE ExitQueue(p)
    BY <1>1, <1>2, <2>2, Zenon DEF ExitQueue, ExitTask
  <2>3. CASE ~Shutdown(p) /\ ~ExitQueue(p)
    BY <1>1, <1>3, <2>3, Zenon DEF Step, Syscall, Killed, TakeSignal, HandleSignal, WaitNoChild, Poll,
       Touch, ExitMark, ThreadExit, Create, StartClaim, StartLock, StartDone, StartFails, WaitClaim,
       ReapJoins, DeleteJoins, Destroy, Reap
  <2> QED
    BY <2>1, <2>2, <2>3, Zenon
<1>4. ASSUME HkStep
      PROVE  /\ UNCHANGED mainVars /\ tasks' \in Seq(Pids) /\ hkp' \in Pids \union {NoPid}
             /\ hk' \in {"idle", "pass", "lookup", "runtime", "join", "parent", "notify", "delete", "crash", "panic"}
  <2>1. CASE HkTake
    <3>1. Head(tasks) \in Pids /\ Tail(tasks) \in Seq(Pids)
      BY <1>1, <2>1, TailFacts, Zenon DEF HkTake
    <3> QED
      BY <2>1, <3>1, Zenon DEF HkTake
  <2>2. CASE HkPassEnd
    BY <1>1, <2>2, Zenon DEF HkPassEnd
  <2>3. CASE HkLookup \/ HkPanic \/ HkRuntime \/ HkJoin
    BY <1>1, <2>3, Zenon DEF HkLookup, HkPanic, HkRuntime, HkJoin, HkGoto
  <2>4. CASE HkParent \/ HkNotify \/ HkDelete
    BY <1>1, <2>4, Zenon DEF HkParent, HkNotify, HkDelete, HkGoto
  <2>5. CASE HkDeleteJoins
    BY <1>1, <2>5, Zenon DEF HkDeleteJoins, DeleteJoins
  <2> QED
    BY <1>4, <2>1, <2>2, <2>3, <2>4, <2>5, Zenon DEF HkStep
<1>5. ASSUME MainStep
      PROVE  /\ UNCHANGED <<hk, hkp, shutdown>> /\ tasks' \in Seq(Pids) /\ todo' \subseteq Pids
             /\ main' \in {"up", "warn", "hup", "wait", "doom", "kill", "queue", "init", "inithup",
                       "waitinit", "off", "panic"}
  <2>1. CASE MainStart \/ MainWait
    BY <1>1, <2>1, Zenon DEF MainStart, MainWait, Survey, MainGoto
  <2>5. CASE MainWarn \/ MainDoom
    BY <1>1, <2>5, Zenon DEF MainWarn, MainDoom, SignalAll
  <2>2. CASE MainHup
    BY <1>1, <2>2, Zenon DEF MainHup
  <2>3. CASE MainSignalled \/ MainKill \/ MainInit \/ MainInitHup \/ MainWaitInit
    BY <1>1, <2>3, Zenon DEF MainSignalled, MainKill, MainInit, MainInitHup, MainWaitInit, MainGoto
  <2>4. CASE MainQueue
    BY <1>1, <1>2, <2>4, Zenon DEF MainQueue
  <2> QED
    BY <1>5, <2>1, <2>2, <2>3, <2>4, <2>5, Zenon DEF MainStep
<1> QED
  BY <1>1, <1>3, <1>4, <1>5, Zenon DEF Next

(* TypeOK, for every step.                                                 *)
LEMMA TypesHold == IInv /\ Next => TypeOK'
<1> SUFFICES ASSUME IInv, Next PROVE TypeOK'
  BY Zenon
<1>1. TypeOK /\ conf' \in Configs
  BY Zenon DEF IInv, TypeOK, Next
<1> QED
  BY <1>1, TableTypes, FlagTypes, ThreadTypes, LockTypes, TaskTypes, Zenon DEF TypeOK

-----------------------------------------------------------------------------
(* The kernel has started init.                                            *)
LEMMA InitHolds == Init => IInv
<1> SUFFICES ASSUME Init PROVE IInv
  BY Zenon
<1>1. TypeOK
  <2>1. 1 \in Pids /\ 2 \in 2 .. MaxPid + 1 /\ {1} \subseteq 1 .. 2 - 1 /\ 0 \in Nat
    BY Numbers, Zenon
  <2>2. <<>> \in Seq({"CHLD", "HUP"}) /\ <<>> \in Seq(Pids)
    BY EmptyFacts, Zenon
  <2>3. {"RUNNING"} \in SUBSET Flags /\ "user" \in Places /\ "none" \in Places
    BY Zenon DEF Flags, Places
  <2>4. flags \in [Pids -> SUBSET Flags] /\ thread \in [Pids -> Places]
    BY <2>3, Zenon DEF Init
  <2>5. /\ parent \in [Pids -> Pids \union {NoPid}] /\ kids \in [Pids -> SUBSET Pids]
        /\ ignore \in [Pids -> BOOLEAN] /\ reports \in [Pids -> Nat]
        /\ arg \in [Pids -> Pids \union {NoPid}] /\ mtx \in [Pids -> Pids \union {Hk, Nobody}]
    BY <2>1, Zenon DEF Init
  <2>6. sig \in [Pids -> Seq({"CHLD", "HUP"})] /\ tasks \in Seq(Pids)
    BY <2>2, Zenon DEF Init
  <2> QED
    BY <2>1, <2>4, <2>5, <2>6, Zenon DEF Init, TypeOK
<1>2. /\ \A p \in Pids : /\ thread[p] = IF p = 1 THEN "user" ELSE "none"
                         /\ flags[p] = IF p = 1 THEN {"RUNNING"} ELSE {}
                         /\ parent[p] = NoPid /\ kids[p] = {} /\ reports[p] = 0 /\ mtx[p] = Nobody
      /\ procs = {1} /\ next = 2 /\ shares = {} /\ excl = Nobody /\ hk = "idle" /\ main = "up"
      /\ tasks = <<>> /\ 1 \in Pids
  BY Numbers, Zenon DEF Init
<1>3. /\ \A p \in Pids : ~Loads(p) /\ thread[p] # "reap" /\ (p # 1 => NoThread(p) /\ thread[p] = "none")
      /\ ~HkUses /\ ~InitGone
      /\ \A f \in {"PRESTART", "EXITED", "STATECHG"} : \A p \in Pids : f \notin flags[p]
  <2>1. \A p \in Pids : ~Loads(p) /\ thread[p] # "reap" /\ (p # 1 => NoThread(p) /\ thread[p] = "none")
    BY <1>2, Zenon DEF Loads, NoThread
  <2>2. ~HkUses /\ ~InitGone
    <3>1. flags[1] = {"RUNNING"}
      BY <1>2, Zenon
    <3>2. ~InitGone
      BY <1>2, <3>1, Zenon DEF InitGone
    <3> QED
      BY <1>2, <3>2, Zenon DEF HkUses
  <2>3. \A f \in {"PRESTART", "EXITED", "STATECHG"} : f # "RUNNING"
    BY Zenon
  <2>4. \A f \in {"PRESTART", "EXITED", "STATECHG"} : \A p \in Pids : f \notin flags[p]
    BY <1>2, <2>3, Zenon
  <2> QED
    BY <2>1, <2>2, <2>4, Zenon
<1>4. LocksFit /\ ExitsFit /\ ReapsFit
  BY <1>2, <1>3, Zenon DEF LocksFit, ExitsFit, ReapsFit
<1>5. DeletedIsUnused
  BY <1>2, <1>3, Zenon DEF DeletedIsUnused, ParentLives, Unlocked, Loads, HkUses
<1>6. StartsFit
  BY <1>2, <1>3, Numbers, Zenon DEF StartsFit
<1>7. InitLast
  BY <1>2, <1>3, Zenon DEF InitLast
<1>8. TreeFits
  <2>1. ChildrenAgree
    <3>1. kids[1] = {} /\ \A q \in procs : parent[q] # 1
      BY <1>2, Numbers, Zenon DEF NoPid
    <3>2. {q \in procs : parent[q] = 1} = {}
      BY <3>1, Zenon
    <3> QED
      BY <1>2, <3>1, <3>2, Zenon DEF ChildrenAgree
  <2> QED
    BY <1>2, <2>1, Zenon DEF TreeFits, FamilyTree
<1>9. CleanFits
  <2>1. Range(tasks) = {} /\ IsInjective(tasks)
    BY <1>2, EmptySet, Zenon
  <2>2. \A p \in Pids : ~Pending(p)
    BY <1>2, <2>1, Zenon DEF Pending
  <2> QED
    BY <1>2, <1>3, <2>1, <2>2, Zenon DEF CleanFits
<1>10. CleanUpSurvives
  BY <1>2, Zenon DEF CleanUpSurvives
<1> QED
  BY <1>1, <1>4, <1>5, <1>6, <1>7, <1>8, <1>9, <1>10, Zenon DEF IInv

(* Every step, and doing nothing, preserves the invariant.                 *)
LEMMA NextHolds == IInv /\ [Next]_vars => IInv'
<1> SUFFICES ASSUME IInv, [Next]_vars PROVE IInv'
  BY Zenon
<1>1. CASE Next
  BY <1>1, TypesHold, LocksHold, UnusedHolds, StartsHold, ExitsHold, ReapsHold, InitLastHolds, TreeHolds,
     CleanHolds, SurvivesHolds, Zenon DEF IInv
<1>2. CASE UNCHANGED vars
  <2> USE <1>2 DEF vars, procVars, threadVars, lockVars, hkVars, mainVars
  <2>1. LocksFit' /\ DeletedIsUnused'
    BY Zenon DEF IInv, LocksFit, DeletedIsUnused, OnlyInitsChildren, ParentLives, Loads, HkUses,
       NoThread, Unlocked
  <2>2. StartsFit' /\ ExitsFit' /\ ReapsFit'
    BY Zenon DEF IInv, StartsFit, ExitsFit, ReapsFit, Loads, NoThread
  <2>3. InitLast' /\ TreeFits'
    BY Zenon DEF IInv, InitLast, InitGone, TreeFits, FamilyTree, OnlyInitsChildren, ChildrenAgree,
       NoThread
  <2>4. (NobodyKilled => CleanFits)' /\ CleanUpSurvives'
    BY Zenon DEF IInv, NobodyKilled, CleanFits, Pending, Ended, CleanUpSurvives, Ordinary,
       OnlyInitsChildren
  <2> QED
    BY <2>1, <2>2, <2>3, <2>4, TypesStay, Zenon DEF IInv
<1> QED
  BY <1>1, <1>2, Zenon

(* What the invariant says of the table and of the clean-up.               *)
LEMMA InvImplies == IInv => ProcessesSound /\ CleanUpSound
<1> SUFFICES ASSUME IInv PROVE ProcessesSound /\ CleanUpSound
  BY Zenon
<1>1. /\ TypeOK /\ DeletedIsUnused /\ ExitsFit /\ FamilyTree /\ InitLast
      /\ procs \subseteq Pids /\ (NobodyKilled => CleanFits) /\ CleanUpSurvives
  BY Numbers, Zenon DEF IInv, TypeOK, TreeFits
<1>2. ExitedHasNoThread /\ OffIsClean
  BY <1>1, Zenon DEF ExitsFit, InitLast, ExitedHasNoThread, OffIsClean
<1>3. ASSUME NobodyKilled, hk \in {"lookup", "join"} PROVE hkp \in procs /\ Ended(hkp)
  <2>1. hk \notin {"idle", "pass"}
    BY <1>3, Zenon
  <2> QED
    BY <1>1, <1>3, <2>1, Zenon DEF CleanFits, Pending
<1>4. CleanUpFindsProcess
  BY <1>3, Zenon DEF CleanUpFindsProcess, TaskHasProcess
<1>5. JoinedThreadCanExit
  BY <1>3, Zenon DEF JoinedThreadCanExit, JoinEnds, Ended
<1>6. ReportedOnce
  <2>1. ASSUME NobodyKilled, NEW p \in Pids PROVE reports[p] = 0 \/ reports[p] = 1
    BY <1>1, <2>1, Zenon DEF CleanFits
  <2> QED
    BY <2>1, Numbers, Zenon DEF ReportedOnce
<1> QED
  BY <1>1, <1>2, <1>4, <1>5, <1>6, Zenon DEF ProcessesSound, CleanUpSound

(* process.c keeps the table of processes sound for any number of          *)
(* processes and whatever they call: an exited process has no thread; a    *)
(* process_t is deleted after its thread, the start of its program and its *)
(* clean-up; as long as only init has had children, it is not deleted      *)
(* while the clean-up of a child uses it either, and the lists of children *)
(* agree with the parents; userland_shutdown switches the machine off with *)
(* nothing but init left.                                                  *)
THEOREM ProcessTableSound == Spec => []ProcessesSound
<1>1. Spec => []IInv
  BY InitHolds, NextHolds, PTL DEF Spec
<1>2. IInv => ProcessesSound
  BY InvImplies, Zenon
<1> QED
  BY <1>1, <1>2, PTL

(* As long as userland_shutdown kills nobody, clean_up_from_housekeeping   *)
(* finds the process of its task in the table, the thread that it joins    *)
(* with hk_mtx and process->mtx in its hands needs neither to exit,        *)
(* waitpid reports an exit once, and as long as only init has had children *)
(* no null or freed process_t is used.                                     *)
THEOREM ProcessCleanUpSound == Spec => []CleanUpSound
<1>1. Spec => []IInv
  BY InitHolds, NextHolds, PTL DEF Spec
<1>2. IInv => CleanUpSound
  BY InvImplies, Zenon
<1> QED
  BY <1>1, <1>2, PTL
=============================================================================
