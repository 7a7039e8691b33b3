----------------------------- MODULE ThreadTable -----------------------------
(***************************************************************************)
(* The table "threads" of kernel/src/scheduler/scheduler.c: thread_new_    *)
(* user and thread_new_kernel allocate a thread, number it and append it;  *)
(* find_thread searches the table by number; sched_housekeeping frees the  *)
(* threads that have exited and are detached.  threads_mtx is taken in     *)
(* thread context with interrupts enabled, and by thread_resume_from_timer *)
(* in the timer interrupt, where the CPU spins until it gets a share.      *)
(***************************************************************************)
EXTENDS Integers, Sequences, FiniteSets, SequencesExt

CONSTANTS Cpus,
          Objs,    \* places in the heap for a sched_thread_t
          MaxTid   \* bound: thread numbers that are handed out

ASSUME TableAssumption ==
  IsFiniteSet(Cpus) /\ IsFiniteSet(Objs) /\ MaxTid \in Nat

Nobody == "none"
Hk == "hk"

VARIABLES threads,  \* the table, of objects
          counter,  \* tid_counter
          tid,      \* the number of each object
          mem,      \* what is allocated for each object
          named,    \* whether its creator passed a name
          pc,       \* how far each object is in its life
          cpu,      \* the CPU on whose run queue its creator is
          mtx,      \* who holds threads_mtx exclusively
          hk,       \* the CPU on which housekeeping has interrupts disabled
          batch,    \* the threads that it frees
          isr       \* CPUs that spin for threads_mtx in the timer interrupt

heapVars == <<mem, named, tid, counter>>
lockVars == <<mtx, hk, batch, isr>>
vars == <<threads, heapVars, pc, cpu, lockVars>>

Parts == {"struct", "stack", "name"}

(* The types of the table, the heap and the locks around them.             *)
TypeOK == /\ threads \in Seq(Objs) /\ counter \in 1 .. MaxTid + 1
          /\ tid \in [Objs -> 0 .. MaxTid]
          /\ mem \in [Objs -> SUBSET Parts] /\ named \in [Objs -> BOOLEAN]
          /\ pc \in [Objs -> {"none", "stack", "name", "number", "lock",
                              "insert", "live", "dead", "panic"}]
          /\ cpu \in [Objs -> Cpus]
          /\ mtx \in Objs \union {Hk, Nobody} /\ hk \in Cpus \union {Nobody}
          /\ batch \subseteq Objs /\ isr \subseteq Cpus

Init == /\ threads = <<>> /\ counter = 1
        /\ tid = [o \in Objs |-> 0] /\ mem = [o \in Objs |-> {}]
        /\ named = [o \in Objs |-> FALSE] /\ pc = [o \in Objs |-> "none"]
        /\ cpu \in [Objs -> Cpus]
        /\ mtx = Nobody /\ hk = Nobody /\ batch = {} /\ isr = {}

Goto(o, at) == pc' = [pc EXCEPT ![o] = at]

(* Threads execute on c: no handler spins there, and housekeeping does not *)
(* have the interrupts disabled.                                           *)
Free(c) == c \notin isr /\ hk # c

At(o, at) == pc[o] = at /\ Free(cpu[o]) /\ \A p \in Objs : pc[p] # "panic"

(***************************************************************************)
(* thread_new_user and thread_new_kernel.  On a failure everything that    *)
(* was allocated is freed again, its contents are gone, and the functions  *)
(* return 0.                                                               *)
(***************************************************************************)
Forget(o) == tid' = [tid EXCEPT ![o] = 0] /\ named' = [named EXCEPT ![o] = FALSE]

Fail(o) == Goto(o, "none") /\ mem' = [mem EXCEPT ![o] = {}] /\ Forget(o)

NewStruct(o) ==
  /\ At(o, "none")
  /\ mem' = [mem EXCEPT ![o] = {"struct"}]
  /\ \E n \in BOOLEAN : named' = [named EXCEPT ![o] = n]
  /\ Goto(o, "stack")
  /\ UNCHANGED <<threads, counter, tid, cpu, lockVars>>

NewStack(o) ==
  /\ At(o, "stack")
  /\ \/ /\ mem' = [mem EXCEPT ![o] = @ \union {"stack"}] /\ Goto(o, "name")
        /\ UNCHANGED <<tid, named>>
     \/ Fail(o)
  /\ UNCHANGED <<threads, counter, cpu, lockVars>>

NameFailsLeaks(o) ==  \* mutant: the stack is not freed
  Goto(o, "none") /\ mem' = [mem EXCEPT ![o] = @ \ {"struct"}] /\ Forget(o)

NameFails(o) == Fail(o)

NewName(o) ==
  /\ At(o, "name")
  /\ \/ /\ mem' = [mem EXCEPT ![o] = @ \union (IF named[o] THEN {"name"} ELSE {})]
        /\ Goto(o, "number") /\ UNCHANGED <<tid, named>>
     \/ named[o] /\ NameFails(o)
  /\ UNCHANGED <<threads, counter, cpu, lockVars>>

FetchAdd == counter' = counter + 1

NewNumber(o) ==
  /\ At(o, "number") /\ counter <= MaxTid
  /\ tid' = [tid EXCEPT ![o] = counter]
  /\ FetchAdd
  /\ Goto(o, "lock")
  /\ UNCHANGED <<threads, mem, named, cpu, lockVars>>

NewLock(o) ==
  /\ At(o, "lock") /\ mtx = Nobody
  /\ mtx' = o
  /\ Goto(o, "insert")
  /\ UNCHANGED <<threads, heapVars, cpu, hk, batch, isr>>

NewInsert(o) ==
  /\ At(o, "insert")
  /\ \/ threads' = Append(threads, o) /\ Goto(o, "live") /\ UNCHANGED <<mem, tid, named>>
     \/ Fail(o) /\ UNCHANGED threads
  /\ mtx' = Nobody
  /\ UNCHANGED <<counter, cpu, hk, batch, isr>>

(* The thread exits and was detached (module Scheduler).                   *)
Die(o) ==
  /\ At(o, "live")
  /\ Goto(o, "dead")
  /\ UNCHANGED <<threads, heapVars, cpu, lockVars>>

(***************************************************************************)
(* array_binsearch with tid_int_cmp: the place of a number, or 0.          *)
(***************************************************************************)
BinSearch(id) ==
  LET n == Len(threads)
      search[lo \in 1 .. n + 1, hi \in 0 .. n] ==
        IF lo > hi THEN 0
        ELSE LET mid == (lo + hi) \div 2
                 found == tid[threads[mid]]
             IN IF found = id THEN mid
                ELSE IF found < id THEN search[mid + 1, hi]
                ELSE search[lo, mid - 1]
  IN search[1, n]

(***************************************************************************)
(* sched_housekeeping: the mutex is taken with interrupts disabled.        *)
(***************************************************************************)
HkLock(c) ==
  /\ mtx = Nobody /\ c \notin isr /\ \A o \in Objs : pc[o] # "panic"
  /\ mtx' = Hk /\ hk' = c
  /\ batch' = {o \in Objs : pc[o] = "dead"}
  /\ UNCHANGED <<threads, heapVars, pc, cpu, isr>>

FoundAt(o) == BinSearch(tid[o])

(* The stack and the name are freed before the thread is looked up.        *)
HkFree(o) ==
  /\ o \in batch
  /\ batch' = batch \ {o}
  /\ IF FoundAt(o) # 0
     THEN /\ threads' = RemoveAt(threads, FoundAt(o))
          /\ mem' = [mem EXCEPT ![o] = {}]
          /\ Goto(o, "none") /\ Forget(o)
     ELSE /\ Goto(o, "panic")  \* the assertion res.found
          /\ mem' = [mem EXCEPT ![o] = {"struct"}]
          /\ UNCHANGED <<threads, tid, named>>
  /\ UNCHANGED <<counter, cpu, mtx, hk, isr>>

HkUnlock ==
  /\ mtx = Hk /\ batch = {}
  /\ mtx' = Nobody /\ hk' = Nobody
  /\ UNCHANGED <<threads, heapVars, pc, cpu, batch, isr>>

(***************************************************************************)
(* thread_resume_from_timer, when it does not get its share at once.       *)
(***************************************************************************)
IsrSpins(c) ==
  /\ mtx # Nobody /\ Free(c)
  /\ isr' = isr \union {c}
  /\ UNCHANGED <<threads, heapVars, pc, cpu, mtx, hk, batch>>

IsrReturns(c) ==
  /\ c \in isr /\ mtx = Nobody
  /\ isr' = isr \ {c}
  /\ UNCHANGED <<threads, heapVars, pc, cpu, mtx, hk, batch>>

Next == \/ \E o \in Objs : \/ NewStruct(o) \/ NewStack(o) \/ NewName(o)
                           \/ NewNumber(o) \/ NewLock(o) \/ NewInsert(o)
                           \/ Die(o) \/ HkFree(o)
        \/ \E c \in Cpus : HkLock(c) \/ IsrSpins(c) \/ IsrReturns(c)
        \/ HkUnlock

Spec == Init /\ [][Next]_vars
-----------------------------------------------------------------------------
Listed == {o \in Objs : pc[o] \in {"live", "dead", "panic"}}

(***************************************************************************)
(* No failure path of thread_new_user and thread_new_kernel and no pass of *)
(* sched_housekeeping leaks or frees too much: an object that is not in    *)
(* use owns no memory, and one that has a number owns all of its parts.    *)
(***************************************************************************)
MemoryAccounted ==
  \A o \in Objs :
    /\ pc[o] = "none" => mem[o] = {}
    /\ pc[o] \in {"number", "lock", "insert", "live", "dead"} =>
         mem[o] = IF named[o] THEN Parts ELSE Parts \ {"name"}

(***************************************************************************)
(* The table holds exactly the threads that were created and not yet       *)
(* freed, each once, under different numbers: no entry points to memory    *)
(* that housekeeping has freed.                                            *)
(***************************************************************************)
TableExact ==
  /\ ToSet(threads) = Listed
  /\ Cardinality({tid[o] : o \in Listed}) = Len(threads)

(***************************************************************************)
(* sched_housekeeping asserts res.found, and proc_create_thread_raw uses   *)
(* the thread that it has just created without a test: every thread of the *)
(* table is found by its number.                                           *)
(***************************************************************************)
EveryThreadIsFound == \A o \in ToSet(threads) : BinSearch(tid[o]) # 0

(***************************************************************************)
(* thread_resume_impl asserts that the interrupt handler gets its share of *)
(* threads_mtx: the handler does not spin on the CPU of the thread that    *)
(* holds the mutex, which can then never release it.                       *)
(***************************************************************************)
IsrGetsMutex == mtx \in Objs => cpu[mtx] \notin isr
=============================================================================
