------------------------------ MODULE Spinlock ------------------------------
(***************************************************************************)
(* kernel/src/badgelib/spinlock.c.  The lock is one atomic int: bit 0 says *)
(* whether it may be shared (SPINLOCK_T_INIT / SPINLOCK_T_INIT_SHARED),    *)
(* the sign bit that it is held exclusively, and every shared holder adds  *)
(* 2.  Each atomic operation is one step.  A weak compare-and-exchange may *)
(* fail although the values are equal; a failure loads the current word.   *)
(***************************************************************************)
EXTENDS Integers, FiniteSets

CONSTANTS Users,  \* the execution contexts that use the lock
          Kind,   \* the initial word: 0 exclusive only, 1 may be shared
          IntMax  \* INT_MAX

ASSUME KindAssumption == Kind \in {0, 1}

ASSUME IntAssumption == IntMax \in Nat /\ IntMax % 2 = 1

(* So many contexts that "cur + 2" overflows do not fit in memory.         *)
ASSUME UsersAssumption ==
  IsFiniteSet(Users) /\ 2 * Cardinality(Users) < IntMax

VARIABLES lock,  \* the atomic int
          pc,    \* where each user is
          cur    \* the local "cur" of each user

vars == <<lock, pc, cur>>

Magic == -IntMax - 1  \* SPINLOCK_EXCL_MAGIC

Words == Magic .. IntMax

Trying == {"take", "take_shared"}

(* The types; the word stays within the range of an int.                   *)
TypeOK == /\ lock \in Words
          /\ pc \in [Users -> {"idle", "excl", "shared"} \union Trying]
          /\ cur \in [Users -> Words]

Init == /\ lock = Kind
        /\ pc = [u \in Users |-> "idle"]
        /\ cur = [u \in Users |-> 0]

Load(u, next) ==
  /\ pc[u] = "idle"
  /\ pc' = [pc EXCEPT ![u] = next]
  /\ cur' = [cur EXCEPT ![u] = lock]
  /\ UNCHANGED lock

TakeLoad(u) == Load(u, "take")

(* The load is preceded by the assertion that bit 0 is set.                *)
TakeSharedLoad(u) == lock % 2 = 1 /\ Load(u, "take_shared")

(* What each loop expects to find: "cur &= 1", and "if (cur < 0) cur = 1". *)
ExpectFree(u) == cur[u] % 2

ExpectUnlocked(u) == IF cur[u] < 0 THEN 1 ELSE cur[u]

CasOk(u, expected, next, at) ==
  /\ lock = expected
  /\ lock' = next
  /\ pc' = [pc EXCEPT ![u] = at]
  /\ UNCHANGED cur

CasFail(u) ==
  /\ cur' = [cur EXCEPT ![u] = lock]
  /\ UNCHANGED <<lock, pc>>

TakeAnyWord(u) ==  \* mutant: "cur &= 1" is missing
  pc[u] = "take" /\ CasOk(u, cur[u], (cur[u] % 2) + Magic, "excl")

TakeLosesBit(u) ==  \* mutant: next = MAGIC, without "cur |"
  pc[u] = "take" /\ CasOk(u, ExpectFree(u), Magic, "excl")

(* For cur in {0, 1}, "cur | SPINLOCK_EXCL_MAGIC" is a sum.                *)
TakeCas(u) ==
  pc[u] = "take" /\ CasOk(u, ExpectFree(u), ExpectFree(u) + Magic, "excl")

TakeFail(u) == pc[u] = "take" /\ CasFail(u)

Release(u) ==  \* atomic_fetch_and(lock, 1)
  /\ pc[u] = "excl"
  /\ lock' = lock % 2
  /\ pc' = [pc EXCEPT ![u] = "idle"]
  /\ UNCHANGED cur

TakeSharedCas(u) ==
  /\ pc[u] = "take_shared"
  /\ CasOk(u, ExpectUnlocked(u), ExpectUnlocked(u) + 2, "shared")

TakeSharedFailKeep(u) ==  \* mutant: the failed exchange does not reload cur
  pc[u] = "take_shared" /\ UNCHANGED vars

TakeSharedFail(u) == pc[u] = "take_shared" /\ CasFail(u)

ReleaseShared(u) ==  \* atomic_fetch_sub(lock, 2)
  /\ pc[u] = "shared"
  /\ lock' = lock - 2
  /\ pc' = [pc EXCEPT ![u] = "idle"]
  /\ UNCHANGED cur

Next == \E u \in Users : \/ TakeLoad(u) \/ TakeSharedLoad(u)
                         \/ TakeCas(u) \/ TakeFail(u) \/ Release(u)
                         \/ TakeSharedCas(u) \/ TakeSharedFail(u)
                         \/ ReleaseShared(u)

Spec == Init /\ [][Next]_vars

(***************************************************************************)
(* A CPU that spins keeps executing its loop, and a critical section ends. *)
(***************************************************************************)
Fairness == \A u \in Users : /\ WF_vars(TakeCas(u)) /\ WF_vars(TakeFail(u))
                             /\ WF_vars(TakeSharedCas(u))
                             /\ WF_vars(TakeSharedFail(u))
                             /\ WF_vars(Release(u)) /\ WF_vars(ReleaseShared(u))

FairSpec == Spec /\ Fairness
-----------------------------------------------------------------------------
Writers == {u \in Users : pc[u] = "excl"}

Readers == {u \in Users : pc[u] = "shared"}

(***************************************************************************)
(* The word always encodes exactly who holds the lock: the sign bit for a  *)
(* writer, otherwise 2 for every reader, and bit 0 never changes.  All     *)
(* four functions of spinlock.c keep it; it implies the assertions of the  *)
(* release functions, res < 0 and res >= 2.                                *)
(***************************************************************************)
WordEncodesHolders ==
  lock = Kind + (IF Writers # {} THEN Magic ELSE 2 * Cardinality(Readers))

Abstract == INSTANCE RWLock WITH writers <- Writers, readers <- Readers

(***************************************************************************)
(* The spinlock is a reader-writer lock: take and take_shared succeed only *)
(* when the abstract lock can be acquired.                                 *)
(***************************************************************************)
ImplementsRWLock == Abstract!Spec

(***************************************************************************)
(* The spinlock never wedges: while somebody spins on it, again and again  *)
(* somebody obtains it, even if exchanges fail spuriously.  A single user  *)
(* may starve; the loops of spinlock.c keep no queue.                      *)
(***************************************************************************)
SomebodyGetsIn ==
  (\E u \in Users : pc[u] \in Trying) ~> (Writers \union Readers # {})
=============================================================================
