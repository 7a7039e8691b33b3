--------------------------- MODULE SpinlockProofs ---------------------------
(***************************************************************************)
(* Proofs about the spinlock, for every finite set of users.  The word     *)
(* encodes the holders: that is inductive together with the types and with *)
(* the fact that a writer is alone.                                        *)
(***************************************************************************)
EXTENDS Spinlock, FiniteSetTheorems, TLAPS

Alone == \A u, v \in Users : pc[u] = "excl" => v = u \/ pc[v] \notin {"excl", "shared"}

IInv == TypeOK /\ WordEncodesHolders /\ Alone

(* The holders are finite in number, and no more than the users: the word  *)
(* cannot overflow.                                                        *)
LEMMA ReadersFinite ==
  /\ IsFiniteSet(Readers)
  /\ Cardinality(Readers) \in Nat
  /\ 2 * Cardinality(Readers) < IntMax
  /\ Cardinality(Readers) = 0 <=> Readers = {}
<1>1. Readers \subseteq Users
  BY DEF Readers
<1>2. IsFiniteSet(Readers) /\ Cardinality(Readers) <= Cardinality(Users)
  BY <1>1, UsersAssumption, FS_Subset
<1>3. Cardinality(Readers) \in Nat /\ Cardinality(Users) \in Nat
  BY <1>2, UsersAssumption, FS_CardinalityType
<1>4. Cardinality(Readers) = 0 <=> Readers = {}
  BY <1>2, FS_EmptySet
<1> QED
  BY <1>2, <1>3, <1>4, UsersAssumption, IntAssumption

(* Bit 0 of the word is the kind of the lock, held or not.                 *)
LEMMA LowBit ==
  ASSUME WordEncodesHolders
  PROVE  lock % 2 = Kind
<1>1. CASE Writers # {}
  BY <1>1, KindAssumption, IntAssumption DEF WordEncodesHolders, Magic
<1>2. CASE Writers = {}
  <2> DEFINE n == Cardinality(Readers)
  <2>1. n \in Nat
    BY ReadersFinite
  <2>2. lock = Kind + 2 * n
    BY <1>2 DEF WordEncodesHolders
  <2> HIDE DEF n
  <2>3. CASE Kind = 0
    BY <2>1, <2>2, <2>3
  <2>4. CASE Kind = 1
    BY <2>1, <2>2, <2>4
  <2> QED
    BY <2>3, <2>4, KindAssumption, IntAssumption
<1> QED
  BY <1>1, <1>2

(* A word without holders is the kind, and only such a word is.            *)
LEMMA FreeWord ==
  ASSUME WordEncodesHolders
  PROVE  lock = Kind <=> Writers = {} /\ Readers = {}
BY ReadersFinite, KindAssumption, IntAssumption DEF WordEncodesHolders, Magic

(* How the holders change when one user moves.                             *)
LEMMA Moves ==
  ASSUME TypeOK, NEW u \in Users
  PROVE  /\ pc' = [pc EXCEPT ![u] = "excl"]
              => Writers' = Writers \union {u} /\ Readers' = Readers \ {u}
         /\ pc' = [pc EXCEPT ![u] = "shared"]
              => Writers' = Writers \ {u} /\ Readers' = Readers \union {u}
         /\ pc' = [pc EXCEPT ![u] = "idle"]
              => Writers' = Writers \ {u} /\ Readers' = Readers \ {u}
BY DEF TypeOK, Writers, Readers

(* SPINLOCK_T_INIT and SPINLOCK_T_INIT_SHARED are words without holders.   *)
LEMMA InitHolds == Init => IInv
<1> SUFFICES ASSUME Init PROVE IInv
  OBVIOUS
<1>1. Writers = {} /\ Readers = {}
  BY DEF Init, Writers, Readers
<1>2. WordEncodesHolders
  BY <1>1, FS_EmptySet, KindAssumption, IntAssumption DEF Init, WordEncodesHolders
<1> QED
  BY <1>2, KindAssumption, IntAssumption DEF Init, IInv, TypeOK, Alone, Words, Magic

(* Loading the word or failing an exchange changes no holder.              *)
LEMMA NoHolderChange ==
  ASSUME IInv, UNCHANGED lock, UNCHANGED Writers, UNCHANGED Readers
  PROVE  WordEncodesHolders'
BY DEF IInv, WordEncodesHolders

(* The loads at the start of the take functions preserve the invariant.    *)
LEMMA LoadKeeps ==
  ASSUME IInv, NEW u \in Users, NEW x \in Trying, Load(u, x)
  PROVE  IInv'
<1>1. UNCHANGED <<Writers, Readers>>
  BY DEF IInv, TypeOK, Load, Trying, Writers, Readers
<1>2. TypeOK' /\ Alone'
  BY DEF IInv, TypeOK, Alone, Load, Trying
<1> QED
  BY <1>1, <1>2, NoHolderChange DEF IInv, Load

(* A compare-exchange that fails preserves the invariant.                  *)
LEMMA FailKeeps ==
  ASSUME IInv, NEW u \in Users, CasFail(u)
  PROVE  IInv'
<1>1. UNCHANGED <<Writers, Readers>>
  BY DEF CasFail, Writers, Readers
<1>2. TypeOK' /\ Alone'
  BY DEF IInv, TypeOK, Alone, CasFail
<1> QED
  BY <1>1, <1>2, NoHolderChange DEF IInv, CasFail

(* A successful exclusive exchange found the word free: nobody held it.    *)
LEMMA TakeFindsFree ==
  ASSUME IInv, NEW u \in Users, TakeCas(u)
  PROVE  lock = Kind /\ Writers = {} /\ Readers = {}
<1>1. lock % 2 = Kind /\ lock = cur[u] % 2
  BY LowBit DEF IInv, TakeCas, CasOk, ExpectFree
<1>2. lock \in {0, 1}
  BY <1>1, IntAssumption DEF IInv, TypeOK, Words, Magic
<1>3. lock = Kind
  BY <1>1, <1>2
<1> QED
  BY <1>3, FreeWord DEF IInv

(* The exchange that ends spinlock_take preserves the invariant.           *)
LEMMA TakeKeeps ==
  ASSUME IInv, NEW u \in Users, TakeCas(u)
  PROVE  IInv'
<1>1. lock = Kind /\ Writers = {} /\ Readers = {}
  BY TakeFindsFree
<1>2. lock' = Kind + Magic /\ pc' = [pc EXCEPT ![u] = "excl"] /\ cur' = cur
  BY <1>1 DEF TakeCas, CasOk
<1>3. Writers' = {u}
  BY <1>1, <1>2, Moves DEF IInv
<1>4. TypeOK'
  BY <1>2, KindAssumption, IntAssumption DEF IInv, TypeOK, Words, Magic
<1>5. Alone'
  BY <1>1, <1>2 DEF IInv, TypeOK, Alone, Writers, Readers
<1> QED
  BY <1>2, <1>3, <1>4, <1>5 DEF IInv, WordEncodesHolders

(* spinlock_release preserves the invariant: the word is the kind again.   *)
LEMMA ReleaseKeeps ==
  ASSUME IInv, NEW u \in Users, Release(u)
  PROVE  IInv'
<1>1. lock' = Kind /\ pc' = [pc EXCEPT ![u] = "idle"] /\ cur' = cur
  BY LowBit DEF IInv, Release
<1>2. Writers = {u} /\ Readers = {}
  BY DEF IInv, Alone, Release, Writers, Readers
<1>3. Writers' = {} /\ Readers' = {}
  BY <1>1, <1>2, Moves DEF IInv
<1>4. WordEncodesHolders'
  BY <1>1, <1>3, FS_EmptySet, KindAssumption, IntAssumption DEF WordEncodesHolders
<1> QED
  BY <1>1, <1>4, KindAssumption, IntAssumption DEF IInv, TypeOK, Alone, Words, Magic

(* A successful shared exchange found no writer.                           *)
LEMMA TakeSharedFindsNoWriter ==
  ASSUME IInv, NEW u \in Users, TakeSharedCas(u)
  PROVE  Writers = {} /\ lock = Kind + 2 * Cardinality(Readers)
<1>1. lock >= 0
  BY IntAssumption DEF IInv, TypeOK, Words, Magic, TakeSharedCas, CasOk, ExpectUnlocked
<1> QED
  BY <1>1, KindAssumption, IntAssumption DEF IInv, WordEncodesHolders, Magic

(* The exchange that ends spinlock_take_shared adds one reader.            *)
LEMMA TakeSharedKeeps ==
  ASSUME IInv, NEW u \in Users, TakeSharedCas(u)
  PROVE  IInv'
<1> DEFINE n == Cardinality(Readers)
<1>1. Writers = {} /\ lock = Kind + 2 * n
  BY TakeSharedFindsNoWriter
<1>2. lock' = lock + 2 /\ pc' = [pc EXCEPT ![u] = "shared"] /\ cur' = cur
  BY DEF TakeSharedCas, CasOk
<1>3. pc[u] = "take_shared" /\ u \notin Readers
  BY DEF TakeSharedCas, Readers
<1>4. Writers' = {} /\ Readers' = Readers \union {u}
  BY <1>1, <1>2, Moves DEF IInv
<1>5. Cardinality(Readers') = n + 1
  BY <1>3, <1>4, ReadersFinite, FS_AddElement
<1>6. n \in Nat /\ 2 * (n + 1) < IntMax
  <2>1. Readers' \subseteq Users
    BY <1>4 DEF Readers
  <2>2. Cardinality(Readers') <= Cardinality(Users)
    BY <2>1, UsersAssumption, FS_Subset
  <2>3. Cardinality(Users) \in Nat
    BY UsersAssumption, FS_CardinalityType
  <2>4. n \in Nat
    BY ReadersFinite
  <2>5. n + 1 <= Cardinality(Users)
    BY <2>2, <1>5
  <2> HIDE DEF n
  <2> QED
    BY <2>3, <2>4, <2>5, UsersAssumption, IntAssumption
<1>7. WordEncodesHolders'
  BY <1>1, <1>2, <1>4, <1>5, <1>6, KindAssumption, IntAssumption DEF WordEncodesHolders
<1>8. lock' \in Words
  BY <1>1, <1>2, <1>6, KindAssumption, IntAssumption DEF Words, Magic
<1>9. Alone'
  BY <1>1, <1>2 DEF IInv, TypeOK, Alone, Writers
<1> QED
  BY <1>2, <1>7, <1>8, <1>9 DEF IInv, TypeOK

(* spinlock_release_shared takes one reader away.                          *)
LEMMA ReleaseSharedKeeps ==
  ASSUME IInv, NEW u \in Users, ReleaseShared(u)
  PROVE  IInv'
<1> DEFINE n == Cardinality(Readers)
<1>1. u \in Readers /\ Writers = {}
  BY DEF IInv, Alone, ReleaseShared, Readers, Writers
<1>2. lock' = lock - 2 /\ pc' = [pc EXCEPT ![u] = "idle"] /\ cur' = cur
  BY DEF ReleaseShared
<1>3. Writers' = {} /\ Readers' = Readers \ {u}
  BY <1>1, <1>2, Moves DEF IInv
<1>4. Cardinality(Readers') = n - 1 /\ n \in Nat /\ n # 0
  BY <1>1, <1>3, ReadersFinite, FS_RemoveElement
<1>5. 2 * n < IntMax
  BY ReadersFinite
<1>6. WordEncodesHolders'
  BY <1>1, <1>2, <1>3, <1>4, KindAssumption, IntAssumption DEF IInv, WordEncodesHolders
<1>7. lock' \in Words
  BY <1>1, <1>2, <1>4, <1>5, KindAssumption, IntAssumption DEF IInv, WordEncodesHolders, Words, Magic
<1> QED
  BY <1>2, <1>6, <1>7 DEF IInv, TypeOK, Alone

(* Every step of the four functions preserves the invariant.               *)
LEMMA NextHolds == IInv /\ [Next]_vars => IInv'
<1> SUFFICES ASSUME IInv, [Next]_vars PROVE IInv'
  OBVIOUS
<1>1. CASE UNCHANGED vars
  BY <1>1 DEF vars, IInv, TypeOK, WordEncodesHolders, Alone, Writers, Readers
<1>2. ASSUME NEW u \in Users, TakeLoad(u) \/ TakeSharedLoad(u) PROVE IInv'
  BY <1>2, LoadKeeps DEF TakeLoad, TakeSharedLoad, Trying
<1>3. ASSUME NEW u \in Users, TakeFail(u) \/ TakeSharedFail(u) PROVE IInv'
  BY <1>3, FailKeeps DEF TakeFail, TakeSharedFail
<1> QED
  BY <1>1, <1>2, <1>3, TakeKeeps, ReleaseKeeps, TakeSharedKeeps, ReleaseSharedKeeps
  DEF Next

(* The types, and the word that encodes its holders, in every state of     *)
(* every execution of the four functions of spinlock.c.                    *)
THEOREM SpinlockCorrect == Spec => [](TypeOK /\ WordEncodesHolders)
<1>1. IInv => TypeOK /\ WordEncodesHolders
  BY DEF IInv
<1> QED
  BY <1>1, InitHolds, NextHolds, PTL DEF Spec

(* The spinlock implements the abstract reader-writer lock: in particular  *)
(* spinlock_take returns only when nobody else holds the lock.             *)
THEOREM SpinlockImplementsRWLock == Spec => ImplementsRWLock
<1>1. Init => Abstract!Init
  BY DEF Init, Abstract!Init, Writers, Readers
<1>2. IInv /\ [Next]_vars => [Abstract!Next]_(Abstract!vars)
  <2> SUFFICES ASSUME IInv, [Next]_vars
               PROVE  Abstract!Next \/ (Writers' = Writers /\ Readers' = Readers)
    BY DEF Abstract!vars
  <2>1. CASE UNCHANGED vars
    BY <2>1 DEF vars, Writers, Readers
  <2>2. ASSUME NEW u \in Users,
               TakeLoad(u) \/ TakeSharedLoad(u) \/ TakeFail(u) \/ TakeSharedFail(u)
        PROVE  Writers' = Writers /\ Readers' = Readers
    BY <2>2 DEF IInv, TypeOK, TakeLoad, TakeSharedLoad, TakeFail, TakeSharedFail,
                Load, CasFail, Writers, Readers
  <2>3. ASSUME NEW u \in Users, TakeCas(u) PROVE Abstract!AcquireExcl(u)
    <3>1. Writers = {} /\ Readers = {}
      BY <2>3, TakeFindsFree
    <3> QED
      BY <2>3, <3>1, Moves DEF IInv, TakeCas, CasOk, Abstract!AcquireExcl
  <2>4. ASSUME NEW u \in Users, Release(u) PROVE Abstract!ReleaseExcl(u)
    <3>1. u \in Writers /\ Readers = {}
      BY <2>4 DEF IInv, Alone, Release, Writers, Readers
    <3> QED
      BY <2>4, <3>1, Moves DEF IInv, Release, Abstract!ReleaseExcl
  <2>5. ASSUME NEW u \in Users, TakeSharedCas(u) PROVE Abstract!AcquireShared(u)
    <3>1. Writers = {} /\ u \notin Readers
      BY <2>5, TakeSharedFindsNoWriter DEF TakeSharedCas, Readers
    <3> QED
      BY <2>5, <3>1, Moves DEF IInv, TakeSharedCas, CasOk, Abstract!AcquireShared
  <2>6. ASSUME NEW u \in Users, ReleaseShared(u) PROVE Abstract!ReleaseShared(u)
    <3>1. u \in Readers /\ Writers = {}
      BY <2>6 DEF IInv, Alone, ReleaseShared, Readers, Writers
    <3> QED
      BY <2>6, <3>1, Moves DEF IInv, ReleaseShared, Abstract!ReleaseShared
  <2> QED
    BY <2>1, <2>2, <2>3, <2>4, <2>5, <2>6 DEF Next, Abstract!Next
<1> QED
  BY <1>1, <1>2, InitHolds, NextHolds, PTL DEF Spec, ImplementsRWLock, Abstract!Spec
=============================================================================
