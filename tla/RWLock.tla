------------------------------- MODULE RWLock -------------------------------
(***************************************************************************)
(* What a reader-writer lock of this kernel promises: at most one user     *)
(* holds it exclusively, and never while somebody holds it shared.  The    *)
(* spinlock (badgelib/spinlock.h) and the mutex (badgelib/mutex.h) are     *)
(* both shown to implement this specification.  A user is one execution    *)
(* context: a thread, or an interrupt handler.                             *)
(***************************************************************************)
CONSTANT Users

VARIABLES writers,  \* the users that hold the lock exclusively
          readers   \* the users that hold the lock shared

vars == <<writers, readers>>

(* The holders are users.                                                  *)
TypeOK == writers \subseteq Users /\ readers \subseteq Users

Init == writers = {} /\ readers = {}

AcquireExcl(u) ==
  /\ writers = {} /\ readers = {}
  /\ writers' = {u}
  /\ UNCHANGED readers

ReleaseExcl(u) ==
  /\ u \in writers
  /\ writers' = writers \ {u}
  /\ UNCHANGED readers

AcquireShared(u) ==
  /\ writers = {} /\ u \notin readers
  /\ readers' = readers \union {u}
  /\ UNCHANGED writers

ReleaseShared(u) ==
  /\ u \in readers
  /\ readers' = readers \ {u}
  /\ UNCHANGED writers

Next == \E u \in Users : \/ AcquireExcl(u) \/ ReleaseExcl(u)
                         \/ AcquireShared(u) \/ ReleaseShared(u)

Spec == Init /\ [][Next]_vars

(***************************************************************************)
(* A holder of the exclusive lock is alone: no second writer, no reader.   *)
(***************************************************************************)
Exclusion ==
  \A w \in writers : writers = {w} /\ readers = {}
=============================================================================
