--------------------------- MODULE SchedulerProofs --------------------------
(***************************************************************************)
(* The proofs about module Scheduler: types, counters, and the theorems.   *)
(***************************************************************************)
EXTENDS SchedulerLists, FiniteSetTheorems, WellFoundedInduction

(***************************************************************************)
(* Sums.  A family of subsets of a finite set that is not empty has a      *)
(* smallest member: induction over the subsets.                            *)
(***************************************************************************)
LEMMA SubsetMinimum ==
  ASSUME NEW S, IsFiniteSet(S), NEW Bad, Bad \subseteq SUBSET S, Bad # {}
  PROVE  \E s \in Bad : \A t \in SUBSET s : t # s => t \notin Bad
<1>1. IsWellFoundedOn(StrictSubsetOrdering(S), SUBSET S)
  BY FS_StrictSubsetOrderingWellFounded, FS_FiniteSubsetsOfFinite, Zenon
<1>2. PICK s \in Bad : \A t \in Bad : ~(<<t, s>> \in StrictSubsetOrdering(S))
  BY <1>1, WFMin, Zenon
<1> QED
  BY <1>2, Zenon DEF StrictSubsetOrdering

(* What CHOOSE takes out of a set, in the sums of FoldFunction.            *)
Pick(s) == CHOOSE x \in s : TRUE

(* It takes an element.                                                    *)
LEMMA PickIn == \A s : s # {} => Pick(s) \in s
BY Zenon DEF Pick

(* The units of load of a set.                                             *)
Units(f, s) == {p \in s \X Nat : p[2] \in 1 .. f[p[1]]}

(* One more element has as many units more as its load.                    *)
LEMMA UnitsAdd ==
  ASSUME NEW S, NEW f \in [S -> Nat], NEW s \in SUBSET S, NEW x \in s,
         IsFiniteSet(Units(f, s \ {x}))
  PROVE  /\ IsFiniteSet(Units(f, s))
         /\ Cardinality(Units(f, s)) = f[x] + Cardinality(Units(f, s \ {x}))
<1> DEFINE new == {x} \X (1 .. f[x])
<1>1. f[x] \in Nat /\ IsFiniteSet(1 .. f[x]) /\ Cardinality(1 .. f[x]) = f[x]
  BY FS_Interval, SMTT(30)
<1>2. IsFiniteSet({x}) /\ Cardinality({x}) = 1
  BY FS_Singleton, Zenon
<1>3. IsFiniteSet(new) /\ Cardinality(new) = 1 * f[x]
  BY <1>1, <1>2, FS_Product, SMTT(30)
<1>4. Units(f, s) = Units(f, s \ {x}) \union new
  BY <1>1 DEF Units
<1>5. Units(f, s \ {x}) \intersect new = {}
  BY Zenon DEF Units
<1>6. Cardinality(Units(f, s \ {x})) \in Nat /\ Cardinality({}) = 0
  BY FS_CardinalityType, FS_EmptySet, Zenon
<1> HIDE DEF new
<1>7. /\ IsFiniteSet(Units(f, s \ {x}) \union new)
      /\ Cardinality(Units(f, s \ {x}) \union new) =
           Cardinality(Units(f, s \ {x})) + Cardinality(new) - Cardinality(Units(f, s \ {x}) \intersect new)
  BY <1>3, FS_Union, Zenon
<1>8. Cardinality(new) = f[x]
  BY <1>1, <1>3
<1>9. Cardinality(Units(f, s \ {x}) \intersect new) = 0
  BY <1>5, <1>6, Zenon
<1> DEFINE a == Cardinality(Units(f, s \ {x}))
           b == Cardinality(new)
           c == Cardinality(Units(f, s \ {x}) \intersect new)
<1>10. a \in Nat /\ b = f[x] /\ c = 0 /\ Cardinality(Units(f, s)) = a + b - c
  BY <1>4, <1>6, <1>7, <1>8, <1>9, Zenon
<1>11. Cardinality(Units(f, s)) = f[x] + a
  <2> HIDE DEF a, b, c
  <2> QED
    BY <1>1, <1>10
<1> QED
  BY <1>4, <1>7, <1>11, Zenon

(* A finite set has finitely many units.                                   *)
LEMMA UnitsFinite ==
  ASSUME NEW S, IsFiniteSet(S), NEW f \in [S -> Nat]
  PROVE  \A s \in SUBSET S : IsFiniteSet(Units(f, s))
<1> DEFINE Bad == {s \in SUBSET S : ~IsFiniteSet(Units(f, s))}
<1> SUFFICES ASSUME Bad # {} PROVE FALSE
  BY Zenon
<1>1. PICK s \in Bad : \A t \in SUBSET s : t # s => t \notin Bad
  <2>1. Bad \subseteq SUBSET S
    BY Zenon
  <2> HIDE DEF Bad
  <2> QED
    BY <2>1, SubsetMinimum, Zenon
<1>2. CASE s = {}
  <2>1. Units(f, {}) = {}
    BY Zenon DEF Units
  <2> QED
    BY <1>2, <2>1, FS_EmptySet, Zenon
<1>3. CASE s # {}
  <2>1. PICK x \in s : TRUE
    BY <1>3, Zenon
  <2>2. s \ {x} \in SUBSET s /\ s \ {x} # s /\ s \ {x} \in SUBSET S
    BY Zenon
  <2>3. IsFiniteSet(Units(f, s \ {x}))
    BY <1>1, <2>2, Zenon
  <2>4. s \in SUBSET S
    BY Zenon
  <2> QED
    BY <2>3, <2>4, UnitsAdd, Zenon
<1> QED
  BY <1>2, <1>3, Zenon

(* FoldFunction(+, 0, f), which sums up loads, is a number.                *)
LEMMA SumType ==
  ASSUME NEW S, IsFiniteSet(S), NEW f \in [S -> Nat]
  PROVE  FoldFunction(+, 0, f) \in Nat
<1> DEFINE Def(g) == [s \in SUBSET S |-> IF s = {} THEN 0 ELSE f[Pick(s)] + g[s \ {Pick(s)}]]
           iter == CHOOSE g : g = Def(g)
           h == [s \in SUBSET S |-> Cardinality(Units(f, s))]
<1>1. FoldFunction(+, 0, f) = iter[S]
  <2>1. DOMAIN f = S
    BY Zenon
  <2> QED
    BY <2>1, Zenon DEF FoldFunction, FoldFunctionOnSet, MapThenFoldSet, Pick
<1>2. h = Def(h)
  <2>1. ASSUME NEW s \in SUBSET S
        PROVE  h[s] = IF s = {} THEN 0 ELSE f[Pick(s)] + h[s \ {Pick(s)}]
    <3>1. CASE s = {}
      <4>1. Units(f, {}) = {}
        BY Zenon DEF Units
      <4> QED
        BY <3>1, <4>1, FS_EmptySet, Zenon
    <3>2. CASE s # {}
      <4>1. Pick(s) \in s /\ s \ {Pick(s)} \in SUBSET S
        BY <3>2, PickIn, Zenon
      <4>2. IsFiniteSet(Units(f, s \ {Pick(s)}))
        BY <4>1, UnitsFinite, Zenon
      <4>3. Cardinality(Units(f, s)) = f[Pick(s)] + Cardinality(Units(f, s \ {Pick(s)}))
        BY <4>1, <4>2, UnitsAdd
      <4> QED
        BY <3>2, <4>1, <4>3, Zenon
    <3> QED
      BY <3>1, <3>2, Zenon
  <2> HIDE DEF h
  <2>2. h = [s \in SUBSET S |-> h[s]]
    BY Zenon DEF h
  <2> QED
    BY <2>1, <2>2, Zenon
<1>3. iter = Def(iter)
  <2> HIDE DEF h, Def
  <2> QED
    BY <1>2, Zenon
<1> HIDE DEF iter, h
<1> DEFINE Bad == {s \in SUBSET S : iter[s] \notin Nat}
<1>4. ASSUME Bad # {} PROVE FALSE
  <2>1. PICK s \in Bad : \A t \in SUBSET s : t # s => t \notin Bad
    <3>1. Bad \subseteq SUBSET S
      BY Zenon
    <3> HIDE DEF Bad
    <3> QED
      BY <1>4, <3>1, SubsetMinimum, Zenon
  <2>2. s \in SUBSET S /\ iter[s] \notin Nat
    BY Zenon
  <2>3. iter[s] = IF s = {} THEN 0 ELSE f[Pick(s)] + iter[s \ {Pick(s)}]
    BY <1>3, <2>2, Zenon
  <2>4. s # {}
    BY <2>2, <2>3
  <2>5. Pick(s) \in s
    BY <2>4, PickIn, Zenon
  <2>6. iter[s \ {Pick(s)}] \in Nat
    BY <2>1, <2>2, <2>5, Zenon
  <2> QED
    BY <2>2, <2>3, <2>4, <2>5, <2>6
<1> QED
  BY <1>1, <1>4, Zenon
-----------------------------------------------------------------------------
(* CPUs are numbers, and finitely many.                                    *)
LEMMA CpuFacts ==
  /\ NCpus \in Nat /\ 0 \in Cpus /\ Cpus \subseteq Nat
  /\ IsFiniteSet(Cpus) /\ Cardinality(Cpus) = NCpus
  /\ \A S \in SUBSET Cpus : IsFiniteSet(S) /\ Cardinality(S) \in 0 .. NCpus
<1>1. NCpus \in Nat /\ 0 \in Cpus /\ Cpus \subseteq Nat
  BY CpusAssumption DEF Cpus
<1>2. IsFiniteSet(Cpus) /\ Cardinality(Cpus) = NCpus
  BY CpusAssumption, FS_Interval DEF Cpus
<1>3. ASSUME NEW S \in SUBSET Cpus PROVE IsFiniteSet(S) /\ Cardinality(S) \in 0 .. NCpus
  <2>1. IsFiniteSet(S) /\ Cardinality(S) <= NCpus
    BY <1>2, FS_Subset, Zenon
  <2>2. Cardinality(S) \in Nat
    BY <2>1, FS_CardinalityType, Zenon
  <2> QED
    BY <1>1, <2>1, <2>2
<1> QED
  BY <1>1, <1>2, <1>3, Zenon

(* A CPU that is counted, one that starts to be, and one that stops.       *)
LEMMA Counting ==
  ASSUME NEW S \in SUBSET Cpus, NEW c \in Cpus
  PROVE  /\ Cardinality(S) \in 0 .. NCpus
         /\ c \in S => Cardinality(S \ {c}) = Cardinality(S) - 1
         /\ c \notin S => Cardinality(S \union {c}) = Cardinality(S) + 1
         /\ Cardinality(S \union {c}) \in 0 .. NCpus /\ Cardinality(S \ {c}) \in 0 .. NCpus
<1>1. IsFiniteSet(S) /\ S \union {c} \in SUBSET Cpus /\ S \ {c} \in SUBSET Cpus
  BY CpuFacts, Zenon
<1>2. /\ Cardinality(S) \in 0 .. NCpus /\ Cardinality(S \union {c}) \in 0 .. NCpus
      /\ Cardinality(S \ {c}) \in 0 .. NCpus
  BY <1>1, CpuFacts, Zenon
<1>3. Cardinality(S \ {c}) = IF c \in S THEN Cardinality(S) - 1 ELSE Cardinality(S)
  BY <1>1, FS_RemoveElement, Zenon
<1>4. Cardinality(S \union {c}) = IF c \in S THEN Cardinality(S) ELSE Cardinality(S) + 1
  BY <1>1, FS_AddElement, Zenon
<1> QED
  BY <1>2, <1>3, <1>4, Zenon

(* The counters agree: with what they count put as sets.                   *)
LEMMA Counters ==
  /\ CountersAgree <=> count = Cardinality(Counted) /\ ready = Cardinality(Balancing)
  /\ CountersAgree' <=> count' = Cardinality(Counted') /\ ready' = Cardinality(Balancing')
  /\ Counted \in SUBSET Cpus /\ Balancing \in SUBSET Cpus
BY Zenon DEF CountersAgree, Counted, Balancing

(* The records of the load balancer.                                       *)
BalType == [min : 0 .. NCpus, i : Nat, avg : Int, now : 0 .. epoch, at : 0 .. conf.maxEpoch]

(* A record, when one of its fields changes.                               *)
LEMMA RecordTypes ==
  ASSUME NEW r \in BalType
  PROVE  /\ \A n \in 0 .. NCpus : [r EXCEPT !.min = n] \in BalType
         /\ \A j \in Nat : [r EXCEPT !.i = j] \in BalType
         /\ \A a \in Int : [r EXCEPT !.avg = a] \in BalType
         /\ \A n \in 0 .. epoch : [r EXCEPT !.now = n] \in BalType
         /\ \A n \in 0 .. conf.maxEpoch : [r EXCEPT !.at = n] \in BalType
<1>1. \A n \in 0 .. NCpus : [r EXCEPT !.min = n] \in BalType
  BY Zenon DEF BalType
<1>2. \A j \in Nat : [r EXCEPT !.i = j] \in BalType
  BY Zenon DEF BalType
<1>3. \A a \in Int : [r EXCEPT !.avg = a] \in BalType
  BY Zenon DEF BalType
<1>4. \A n \in 0 .. epoch : [r EXCEPT !.now = n] \in BalType
  BY Zenon DEF BalType
<1>5. \A n \in 0 .. conf.maxEpoch : [r EXCEPT !.at = n] \in BalType
  BY Zenon DEF BalType
<1> QED
  BY <1>1, <1>2, <1>3, <1>4, <1>5, Zenon

-----------------------------------------------------------------------------
(* The types, for every step.                                              *)
LEMMA TypesHold == IInv /\ Next => TypeOK'
(* The types, for the calls that change no list and no load.               *)
<1>CallTypes. ASSUME TypeOK, UNCHANGED conf, NEW c \in Cpus,
           \/ Yield(c) \/ Exit(c) \/ SetWakeTime(c) \/ SleepSuspend(c) \/ SyscallSleep(c)
           \/ SleepReturn(c) \/ Raise(c) \/ Lower(c)
           \/ SetProc(c, "EXITING") \/ SetProc(c, "SIGPEND")
           \/ \E t \in Threads : \/ \E k \in BOOLEAN : Suspend(c, t, k) \/ Resume(c, t, k)
                                 \/ Detach(c, t)
    PROVE  TypeOK'
  <2> USE <1>CallTypes
  <2> USE DEF threadVars, listVars, cpuVars, schedVars, loadVars
  <2>1. /\ \A on \in SUBSET Flags : \A t : [flags EXCEPT ![t] = @ \union on] \in [Threads -> SUBSET Flags]
        /\ \A at \in Pcs : [pc EXCEPT ![c] = at] \in [Cpus -> Pcs]
    BY Zenon DEF TypeOK
  <2>2. /\ {"EXITING"} \subseteq Flags /\ {"PRIVILEGED"} \subseteq Flags /\ {"DETACHED"} \subseteq Flags
        /\ SuspendFlags(TRUE) \subseteq Flags /\ SuspendFlags(FALSE) \subseteq Flags
        /\ {"enter", "run"} \subseteq Pcs
    BY Zenon DEF Flags, SuspendFlags, Pcs
  <2>3. CASE Yield(c)
    BY <2>1, <2>2, <2>3, Zenon DEF Yield, Goto, TypeOK
  <2>4. CASE Exit(c)
    BY <2>1, <2>2, <2>4, Zenon DEF Exit, SetFlags, Goto, TypeOK
  <2>5. CASE SetWakeTime(c)
    BY <2>5, Zenon DEF SetWakeTime, InKernel, TypeOK
  <2>6. CASE SleepSuspend(c)
    BY <2>1, <2>2, <2>6, Zenon DEF SleepSuspend, SetFlags, Goto, TypeOK
  <2>7. CASE SyscallSleep(c)
    BY <2>1, <2>2, <2>7, Zenon DEF SyscallSleep, SetFlags, TypeOK
  <2>8. CASE SleepReturn(c)
    BY <2>8, Zenon DEF SleepReturn, TypeOK
  <2>9. CASE Raise(c)
    BY <2>1, <2>2, <2>9, Zenon DEF Raise, SetFlags, TypeOK
  <2>10. CASE Lower(c)
    <3>1. flags' \in [Threads -> SUBSET Flags] /\ pc' \in [Cpus -> Pcs]
      BY <2>2, <2>10, Zenon DEF Lower, Goto, TypeOK
    <3> QED
      BY <2>10, <3>1, Zenon DEF Lower, TypeOK
  <2>11. ASSUME NEW f \in {"EXITING", "SIGPEND"}, SetProc(c, f) PROVE TypeOK'
    <3>1. proc' = proc \union {f} /\ proc \subseteq {"EXITING", "SIGPEND"}
      BY <2>11, Zenon DEF SetProc, TypeOK
    <3>2. proc' \subseteq {"EXITING", "SIGPEND"}
      BY <3>1, Zenon
    <3> QED
      BY <2>11, <3>2, Zenon DEF SetProc, TypeOK
  <2>12. ASSUME NEW t \in Threads, NEW k \in BOOLEAN, Suspend(c, t, k)
         PROVE  TypeOK'
    <3>1. SuspendFlags(k) \subseteq Flags
      BY Zenon DEF SuspendFlags, Flags
    <3>2. flags' = flags \/ flags' = [flags EXCEPT ![t] = @ \union SuspendFlags(k)]
      BY <2>12, Zenon DEF Suspend, SetFlags
    <3>3. flags \in [Threads -> SUBSET Flags]
      BY Zenon DEF TypeOK
    <3>4. flags' \in [Threads -> SUBSET Flags]
      BY <3>1, <3>2, <3>3, Zenon
    <3>5. pc' \in [Cpus -> Pcs]
      BY <2>1, <2>2, <2>12, Zenon DEF Suspend, Goto
    <3> QED
      BY <2>12, <3>4, <3>5, Zenon DEF Suspend, TypeOK
  <2>13. ASSUME NEW t \in Threads, NEW k \in BOOLEAN, Resume(c, t, k)
         PROVE  TypeOK'
    <3>1. flags' \in [Threads -> SUBSET Flags] /\ resuming' \in [Threads -> Threads \union {NoThread}]
      BY <2>13, Zenon DEF Resume, MarkRunning, InKernel, TypeOK, Flags
    <3> QED
      BY <2>13, <3>1, Zenon DEF Resume, TypeOK
  <2>14. ASSUME NEW t \in Threads, Detach(c, t)
         PROVE  TypeOK'
    BY <2>1, <2>2, <2>14, Zenon DEF Detach, SetFlags, TypeOK
  <2> QED
    BY <2>3, <2>4, <2>5, <2>6, <2>7, <2>8, <2>9, <2>10, <2>11, <2>12, <2>13, <2>14, Zenon
(* The record of a CPU, when some of its fields change.                    *)
<1>BalTypes. ASSUME TypeOK, NEW c \in Cpus
    PROVE  /\ bal[c] \in BalType /\ bal \in [Cpus -> BalType]
           /\ bal[c].i \in Nat /\ bal[c].avg \in Int /\ bal[c].now \in 0 .. epoch
           /\ \A n \in 0 .. NCpus : [bal EXCEPT ![c].min = n] \in [Cpus -> BalType]
           /\ \A j \in Nat : [bal EXCEPT ![c].i = j] \in [Cpus -> BalType]
           /\ \A n \in 0 .. epoch : [bal EXCEPT ![c].now = n] \in [Cpus -> BalType]
           /\ \A n \in 0 .. conf.maxEpoch : [bal EXCEPT ![c].at = n] \in [Cpus -> BalType]
           /\ \A j \in Nat, a \in Int : [bal EXCEPT ![c].i = j, ![c].avg = a] \in [Cpus -> BalType]
           /\ [bal EXCEPT ![c].min = 0, ![c].i = 0, ![c].avg = 0, ![c].now = 0] \in [Cpus -> BalType]
  <2> USE <1>BalTypes
  <2>1. bal \in [Cpus -> BalType]
    BY Zenon DEF TypeOK, BalType
  <2>2. bal[c] \in BalType /\ 0 \in 0 .. NCpus /\ 0 \in 0 .. epoch
    <3>1. conf.maxEpoch \in Nat /\ epoch \in 0 .. conf.maxEpoch
      BY ConfigsAssumption, Zenon DEF TypeOK
    <3>2. epoch \in Nat
      BY <3>1, Numbers, Zenon
    <3> QED
      BY <2>1, <3>2, CpuFacts, Numbers, Zenon
  <2>3. bal[c].i \in Nat /\ bal[c].avg \in Int /\ bal[c].now \in 0 .. epoch
    BY <2>2, Zenon DEF BalType
  <2>4. \A r \in BalType : [bal EXCEPT ![c] = r] \in [Cpus -> BalType]
    BY <2>1, Zenon
  <2>5. ASSUME NEW n \in 0 .. NCpus PROVE [bal EXCEPT ![c].min = n] \in [Cpus -> BalType]
    <3> DEFINE b == [bal[c] EXCEPT !.min = n]
    <3>1. b \in BalType /\ [bal EXCEPT ![c].min = n] = [bal EXCEPT ![c] = b]
      BY <2>1, <2>2, RecordTypes, Zenon
    <3> HIDE DEF b
    <3> QED
      BY <2>4, <3>1, Zenon
  <2>6. ASSUME NEW j \in Nat PROVE [bal EXCEPT ![c].i = j] \in [Cpus -> BalType]
    <3> DEFINE b == [bal[c] EXCEPT !.i = j]
    <3>1. b \in BalType /\ [bal EXCEPT ![c].i = j] = [bal EXCEPT ![c] = b]
      BY <2>1, <2>2, RecordTypes, Zenon
    <3> HIDE DEF b
    <3> QED
      BY <2>4, <3>1, Zenon
  <2>7. ASSUME NEW n \in 0 .. epoch PROVE [bal EXCEPT ![c].now = n] \in [Cpus -> BalType]
    <3> DEFINE b == [bal[c] EXCEPT !.now = n]
    <3>1. b \in BalType /\ [bal EXCEPT ![c].now = n] = [bal EXCEPT ![c] = b]
      BY <2>1, <2>2, RecordTypes, Zenon
    <3> HIDE DEF b
    <3> QED
      BY <2>4, <3>1, Zenon
  <2>8. ASSUME NEW n \in 0 .. conf.maxEpoch PROVE [bal EXCEPT ![c].at = n] \in [Cpus -> BalType]
    <3> DEFINE b == [bal[c] EXCEPT !.at = n]
    <3>1. b \in BalType /\ [bal EXCEPT ![c].at = n] = [bal EXCEPT ![c] = b]
      BY <2>1, <2>2, RecordTypes, Zenon
    <3> HIDE DEF b
    <3> QED
      BY <2>4, <3>1, Zenon
  <2>9. ASSUME NEW j \in Nat, NEW a \in Int
        PROVE  [bal EXCEPT ![c].i = j, ![c].avg = a] \in [Cpus -> BalType]
    <3> DEFINE b == [bal[c] EXCEPT !.i = j, !.avg = a]
    <3>1. b \in BalType
      <4>1. [bal[c] EXCEPT !.i = j] \in BalType
        BY <2>2, RecordTypes, Zenon
      <4> QED
        BY <4>1, RecordTypes, Zenon
    <3>2. [bal EXCEPT ![c].i = j, ![c].avg = a] = [bal EXCEPT ![c] = b]
      BY <2>1, Zenon DEF BalType
    <3> HIDE DEF b
    <3> QED
      BY <2>4, <3>1, <3>2, Zenon
  <2>10. [bal EXCEPT ![c].min = 0, ![c].i = 0, ![c].avg = 0, ![c].now = 0] \in [Cpus -> BalType]
    <3> DEFINE b1 == [bal[c] EXCEPT !.min = 0]
               b2 == [b1 EXCEPT !.i = 0]
               b3 == [b2 EXCEPT !.avg = 0]
               b4 == [b3 EXCEPT !.now = 0]
    <3>1. [bal EXCEPT ![c].min = 0, ![c].i = 0, ![c].avg = 0, ![c].now = 0] = [bal EXCEPT ![c] = b4]
      BY <2>1, Zenon DEF BalType
    <3>2. b1 \in BalType
      BY <2>2, RecordTypes, Zenon
    <3> HIDE DEF b1
    <3>3. b2 \in BalType
      BY <3>2, Numbers, RecordTypes, Zenon
    <3> HIDE DEF b2
    <3>4. b3 \in BalType
      BY <3>3, Numbers, RecordTypes, Zenon
    <3> HIDE DEF b3
    <3>5. b4 \in BalType
      BY <2>2, <3>4, RecordTypes, Zenon
    <3> HIDE DEF b4
    <3> QED
      BY <2>4, <3>1, <3>5, Zenon
  <2> QED
    BY <2>1, <2>2, <2>3, <2>5, <2>6, <2>7, <2>8, <2>9, <2>10, Zenon
(* sw_measure_load.  The load of a CPU is a sum of loads of threads.       *)
<1>MeasureTypes. ASSUME TypeOK, UNCHANGED conf, NEW c \in Cpus,
           NEW now \in 0 .. conf.maxEpoch, MeasureIfDue(c, now)
    PROVE  /\ usage' \in [Threads -> Nat] /\ avg' \in [Cpus -> Nat] /\ est' \in [Cpus -> Nat]
           /\ bal' \in [Cpus -> BalType] /\ measured' \in [Cpus -> 0 .. conf.maxEpoch]
           /\ pc' \in [Cpus -> Pcs] /\ UNCHANGED <<ready, epoch>>
  <2> USE <1>MeasureTypes
  <2>1. CASE now > measured[c]
    <3>1. PICK u \in [Range(queue[c]) -> conf.loads] :
            /\ usage' = [t \in Threads |-> IF t \in DOMAIN u THEN u[t] ELSE usage[t]]
            /\ avg' = [avg EXCEPT ![c] = FoldFunction(+, 0, u)]
            /\ est' = [est EXCEPT ![c] = FoldFunction(+, 0, u)]
            /\ bal' = [bal EXCEPT ![c].at = now]
            /\ measured' = [measured EXCEPT ![c] = now]
            /\ pc' = [pc EXCEPT ![c] = "arrive"] /\ UNCHANGED <<ready, epoch>>
      BY <2>1, Zenon DEF MeasureIfDue, Measure, Goto
    <3>2. IsFiniteSet(Range(queue[c]))
      <4>1. Range(queue[c]) \in SUBSET Threads
        BY ListTypes, Zenon
      <4> QED
        BY <4>1, ThreadsAssumption, FS_Subset, Zenon
    <3>3. u \in [Range(queue[c]) -> Nat]
      BY <3>1, ConfigsAssumption, Zenon DEF TypeOK
    <3>4. FoldFunction(+, 0, u) \in Nat
      BY <3>2, <3>3, SumType, Zenon
    <3>5. usage' \in [Threads -> Nat] /\ avg' \in [Cpus -> Nat] /\ est' \in [Cpus -> Nat]
      <4> DEFINE total == FoldFunction(+, 0, u)
      <4>1. total \in Nat /\ avg' = [avg EXCEPT ![c] = total] /\ est' = [est EXCEPT ![c] = total]
        BY <3>1, <3>4, Zenon
      <4>2. usage' \in [Threads -> Nat]
        BY <3>1, <3>3, Zenon DEF TypeOK
      <4> HIDE DEF total
      <4> QED
        BY <4>1, <4>2, Zenon DEF TypeOK
    <3>6. bal' \in [Cpus -> BalType]
      <4>1. \A n \in 0 .. conf.maxEpoch : [bal EXCEPT ![c].at = n] \in [Cpus -> BalType]
        BY <1>BalTypes, Zenon
      <4> QED
        BY <3>1, <4>1, Zenon
    <3>7. measured' \in [Cpus -> 0 .. conf.maxEpoch] /\ pc' \in [Cpus -> Pcs]
      BY <3>1, Zenon DEF TypeOK, Pcs
    <3> QED
      BY <3>1, <3>5, <3>6, <3>7, Zenon
  <2>2. CASE ~(now > measured[c])
    <3>1. UNCHANGED loadVars /\ pc' = [pc EXCEPT ![c] = "incoming"]
      BY <2>2, Zenon DEF MeasureIfDue, Goto
    <3>2. pc' \in [Cpus -> Pcs]
      BY <3>1, Zenon DEF TypeOK, Pcs
    <3>3. bal \in [Cpus -> BalType]
      BY <1>BalTypes, Zenon
    <3> QED
      BY <3>1, <3>2, <3>3, Zenon DEF TypeOK, loadVars
  <2> QED
    BY <2>1, <2>2, Zenon
(* The types, for a CPU that enters sw_handle_sched_flags.                 *)
<1>EnterTypes. ASSUME TypeOK, CountersAgree, CpusFit, UNCHANGED conf, NEW c \in Cpus,
           \/ EnterNormal(c) \/ EnterFirst(c) \/ EnterStarting(c) \/ CountCpu(c)
           \/ EnterExiting(c) \/ UncountCpu(c) \/ LeaveQueues(c)
    PROVE  TypeOK'
  <2> USE <1>EnterTypes
  <2> USE DEF threadVars, listVars, schedVars
  <2>1. /\ sched \in [Cpus -> SUBSET {"STARTING", "RUNNING", "EXITING"}] /\ count \in 0 .. NCpus
        /\ epoch \in 0 .. conf.maxEpoch
    BY Zenon DEF TypeOK
  <2>2. bal[c].now \in 0 .. conf.maxEpoch /\ epoch \in 0 .. epoch
    <3>1. conf.maxEpoch \in Nat
      BY ConfigsAssumption, Zenon DEF TypeOK
    <3>2. bal[c].now \in 0 .. epoch
      BY <1>BalTypes, Zenon
    <3> QED
      BY <2>1, <3>1, <3>2
  <2>3. ASSUME NEW now \in 0 .. conf.maxEpoch, MeasureIfDue(c, now)
        PROVE  /\ usage' \in [Threads -> Nat] /\ avg' \in [Cpus -> Nat] /\ est' \in [Cpus -> Nat]
               /\ bal' \in [Cpus -> BalType] /\ measured' \in [Cpus -> 0 .. conf.maxEpoch]
               /\ pc' \in [Cpus -> Pcs] /\ UNCHANGED <<ready, epoch>>
    BY <2>3, <1>MeasureTypes, Zenon
  <2>4. CASE EnterNormal(c)
    <3>1. MeasureIfDue(c, epoch)
      BY <2>4, Zenon DEF EnterNormal
    <3> QED
      BY <2>1, <2>3, <2>4, <3>1, Zenon DEF EnterNormal, TypeOK, BalType
  <2>5. CASE EnterFirst(c)
    <3>1. MeasureIfDue(c, epoch)
      BY <2>5, Zenon DEF EnterFirst
    <3>2. sched' \in [Cpus -> SUBSET {"STARTING", "RUNNING", "EXITING"}]
      BY <2>1, <2>5, Zenon DEF EnterFirst
    <3> QED
      BY <2>1, <2>3, <2>5, <3>1, <3>2, Zenon DEF EnterFirst, TypeOK, BalType
  <2>6. CASE EnterStarting(c)
    <3>1. sched' \in [Cpus -> SUBSET {"STARTING", "RUNNING", "EXITING"}]
      BY <2>1, <2>6, Zenon DEF EnterStarting
    <3>2. bal' \in [Cpus -> BalType]
      <4>1. bal' = [bal EXCEPT ![c].now = epoch]
        BY <2>6, Zenon DEF EnterStarting
      <4>2. \A n \in 0 .. epoch : [bal EXCEPT ![c].now = n] \in [Cpus -> BalType]
        BY <1>BalTypes, Zenon
      <4> QED
        BY <2>2, <4>1, <4>2, Zenon
    <3>3. pc' \in [Cpus -> Pcs]
      BY <2>6, Zenon DEF EnterStarting, Goto, TypeOK, Pcs
    <3> QED
      BY <2>6, <3>1, <3>2, <3>3, Zenon DEF EnterStarting, TypeOK, BalType
  <2>7. CASE CountCpu(c)
    <3>1. MeasureIfDue(c, bal[c].now) /\ c \notin Counted
      BY <2>7, Zenon DEF CountCpu, Counted
    <3>2. count' \in 0 .. NCpus
      <4>1. Cardinality(Counted \union {c}) = count + 1 /\ Cardinality(Counted \union {c}) \in 0 .. NCpus
        BY <3>1, Counters, Counting, Zenon
      <4> QED
        BY <2>7, <4>1, Zenon DEF CountCpu
    <3>3. /\ usage' \in [Threads -> Nat] /\ avg' \in [Cpus -> Nat] /\ est' \in [Cpus -> Nat]
          /\ bal' \in [Cpus -> BalType] /\ measured' \in [Cpus -> 0 .. conf.maxEpoch]
          /\ pc' \in [Cpus -> Pcs] /\ UNCHANGED <<ready, epoch>>
      BY <2>2, <2>3, <3>1, Zenon
    <3> QED
      BY <2>7, <3>2, <3>3, Zenon DEF CountCpu, TypeOK, BalType
  <2>8. CASE EnterExiting(c)
    <3>1. pc' \in [Cpus -> Pcs] /\ avg' \in [Cpus -> Nat] /\ est' \in [Cpus -> Nat]
      BY <2>8, Zenon DEF EnterExiting, Goto, TypeOK, Pcs
    <3> QED
      BY <2>8, <3>1, Zenon DEF EnterExiting, TypeOK
  <2>9. CASE UncountCpu(c)
    <3>1. c \in Counted
      BY <2>9, Zenon DEF UncountCpu, CpusFit, CpuFits, Counted
    <3>2. count' \in 0 .. NCpus
      <4>1. Cardinality(Counted \ {c}) = count - 1 /\ Cardinality(Counted \ {c}) \in 0 .. NCpus
        BY <3>1, Counters, Counting, Zenon
      <4> QED
        BY <2>9, <4>1, Zenon DEF UncountCpu
    <3>3. pc' \in [Cpus -> Pcs]
      BY <2>9, Zenon DEF UncountCpu, Goto, TypeOK, Pcs
    <3> QED
      BY <2>9, <3>2, <3>3, Zenon DEF UncountCpu, loadVars, TypeOK
  <2>10. CASE LeaveQueues(c)
    <3>1. sched' \in [Cpus -> SUBSET {"STARTING", "RUNNING", "EXITING"}]
      BY <2>1, <2>10, Zenon DEF LeaveQueues
    <3>2. queue' \in [Cpus -> Seq(Threads)] /\ incoming' \in [Cpus -> Seq(Threads)]
      <4>1. queue[c] \o incoming[c] \in Seq(Threads) /\ <<>> \in Seq(Threads)
        BY ListTypes, ConcatFacts, ShortLists, Zenon
      <4> QED
        BY <2>10, <4>1, Zenon DEF LeaveQueues, TypeOK
    <3>3. bal' \in [Cpus -> BalType]
      <4>1. bal' = [bal EXCEPT ![c].i = 0] /\ 0 \in Nat
        BY <2>10, Zenon DEF LeaveQueues
      <4>2. \A j \in Nat : [bal EXCEPT ![c].i = j] \in [Cpus -> BalType]
        BY <1>BalTypes, Zenon
      <4> QED
        BY <4>1, <4>2, Zenon
    <3>4. pc' \in [Cpus -> Pcs]
      BY <2>10, Zenon DEF LeaveQueues, Goto, TypeOK, Pcs
    <3> QED
      BY <2>10, <3>1, <3>2, <3>3, <3>4, Zenon DEF LeaveQueues, TypeOK, BalType
  <2> QED
    BY <2>4, <2>5, <2>6, <2>7, <2>8, <2>9, <2>10, Zenon
(* The types, for load balancing and for an exiting CPU.                   *)
<1>BalanceTypes. ASSUME TypeOK, CountersAgree, UNCHANGED conf, NEW c \in Cpus,
           \/ Evict(c) \/ PowerOff(c) \/ Arrive(c) \/ ReadMin(c) \/ PassBarrier(c) \/ AddAverage(c)
           \/ CompareLoad(c) \/ Balance(c) \/ BalanceDone(c)
    PROVE  TypeOK'
  <2> USE <1>BalanceTypes
  <2> USE DEF threadVars, listVars, cpuVars, schedVars
  <2>1. /\ \A at \in Pcs : [pc EXCEPT ![c] = at] \in [Cpus -> Pcs]
        /\ {"off", "min", "barrier", "sum", "incoming", "balance"} \subseteq Pcs
    BY Zenon DEF TypeOK, Pcs
  <2>2. ASSUME c \in Balancing, LeaveBarrier PROVE ready' \in 0 .. NCpus
    <3>1. Cardinality(Balancing \ {c}) = ready - 1 /\ Cardinality(Balancing \ {c}) \in 0 .. NCpus
      BY <2>2, Counters, Counting, Zenon
    <3> QED
      BY <2>2, <3>1, Zenon DEF LeaveBarrier
  <2>3. LocalsDead(c) => bal' \in [Cpus -> BalType]
    <3>1. [bal EXCEPT ![c].min = 0, ![c].i = 0, ![c].avg = 0, ![c].now = 0] \in [Cpus -> BalType]
      BY <1>BalTypes, Zenon
    <3> QED
      BY <3>1, Zenon DEF LocalsDead
  <2>4. queue[c] # <<>> => /\ Head(queue[c]) \in Threads
                           /\ Tail(queue[c]) \in Seq(Threads) /\ Rotate(queue[c]) \in Seq(Threads)
    BY ListTypes, TailFacts, AppendFacts, Zenon DEF Rotate
  <2>5. CASE Evict(c)
    <3>1. Head(queue[c]) \in Threads /\ queue' \in [Cpus -> Seq(Threads)]
      BY <2>4, <2>5, Zenon DEF Evict, TypeOK
    <3>2. shares' \in [Cpus -> Nat] /\ incoming' \in [Cpus -> Seq(Threads)] /\ est' \in [Cpus -> Nat]
      BY <2>5, <3>1, HandoffFacts, Zenon DEF Evict
    <3>3. bal' \in [Cpus -> BalType]
      <4>1. PICK d \in FirstRunning(c, bal[c].i + 1) : bal' = [bal EXCEPT ![c].i = d]
        BY <2>5, Zenon DEF Evict
      <4>2. d \in Nat
        BY <4>1, CpuFacts, Zenon DEF FirstRunning
      <4>3. \A j \in Nat : [bal EXCEPT ![c].i = j] \in [Cpus -> BalType]
        BY <1>BalTypes, Zenon
      <4> QED
        BY <4>1, <4>2, <4>3, Zenon
    <3> QED
      BY <2>5, <3>1, <3>2, <3>3, Zenon DEF Evict, TypeOK, BalType
  <2>6. CASE PowerOff(c)
    <3>1. pc' \in [Cpus -> Pcs] /\ bal' \in [Cpus -> BalType]
      BY <2>1, <2>3, <2>6, Zenon DEF PowerOff, Goto
    <3> QED
      BY <2>6, <3>1, Zenon DEF PowerOff, TypeOK, BalType
  <2>7a. CASE Arrive(c)
    <3>1. c \notin Balancing /\ ready' = ready + 1
      BY <2>7a, Zenon DEF Arrive, Balancing
    <3>2. /\ Cardinality(Balancing \union {c}) = ready + 1
          /\ Cardinality(Balancing \union {c}) \in 0 .. NCpus
      BY <3>1, Counters, Counting, Zenon
    <3>3. ready' \in 0 .. NCpus /\ pc' \in [Cpus -> Pcs]
      BY <2>1, <2>7a, <3>1, <3>2, Zenon DEF Arrive, Goto
    <3> QED
      BY <2>7a, <3>3, Zenon DEF Arrive, TypeOK
  <2>7b. CASE ReadMin(c)
    <3>1. bal' = [bal EXCEPT ![c].min = count] /\ count \in 0 .. NCpus /\ pc' \in [Cpus -> Pcs]
      BY <2>1, <2>7b, Zenon DEF ReadMin, Goto, TypeOK
    <3>2. \A n \in 0 .. NCpus : [bal EXCEPT ![c].min = n] \in [Cpus -> BalType]
      BY <1>BalTypes, Zenon
    <3>3. bal' \in [Cpus -> BalType]
      BY <3>1, <3>2, Zenon
    <3> QED
      BY <2>7b, <3>1, <3>3, Zenon DEF ReadMin, TypeOK, BalType
  <2>7c. \A j \in Nat, a \in Int : [bal EXCEPT ![c].i = j, ![c].avg = a] \in [Cpus -> BalType]
    BY <1>BalTypes, Zenon
  <2>7d. CASE PassBarrier(c)
    <3>1. bal' = [bal EXCEPT ![c].i = 0, ![c].avg = 0] /\ pc' \in [Cpus -> Pcs]
      BY <2>1, <2>7d, Zenon DEF PassBarrier, Goto
    <3>2. bal' \in [Cpus -> BalType]
      BY <2>7c, <3>1, Numbers, Zenon
    <3> QED
      BY <2>7d, <3>1, <3>2, Zenon DEF PassBarrier, TypeOK, BalType
  <2>7e. CASE AddAverage(c)
    <3> DEFINE j == bal[c].i
               a == bal[c].avg + avg[j]
    <3>1. j \in Nat /\ bal[c].avg \in Int /\ bal \in [Cpus -> BalType]
      BY <1>BalTypes, Zenon
    <3>2. j < NCpus
      BY <2>7e, Zenon DEF AddAverage
    <3>3. j \in Cpus
      <4> HIDE DEF j
      <4> QED
        BY <3>1, <3>2, CpusAssumption DEF Cpus
    <3>4. avg[j] \in Nat
      BY <3>3, Zenon DEF TypeOK
    <3>5. a \in Int /\ j + 1 \in Nat
      BY <3>1, <3>4, Numbers, Zenon
    <3>6. bal' = [bal EXCEPT ![c].i = j + 1, ![c].avg = a]
      <4>1. bal' = [bal EXCEPT ![c].avg = @ + avg[bal[c].i], ![c].i = @ + 1]
        BY <2>7e, Zenon DEF AddAverage
      <4> QED
        BY <3>1, <4>1, Zenon DEF BalType
    <3>7. bal' \in [Cpus -> BalType]
      <4> HIDE DEF j, a
      <4> QED
        BY <2>7c, <3>5, <3>6, Zenon
    <3> QED
      BY <2>7e, <3>7, Zenon DEF AddAverage, TypeOK, BalType
  <2>7. CASE CompareLoad(c)
    <3>1. c \in Balancing
      BY <2>7, Zenon DEF CompareLoad, Balancing
    <3>2. CASE avg[c] <= GlobalAverage(c)
      <4>1. pc' \in [Cpus -> Pcs] /\ bal' \in [Cpus -> BalType] /\ ready' \in 0 .. NCpus
        BY <2>1, <2>2, <2>3, <2>7, <3>1, <3>2, Zenon DEF CompareLoad, Goto
      <4> QED
        BY <2>7, <4>1, Zenon DEF CompareLoad, TypeOK, BalType
    <3>3. CASE ~(avg[c] <= GlobalAverage(c))
      <4>1. pc' \in [Cpus -> Pcs] /\ UNCHANGED ready
        BY <2>1, <2>7, <3>3, Zenon DEF CompareLoad, Goto
      <4>2. GlobalAverage(c) \in Int
        <5>1. count \in Nat /\ bal[c].avg \in Int
          BY CpuFacts, Numbers, <1>BalTypes, Zenon DEF TypeOK
        <5>2. GlobalAverage(c) = IF count = 0 THEN -1 ELSE bal[c].avg \div count
          BY Zenon DEF GlobalAverage
        <5> QED
          BY <5>1, <5>2, Numbers, Zenon
      <4>3. bal' = [bal EXCEPT ![c].i = 0, ![c].avg = GlobalAverage(c)]
        BY <2>7, <3>3, Zenon DEF CompareLoad
      <4>4. bal' \in [Cpus -> BalType]
        BY <2>7c, <4>2, <4>3, Numbers, Zenon
      <4> QED
        BY <2>7, <4>1, <4>4, Zenon DEF CompareLoad, TypeOK, BalType
    <3> QED
      BY <3>2, <3>3, Zenon
  <2>8. CASE Balance(c)
    <3>1. queue[c] # <<>>
      <4>1. bal[c].i \in Nat
        BY <1>BalTypes, Zenon
      <4>2. bal[c].i < Len(queue[c])
        BY <2>8, Zenon DEF Balance
      <4> QED
        BY <4>1, <4>2, Numbers, ShortLists, Zenon
    <3>2. Head(queue[c]) \in Threads /\ queue' \in [Cpus -> Seq(Threads)]
      BY <2>4, <2>8, <3>1, Zenon DEF Balance, TypeOK
    <3>3. shares' \in [Cpus -> Nat] /\ incoming' \in [Cpus -> Seq(Threads)] /\ est' \in [Cpus -> Nat]
      BY <2>8, <3>2, HandoffFacts, Zenon DEF Balance
    <3>4. bal' \in [Cpus -> BalType]
      <4>1. bal' = [bal EXCEPT ![c].i = bal[c].i + 1]
        BY <2>8, Zenon DEF Balance
      <4>3. bal[c].i \in Nat
        BY <1>BalTypes, Zenon
      <4>4. bal[c].i + 1 \in Nat
        BY <4>3, Numbers, Zenon
      <4>2. \A j \in Nat : [bal EXCEPT ![c].i = j] \in [Cpus -> BalType]
        BY <1>BalTypes, Zenon
      <4> QED
        BY <4>1, <4>2, <4>4, Zenon
    <3> QED
      BY <2>8, <3>2, <3>3, <3>4, Zenon DEF Balance, TypeOK, BalType
  <2>9. CASE BalanceDone(c)
    <3>1. c \in Balancing
      BY <2>9, Zenon DEF BalanceDone, Balancing
    <3>2. pc' \in [Cpus -> Pcs] /\ bal' \in [Cpus -> BalType] /\ ready' \in 0 .. NCpus
      BY <2>1, <2>2, <2>3, <2>9, <3>1, Zenon DEF BalanceDone, Goto
    <3> QED
      BY <2>9, <3>2, Zenon DEF BalanceDone, TypeOK, BalType
  <2> QED
    BY <2>5, <2>6, <2>7, <2>7a, <2>7b, <2>7d, <2>7e, <2>8, <2>9, Zenon
(* The types, for the choice of the next thread.                           *)
<1>PickTypes. ASSUME TypeOK, ListsFit, UNCHANGED conf, NEW c \in Cpus,
           \/ TakeIncoming(c) \/ PickDead(c) \/ PickSuspended(c) \/ PickRunnable(c)
           \/ PickIdle(c) \/ Switch(c)
    PROVE  TypeOK'
  <2> USE <1>PickTypes
  <2> USE DEF threadVars, listVars, cpuVars, schedVars, loadVars
  <2>1. /\ \A at \in Pcs : [pc EXCEPT ![c] = at] \in [Cpus -> Pcs]
        /\ {"pick", "switch", "run"} \subseteq Pcs
    BY Zenon DEF TypeOK, Pcs
  <2>2. queue[c] # <<>> => /\ Head(queue[c]) \in Threads
                           /\ Tail(queue[c]) \in Seq(Threads) /\ Rotate(queue[c]) \in Seq(Threads)
    BY ListTypes, TailFacts, AppendFacts, Zenon DEF Rotate
  <2>3. CASE TakeIncoming(c)
    <3>1. PICK front \in Those(incoming[c], StartNow), back \in Those(incoming[c], Threads \ StartNow) :
            queue' = [queue EXCEPT ![c] = Reverse(front) \o @ \o back]
      BY <2>3, Zenon DEF TakeIncoming
    <3>2. incoming[c] \in Seq(Threads) /\ IsInjective(incoming[c]) /\ queue[c] \in Seq(Threads)
      BY ListTypes, Zenon DEF ListsFit
    <3>3. front \in Seq(Threads) /\ IsInjective(front) /\ back \in Seq(Threads)
      BY <3>1, <3>2, ThoseSet, Zenon
    <3>4. Reverse(front) \in Seq(Threads)
      BY <3>3, ReverseSet, Zenon
    <3> DEFINE q == Reverse(front) \o queue[c] \o back
    <3>5. q \in Seq(Threads) /\ queue' = [queue EXCEPT ![c] = q]
      BY <3>1, <3>2, <3>3, <3>4, ConcatFacts, Zenon
    <3> HIDE DEF q
    <3>6. queue' \in [Cpus -> Seq(Threads)] /\ incoming' \in [Cpus -> Seq(Threads)]
      <4>1. queue \in [Cpus -> Seq(Threads)] /\ incoming \in [Cpus -> Seq(Threads)] /\ <<>> \in Seq(Threads)
        BY ShortLists, Zenon DEF TypeOK
      <4>2. incoming' = [incoming EXCEPT ![c] = <<>>]
        BY <2>3, Zenon DEF TakeIncoming
      <4> QED
        BY <3>5, <4>1, <4>2, Zenon
    <3>7. pc' \in [Cpus -> Pcs]
      BY <2>1, <2>3, Zenon DEF TakeIncoming, Goto
    <3> QED
      BY <2>3, <3>6, <3>7, Zenon DEF TakeIncoming, TypeOK
  <2>4. CASE PickDead(c)
    <3>1. /\ Head(queue[c]) \in Threads /\ queue' \in [Cpus -> Seq(Threads)]
      BY <2>2, <2>4, Zenon DEF PickDead, TypeOK
    <3>2. dead' \in Seq(Threads)
      BY <2>4, <3>1, AppendFacts, Zenon DEF PickDead, TypeOK
    <3>3. flags' \in [Threads -> SUBSET Flags]
      BY <2>4, Zenon DEF PickDead, TypeOK, Flags
    <3> QED
      BY <2>4, <3>1, <3>2, <3>3, Zenon DEF PickDead, TypeOK
  <2>5. CASE PickSuspended(c)
    <3>1. queue' \in [Cpus -> Seq(Threads)] /\ flags' \in [Threads -> SUBSET Flags]
      BY <2>2, <2>5, Zenon DEF PickSuspended, TypeOK
    <3> QED
      BY <2>5, <3>1, Zenon DEF PickSuspended, TypeOK
  <2>6. CASE PickRunnable(c)
    <3> DEFINE t == Head(queue[c])
               m == IF "PRIVILEGED" \in flags[t] THEN "kernel" ELSE "user"
    <3>1. t \in Threads /\ queue' \in [Cpus -> Seq(Threads)] /\ pc' \in [Cpus -> Pcs]
      BY <2>1, <2>2, <2>6, Zenon DEF PickRunnable, Goto, TypeOK
    <3>2. flags' \in [Threads -> SUBSET Flags]
      <4>1. flags' = flags \/ flags' = [flags EXCEPT ![t] = @ \union {"PRIVILEGED"}]
        BY <2>6, Zenon DEF PickRunnable, SetSwitch
      <4>2. flags \in [Threads -> SUBSET Flags] /\ {"PRIVILEGED"} \subseteq Flags
        BY Zenon DEF TypeOK, Flags
      <4> HIDE DEF t
      <4> QED
        BY <4>1, <4>2, Zenon
    <3>3. next' \in [Cpus -> (Threads \union {Idle, NoThread}) \X {"user", "kernel"}]
      <4>1. next' = [next EXCEPT ![c] = <<t, m>>] /\ m \in {"user", "kernel"}
        BY <2>6, Zenon DEF PickRunnable, SetSwitch
      <4> HIDE DEF t, m
      <4> QED
        BY <3>1, <4>1, Zenon DEF TypeOK
    <3> QED
      BY <2>6, <3>1, <3>2, <3>3, Zenon DEF PickRunnable, TypeOK
  <2>7. CASE PickIdle(c)
    <3>1. next' \in [Cpus -> (Threads \union {Idle, NoThread}) \X {"user", "kernel"}]
      BY <2>7, Zenon DEF PickIdle, TypeOK
    <3>2. pc' \in [Cpus -> Pcs]
      BY <2>1, <2>7, Zenon DEF PickIdle, Goto
    <3> QED
      BY <2>7, <3>1, <3>2, Zenon DEF PickIdle, TypeOK
  <2>8. CASE Switch(c)
    <3>1. /\ next[c][1] \in Threads \union {Idle, NoThread} /\ next[c][2] \in {"user", "kernel"}
          /\ <<NoThread, "kernel">> \in (Threads \union {Idle, NoThread}) \X {"user", "kernel"}
      BY Zenon DEF TypeOK
    <3>2. pc' \in [Cpus -> Pcs]
      BY <2>1, <2>8, Zenon DEF Switch, Goto
    <3>3. /\ cur' \in [Cpus -> Threads \union {Idle, NoThread}]
          /\ mode' \in [Cpus -> {"user", "kernel"}]
          /\ next' \in [Cpus -> (Threads \union {Idle, NoThread}) \X {"user", "kernel"}]
      BY <2>8, <3>1, Zenon DEF Switch, TypeOK
    <3> QED
      BY <2>8, <3>2, <3>3, Zenon DEF Switch, TypeOK
  <2> QED
    BY <2>3, <2>4, <2>5, <2>6, <2>7, <2>8, Zenon
(* The types, for the calls that hand a thread to a CPU, free threads,     *)
(* start or stop a CPU, and for a load interval.                           *)
<1>OtherTypes. ASSUME TypeOK, ListsFit, UNCHANGED conf,
           \/ Interval
           \/ \E c \in Cpus : \/ ResumeHandoff(c) \/ Housekeeping(c) \/ StartCpu(c) \/ ExitCpu(c)
                              \/ \E t \in Threads : Wake(c, t)
    PROVE  TypeOK'
  <2> USE <1>OtherTypes
  <2> USE DEF threadVars, listVars, cpuVars, schedVars, loadVars
  <2>1. ASSUME NEW c \in Cpus, NEW t \in Threads, ForceHandoff(c, t)
        PROVE  incoming' \in [Cpus -> Seq(Threads)] /\ est' \in [Cpus -> Nat]
    <3>1. Append(incoming[c], t) \in Seq(Threads)
      BY ListTypes, AppendFacts, Zenon
    <3>2. est[c] \in Nat /\ usage[t] \in Nat
      BY Zenon DEF TypeOK
    <3>3. est[c] + usage[t] \in Nat
      BY <3>2, Numbers, Zenon
    <3> QED
      BY <2>1, <3>1, <3>3, Zenon DEF ForceHandoff, TypeOK
  <2>2. CASE Interval
    <3>1. conf.maxEpoch \in Nat
      BY ConfigsAssumption, Zenon DEF TypeOK
    <3>2. epoch' \in 0 .. conf.maxEpoch
      BY <2>2, <3>1, Numbers, Zenon DEF Interval, TypeOK
    <3>3. bal' \in [Cpus -> [min : 0 .. NCpus, i : Nat, avg : Int, now : 0 .. epoch', at : 0 .. conf.maxEpoch]]
      <4>1. 0 .. epoch \subseteq 0 .. epoch'
        BY <2>2, <3>1, Numbers, Zenon DEF Interval, TypeOK
      <4>2. \A r \in BalType :
              r \in [min : 0 .. NCpus, i : Nat, avg : Int, now : 0 .. epoch', at : 0 .. conf.maxEpoch]
        BY <4>1, Zenon DEF BalType
      <4>3. bal' = bal /\ bal \in [Cpus -> BalType]
        BY <2>2, Zenon DEF Interval, TypeOK, BalType
      <4> QED
        BY <4>2, <4>3, Zenon
    <3> QED
      BY <2>2, <3>2, <3>3, Zenon DEF Interval, TypeOK
  <2>3. ASSUME NEW c \in Cpus, ResumeHandoff(c) PROVE TypeOK'
    <3>1. resuming[cur[c]] \in Threads /\ cur[c] \in Threads
      BY <2>3, Zenon DEF ResumeHandoff, TypeOK
    <3>2. incoming' \in [Cpus -> Seq(Threads)] /\ est' \in [Cpus -> Nat]
      BY <2>1, <2>3, <3>1, Zenon DEF ResumeHandoff
    <3>3. resuming' \in [Threads -> Threads \union {NoThread}]
      BY <2>3, <3>1, Zenon DEF ResumeHandoff, TypeOK
    <3> QED
      BY <2>3, <3>2, <3>3, Zenon DEF ResumeHandoff, TypeOK
  <2>4. ASSUME NEW c \in Cpus, Housekeeping(c) PROVE TypeOK'
    <3>1. dead' \in Seq(Threads)
      BY <2>4, ThoseSet, Zenon DEF Housekeeping, TypeOK, ListsFit
    <3>2. freed' \subseteq Threads
      BY <2>4, ListTypes, Zenon DEF Housekeeping, DeadAndDetached, TypeOK
    <3> QED
      BY <2>4, <3>1, <3>2, Zenon DEF Housekeeping, TypeOK
  <2>5. ASSUME NEW c \in Cpus, StartCpu(c) PROVE TypeOK'
    <3>1. pc' \in [Cpus -> Pcs] /\ cur' \in [Cpus -> Threads \union {Idle, NoThread}]
      BY <2>5, Zenon DEF StartCpu, Goto, TypeOK, Pcs
    <3>2. /\ sched' \in [Cpus -> SUBSET {"STARTING", "RUNNING", "EXITING"}]
          /\ avg' \in [Cpus -> Nat] /\ est' \in [Cpus -> Nat]
          /\ measured' \in [Cpus -> 0 .. conf.maxEpoch]
      BY <2>5, Zenon DEF StartCpu, TypeOK
    <3> QED
      BY <2>5, <3>1, <3>2, Zenon DEF StartCpu, TypeOK
  <2>6. ASSUME NEW c \in Cpus, ExitCpu(c) PROVE TypeOK'
    <3>1. sched' \in [Cpus -> SUBSET {"STARTING", "RUNNING", "EXITING"}]
      BY <2>6, Zenon DEF ExitCpu, TypeOK
    <3> QED
      BY <2>6, <3>1, Zenon DEF ExitCpu, TypeOK
  <2>7. ASSUME NEW c \in Cpus, NEW t \in Threads, Wake(c, t) PROVE TypeOK'
    <3>1. incoming' \in [Cpus -> Seq(Threads)] /\ est' \in [Cpus -> Nat]
      BY <2>1, <2>7, Zenon DEF Wake, TypeOK
    <3>2. flags' \in [Threads -> SUBSET Flags]
      <4> DEFINE on == (flags[t] \ {"SUSPENDING"}) \union {"RUNNING"} \union {"STARTNOW"}
      <4>1. flags' = flags \/ flags' = [flags EXCEPT ![t] = on]
        BY <2>7, Zenon DEF Wake, MarkRunning
      <4>2. on \in SUBSET Flags /\ flags \in [Threads -> SUBSET Flags]
        BY Zenon DEF TypeOK, Flags
      <4> HIDE DEF on
      <4> QED
        BY <4>1, <4>2, Zenon
    <3>3. timers' \subseteq Threads
      BY <2>7, Zenon DEF Wake, TypeOK
    <3> QED
      BY <2>7, <3>1, <3>2, <3>3, Zenon DEF Wake, TypeOK
  <2> QED
    BY <2>2, <2>3, <2>4, <2>5, <2>6, <2>7, Zenon
<1> SUFFICES ASSUME IInv, Next PROVE TypeOK'
  BY Zenon
<1>1. TypeOK /\ ListsFit /\ CpusFit /\ CountersAgree /\ UNCHANGED conf
  BY NextCases, Zenon DEF IInv
<1>2. ASSUME NEW c \in Cpus, Request(c) PROVE TypeOK'
  BY <1>1, <1>2, <1>EnterTypes, <1>BalanceTypes, <1>PickTypes, Zenon DEF Request
<1>3. ASSUME NEW c \in Cpus, PlainCall(c) PROVE TypeOK'
  BY <1>1, <1>3, <1>CallTypes, Zenon DEF PlainCall
<1>4. ASSUME NEW c \in Cpus, NEW t \in Threads, NEW k \in BOOLEAN, Resume(c, t, k) PROVE TypeOK'
  BY <1>1, <1>4, <1>CallTypes, Zenon
<1> QED
  BY <1>1, <1>2, <1>3, <1>4, <1>OtherTypes, NextCases, Zenon
-----------------------------------------------------------------------------
(* CPU 0 has the boot thread in its incoming list.                         *)
LEMMA InitHolds == Init => IInv
<1> SUFFICES ASSUME Init PROVE IInv
  BY Zenon
<1>1. Boot \in Threads /\ NoThread \notin Threads /\ Idle \notin Threads
  BY ThreadsAssumption, Zenon
<1>2. <<>> \in Seq(Threads) /\ <<Boot>> \in Seq(Threads)
  BY <1>1, ShortLists, Zenon
<1>3. conf.maxEpoch \in Nat
  BY ConfigsAssumption, Zenon DEF Init
<1>4. TypeOK
  <2>1. /\ conf \in Configs /\ flags \in [Threads -> SUBSET Flags] /\ proc \subseteq {"EXITING", "SIGPEND"}
    BY Zenon DEF Init, Flags
  <2>2. /\ queue \in [Cpus -> Seq(Threads)] /\ incoming \in [Cpus -> Seq(Threads)] /\ dead \in Seq(Threads)
    BY <1>2, Zenon DEF Init
  <2>3. /\ freed \subseteq Threads /\ timers \subseteq Threads
        /\ sleep \in [Threads -> {"no", "timed", "suspended"}]
        /\ resuming \in [Threads -> Threads \union {NoThread}]
    BY Zenon DEF Init
  <2>4. /\ pc \in [Cpus -> Pcs] /\ cur \in [Cpus -> Threads \union {Idle, NoThread}]
        /\ mode \in [Cpus -> {"user", "kernel"}]
        /\ next \in [Cpus -> (Threads \union {Idle, NoThread}) \X {"user", "kernel"}]
    BY Zenon DEF Init, Pcs
  <2>5. /\ sched \in [Cpus -> SUBSET {"STARTING", "RUNNING", "EXITING"}] /\ shares \in [Cpus -> Nat]
        /\ count \in 0 .. NCpus /\ ready \in 0 .. NCpus
    BY CpuFacts, Numbers, Zenon DEF Init
  <2>6. bal \in [Cpus -> [min : 0 .. NCpus, i : Nat, avg : Int, now : 0 .. epoch, at : 0 .. conf.maxEpoch]]
    <3>1. 0 \in 0 .. NCpus /\ 0 \in 0 .. conf.maxEpoch /\ 0 \in 0 .. 0 /\ epoch = 0
      BY <1>3, CpuFacts, Numbers, Zenon DEF Init
    <3> QED
      BY <3>1, Numbers, Zenon DEF Init
  <2>7. /\ usage \in [Threads -> Nat] /\ avg \in [Cpus -> Nat] /\ est \in [Cpus -> Nat]
        /\ epoch \in 0 .. conf.maxEpoch /\ measured \in [Cpus -> 0 .. conf.maxEpoch]
    BY <1>3, CpuFacts, Numbers, Zenon DEF Init
  <2> QED
    BY <2>1, <2>2, <2>3, <2>4, <2>5, <2>6, <2>7, Zenon DEF TypeOK
<1>5. /\ Range(<<>>) = {} /\ IsInjective(<<>>)
      /\ Range(<<Boot>>) = {Boot} /\ IsInjective(<<Boot>>)
  <2>1. DOMAIN <<Boot>> = {1} /\ <<Boot>>[1] = Boot
    BY ShortLists, Zenon
  <2>2. Range(<<Boot>>) = {Boot} /\ IsInjective(<<Boot>>)
    BY <2>1, Zenon DEF Range, IsInjective
  <2> QED
    BY <2>2, EmptySet, Zenon
<1>6. \A c \in Cpus : /\ queue[c] = <<>> /\ incoming[c] = IF c = 0 THEN <<Boot>> ELSE <<>>
                      /\ pc[c] = IF c = 0 THEN "enter" ELSE "off"
                      /\ cur[c] = NoThread /\ sched[c] = {} /\ est[c] = 0
  BY Zenon DEF Init
<1>7. /\ dead = <<>> /\ freed = {}
      /\ \A t \in Threads : /\ resuming[t] = NoThread /\ usage[t] = 0 /\ "EXITED" \notin flags[t]
                            /\ "RUNNING" \in flags[t] <=> t = Boot
  BY Zenon DEF Init
<1>8. ListsFit
  <2>1. \A c \in Cpus : /\ IsInjective(queue[c]) /\ IsInjective(incoming[c])
                        /\ Range(queue[c]) = {}
                        /\ \A t \in Range(incoming[c]) : c = 0 /\ t = Boot
    BY <1>5, <1>6, Zenon
  <2> QED
    BY <1>1, <1>5, <1>7, <2>1, Zenon DEF ListsFit
<1>9. CpusFit
  BY <1>6, <1>7, Zenon DEF CpusFit, CpuFits, Executes
<1>10. CountersAgree
  <2>1. Counted = {} /\ Balancing = {}
    BY <1>6, Zenon DEF Counted, Balancing
  <2>2. count = 0 /\ ready = 0
    BY Zenon DEF Init
  <2> QED
    BY <2>1, <2>2, FS_EmptySet, Zenon DEF CountersAgree
<1>11. NoLoadYet
  BY <1>5, <1>6, <1>7, CpuFacts, Zenon DEF NoLoadYet, LoadPcs, Placed
<1> QED
  BY <1>4, <1>8, <1>9, <1>10, <1>11, Zenon DEF IInv

(* IInv says all that the runs check.                                      *)
LEMMA InvImplies == IInv => QueuesSound /\ StacksUnused
<1> SUFFICES ASSUME IInv PROVE QueuesSound /\ StacksUnused
  BY Zenon
<1> USE DEF IInv
<1>1. \A t \in Range(dead) \union freed : "RUNNING" \notin flags[t] /\ t \in Threads
  BY ListTypes, Zenon DEF ListsFit, TypeOK
<1>2. \A t \in Queued \union InHand : t \in Threads /\ "RUNNING" \in flags[t]
  <2>1. ASSUME NEW t \in Queued PROVE t \in Threads /\ "RUNNING" \in flags[t]
    <3>1. PICK c \in Cpus : t \in Range(queue[c]) \/ t \in Range(incoming[c])
      BY Places, Zenon
    <3>2. t \in Threads
      BY <3>1, ListTypes, Zenon
    <3> QED
      BY <3>1, <3>2, Zenon DEF ListsFit
  <2>2. \A t \in InHand : \E r \in Threads : t \in Threads /\ resuming[r] = t
    <3>1. \A r \in Threads : resuming[r] \in Threads \/ resuming[r] = NoThread
      BY Zenon DEF TypeOK
    <3> QED
      BY <3>1, Places, Zenon
  <2>3. \A t \in InHand : t \in Threads /\ "RUNNING" \in flags[t]
    BY <2>2, Zenon DEF ListsFit
  <2> QED
    BY <2>1, <2>3, Zenon
<1>3. OneListNode
  <2>1. \A c \in Cpus : /\ IsInjective(queue[c]) /\ IsInjective(incoming[c])
                        /\ Range(queue[c]) \intersect Range(incoming[c]) = {}
    BY ListTypes, Zenon DEF ListsFit
  <2>2. \A c, d \in Cpus : c # d => OnCpu(c) \intersect OnCpu(d) = {}
    BY ListTypes, Zenon DEF ListsFit, OnCpu
  <2>3. IsInjective(dead) /\ Range(dead) \intersect (Queued \union InHand) = {}
    BY <1>1, <1>2, Zenon DEF ListsFit
  <2>4. Queued \intersect InHand = {}
    <3>1. ASSUME NEW t \in Queued, t \in InHand PROVE FALSE
      <4>1. PICK c \in Cpus : t \in Range(queue[c]) \/ t \in Range(incoming[c])
        BY Places, Zenon DEF OnCpu
      <4>2. PICK r \in Threads : resuming[r] = t
        BY <3>1, Places, Zenon
      <4>3. t \in Threads
        BY <4>1, ListTypes, Zenon
      <4> QED
        BY <4>1, <4>2, <4>3, Zenon DEF ListsFit
    <3> QED
      BY <3>1, Zenon
  <2>5. \A r, s \in Threads : resuming[r] = resuming[s] => r = s \/ resuming[r] = NoThread
    <3>1. \A r \in Threads : resuming[r] \in Threads \/ resuming[r] = NoThread
      BY Zenon DEF TypeOK
    <3> QED
      BY <3>1, Zenon DEF ListsFit
  <2> QED
    BY <2>1, <2>2, <2>3, <2>4, <2>5, Zenon DEF OneListNode
<1>4. RunningIsQueued
  <2>1. ASSUME epoch = 0, NEW t \in Threads, "RUNNING" \in flags[t] PROVE t \in Queued \union InHand
    BY <2>1, Places, ThreadsAssumption, Zenon DEF NoLoadYet, Placed
  <2> QED
    BY <1>2, <2>1, Zenon DEF RunningIsQueued, InSchedulingQueues
<1>5. CurrentIsRunnable
  BY Zenon DEF CurrentIsRunnable, CpusFit, CpuFits, MayRun
<1>6. FreedIsUnused
  BY <1>1, <1>2, Zenon DEF FreedIsUnused, CpusFit, CpuFits, ListsFit
<1>7. StartStackUnused
  BY Zenon DEF StartStackUnused, CpusFit, CpuFits
<1> QED
  BY <1>3, <1>4, <1>5, <1>6, <1>7, Zenon DEF QueuesSound, StacksUnused

(* The counters, for every step: one CPU at most starts or stops to be     *)
(* counted.                                                                *)
LEMMA CountersHold == IInv /\ Next => CountersAgree'
<1> SUFFICES ASSUME IInv, Next PROVE CountersAgree'
  BY Zenon
<1> USE DEF threadVars, listVars, cpuVars, schedVars, loadVars
<1>1. /\ TypeOK /\ pc \in [Cpus -> Pcs] /\ sched \in [Cpus -> SUBSET {"STARTING", "RUNNING", "EXITING"}]
      /\ count = Cardinality(Counted) /\ ready = Cardinality(Balancing)
      /\ Counted \in SUBSET Cpus /\ Balancing \in SUBSET Cpus
      /\ \A c \in Cpus : /\ pc[c] = "off" => "RUNNING" \notin sched[c]
                         /\ pc[c] \in {"count", "uncount", "leave"} => "RUNNING" \in sched[c]
  BY Counters, Zenon DEF IInv, TypeOK, CpusFit, CpuFits
(* The steps that go to "arrive" or "incoming".                            *)
<1>Measures. ASSUME NEW c \in Cpus, NEW now, MeasureIfDue(c, now)
    PROVE  UNCHANGED ready /\ \E at \in {"arrive", "incoming"} : pc' = [pc EXCEPT ![c] = at]
  BY <1>Measures, Zenon DEF MeasureIfDue, Measure, Goto
<1>2. count' = Cardinality(Counted')
  <2>1. ASSUME UNCHANGED count, NEW c \in Cpus,
               \A d \in Cpus : d # c => pc'[d] = pc[d] /\ sched'[d] = sched[d],
               c \in Counted' <=> c \in Counted
        PROVE  count' = Cardinality(Counted')
    <3>1. Counted' = Counted
      BY <2>1, Zenon DEF Counted
    <3> QED
      BY <1>1, <2>1, <3>1, Zenon
  <2>2. ASSUME UNCHANGED <<sched, count>>, NEW c \in Cpus, pc[c] \notin {"count", "leave"},
               pc' = pc \/ \E at : at \notin {"count", "leave"} /\ pc' = [pc EXCEPT ![c] = at]
        PROVE  count' = Cardinality(Counted')
    <3>1. pc'[c] \notin {"count", "leave"} /\ \A d \in Cpus : d # c => pc'[d] = pc[d]
      BY <1>1, <2>2, Zenon
    <3>2. c \in Counted' <=> c \in Counted
      BY <2>2, <3>1, Zenon DEF Counted
    <3> QED
      BY <2>1, <2>2, <3>1, <3>2, Zenon
  <2>3. ASSUME NEW c \in Cpus, EnterNormal(c) PROVE count' = Cardinality(Counted')
    BY <1>Measures, <2>2, <2>3, Zenon DEF EnterNormal
  <2>4. ASSUME NEW c \in Cpus, EnterFirst(c) PROVE count' = Cardinality(Counted')
    <3>1. /\ UNCHANGED count /\ "RUNNING" \notin sched[c]
          /\ sched' = [sched EXCEPT ![c] = @ \union {"STARTING"}]
      BY <2>4, Zenon DEF EnterFirst
    <3>2. \A d \in Cpus : d # c => pc'[d] = pc[d]
      BY <1>1, <1>Measures, <2>4, Zenon DEF EnterFirst
    <3>3. \A d \in Cpus : d # c => sched'[d] = sched[d]
      BY <1>1, <3>1, Zenon
    <3>4. "RUNNING" \notin sched'[c]
      BY <1>1, <3>1, Zenon
    <3>5. c \in Counted' <=> c \in Counted
      BY <3>1, <3>4, Zenon DEF Counted
    <3> QED
      BY <2>1, <3>1, <3>2, <3>3, <3>5, Zenon
  <2>5. ASSUME NEW c \in Cpus, EnterStarting(c) PROVE count' = Cardinality(Counted')
    <3>1. /\ UNCHANGED count /\ "RUNNING" \notin sched[c] /\ pc' = [pc EXCEPT ![c] = "count"]
          /\ sched' = [sched EXCEPT ![c] = (@ \ {"STARTING"}) \union {"RUNNING"}]
      BY <2>5, Zenon DEF EnterStarting, Goto
    <3>2. pc'[c] = "count" /\ \A d \in Cpus : d # c => pc'[d] = pc[d] /\ sched'[d] = sched[d]
      BY <1>1, <3>1, Zenon
    <3>3. c \in Counted' <=> c \in Counted
      BY <3>1, <3>2, Zenon DEF Counted
    <3> QED
      BY <2>1, <3>1, <3>2, <3>3, Zenon
  <2>6. ASSUME NEW c \in Cpus, CountCpu(c) PROVE count' = Cardinality(Counted')
    <3>1. count' = count + 1 /\ UNCHANGED sched /\ pc[c] = "count"
      BY <2>6, Zenon DEF CountCpu
    <3>2. \E at \in {"arrive", "incoming"} : pc' = [pc EXCEPT ![c] = at]
      BY <1>Measures, <2>6, Zenon DEF CountCpu
    <3>3. pc'[c] \in {"arrive", "incoming"} /\ \A d \in Cpus : d # c => pc'[d] = pc[d]
      BY <1>1, <3>2, Zenon
    <3>4. c \notin Counted /\ Counted' = Counted \union {c}
      BY <1>1, <3>1, <3>3, Zenon DEF Counted
    <3> QED
      BY <1>1, <3>1, <3>4, Counting, Zenon
  <2>7. ASSUME NEW c \in Cpus, UncountCpu(c) PROVE count' = Cardinality(Counted')
    <3>1. /\ count' = count - 1 /\ UNCHANGED sched /\ pc[c] = "uncount"
          /\ pc' = [pc EXCEPT ![c] = "leave"]
      BY <2>7, Zenon DEF UncountCpu, Goto
    <3>2. pc'[c] = "leave" /\ \A d \in Cpus : d # c => pc'[d] = pc[d]
      BY <1>1, <3>1, Zenon
    <3>3. c \in Counted /\ Counted' = Counted \ {c}
      BY <1>1, <3>1, <3>2, Zenon DEF Counted
    <3> QED
      BY <1>1, <3>1, <3>3, Counting, Zenon
  <2>8. ASSUME NEW c \in Cpus, LeaveQueues(c) PROVE count' = Cardinality(Counted')
    <3>1. /\ UNCHANGED count /\ pc[c] = "leave" /\ pc' = [pc EXCEPT ![c] = "evict"]
          /\ sched' = [sched EXCEPT ![c] = @ \ ExitClears]
      BY <2>8, Zenon DEF LeaveQueues, Goto
    <3>2. /\ "RUNNING" \notin sched'[c]
          /\ \A d \in Cpus : d # c => pc'[d] = pc[d] /\ sched'[d] = sched[d]
      BY <1>1, <3>1, Zenon DEF ExitClears
    <3>3. c \in Counted' <=> c \in Counted
      BY <3>1, <3>2, Zenon DEF Counted
    <3> QED
      BY <2>1, <3>1, <3>2, <3>3, Zenon
  <2>9. ASSUME NEW c \in Cpus, StartCpu(c) PROVE count' = Cardinality(Counted')
    <3>1. /\ UNCHANGED count /\ pc[c] = "off" /\ pc' = [pc EXCEPT ![c] = "enter"]
          /\ sched' = [sched EXCEPT ![c] = {}]
      BY <2>9, Zenon DEF StartCpu, Goto
    <3>2. /\ sched'[c] = {}
          /\ \A d \in Cpus : d # c => pc'[d] = pc[d] /\ sched'[d] = sched[d]
      BY <1>1, <3>1, Zenon
    <3>3. c \in Counted' <=> c \in Counted
      BY <1>1, <3>1, <3>2, Zenon DEF Counted
    <3> QED
      BY <2>1, <3>1, <3>2, <3>3, Zenon
  <2>10. ASSUME NEW c \in Cpus, ExitCpu(c) PROVE count' = Cardinality(Counted')
    <3>1. UNCHANGED <<count, pc>> /\ sched' = [sched EXCEPT ![c] = @ \union {"EXITING"}]
      BY <2>10, Zenon DEF ExitCpu
    <3>2. /\ "RUNNING" \in sched'[c] <=> "RUNNING" \in sched[c]
          /\ \A d \in Cpus : d # c => sched'[d] = sched[d]
      BY <1>1, <3>1, Zenon
    <3>3. c \in Counted' <=> c \in Counted
      BY <3>1, <3>2, Zenon DEF Counted
    <3> QED
      BY <2>1, <3>1, <3>2, <3>3, Zenon
  <2>11. ASSUME NEW c \in Cpus,
                \/ EnterExiting(c) \/ Evict(c) \/ PowerOff(c) \/ Arrive(c) \/ ReadMin(c) \/ PassBarrier(c)
                \/ AddAverage(c) \/ CompareLoad(c) \/ Balance(c) \/ BalanceDone(c) \/ TakeIncoming(c)
                \/ PickDead(c) \/ PickSuspended(c) \/ PickRunnable(c) \/ PickIdle(c) \/ Switch(c)
         PROVE  /\ UNCHANGED <<sched, count>> /\ pc[c] \notin {"count", "leave"}
                /\ pc' = pc \/ \E at : at \notin {"count", "leave"} /\ pc' = [pc EXCEPT ![c] = at]
    <3>1. UNCHANGED <<sched, count>>
      BY <2>11, Zenon DEF EnterExiting, Evict, PowerOff, Arrive, ReadMin, PassBarrier, AddAverage,
         CompareLoad, Balance, BalanceDone, TakeIncoming, PickDead, PickSuspended, PickRunnable,
         PickIdle, Switch
    <3>2. pc[c] \notin {"count", "leave"}
      BY <2>11, Zenon DEF EnterExiting, Evict, PowerOff, Arrive, ReadMin, PassBarrier, AddAverage,
         CompareLoad, Balance, BalanceDone, TakeIncoming, PickDead, PickSuspended, PickRunnable,
         PickIdle, Switch
    <3>3. pc' = pc \/ \E at : at \notin {"count", "leave"} /\ pc' = [pc EXCEPT ![c] = at]
      BY <2>11, Zenon DEF EnterExiting, Evict, PowerOff, Arrive, ReadMin, PassBarrier, AddAverage,
         CompareLoad, Balance, BalanceDone, TakeIncoming, PickDead, PickSuspended, PickRunnable,
         PickIdle, Switch,
         Goto
    <3> QED
      BY <3>1, <3>2, <3>3, Zenon
  <2>12. ASSUME NEW c \in Cpus, Request(c) PROVE count' = Cardinality(Counted')
    BY <2>2, <2>3, <2>4, <2>5, <2>6, <2>7, <2>8, <2>11, <2>12, Zenon DEF Request
  <2>13. ASSUME NEW c \in Cpus, PlainCall(c) PROVE count' = Cardinality(Counted')
    <3>1. /\ UNCHANGED <<sched, count>> /\ pc[c] = "run" /\ pc'[c] \in {"run", "enter"}
          /\ \A d \in Cpus : d # c => pc'[d] = pc[d]
      BY <1>1, <2>13, PlainFrame, Zenon
    <3>2. c \in Counted' <=> c \in Counted
      BY <3>1, Zenon DEF Counted
    <3> QED
      BY <2>1, <3>1, <3>2, Zenon
  <2>14. ASSUME NEW c \in Cpus,
                \/ ResumeHandoff(c) \/ Housekeeping(c) \/ Interval
                \/ \E t \in Threads : Wake(c, t) \/ \E k \in BOOLEAN : Resume(c, t, k)
         PROVE  UNCHANGED <<sched, count, pc>>
    BY <2>14, Zenon DEF ResumeHandoff, Housekeeping, Wake, Resume, Interval
  <2>15. UNCHANGED <<sched, count, pc>> => count' = Cardinality(Counted')
    BY <1>1, Zenon DEF Counted
  <2> QED
    BY <1>1, CpuFacts, <2>9, <2>10, <2>12, <2>13, <2>14, <2>15, NextCases, Zenon
<1>3. ready' = Cardinality(Balancing')
  <2>1. ASSUME UNCHANGED ready,
               \A d \in Cpus : d \in Balancing' <=> d \in Balancing
        PROVE  ready' = Cardinality(Balancing')
    <3>1. Balancing' = Balancing
      BY <2>1, Zenon DEF Balancing
    <3> QED
      BY <1>1, <2>1, <3>1, Zenon
  <2>2. ASSUME NEW c \in Cpus, UNCHANGED ready, c \notin Balancing,
               \E at \in Pcs \ {"min", "barrier", "sum", "balance"} : pc' = [pc EXCEPT ![c] = at]
        PROVE  ready' = Cardinality(Balancing')
    BY <1>1, <2>1, <2>2, Zenon DEF Balancing
  <2>3. ASSUME NEW c \in Cpus, UNCHANGED ready, c \in Balancing,
               \E at \in {"barrier", "sum", "balance"} : pc' = [pc EXCEPT ![c] = at]
        PROVE  ready' = Cardinality(Balancing')
    BY <1>1, <2>1, <2>3, Zenon DEF Balancing
  <2>4. ASSUME NEW c \in Cpus, pc[c] \in {"sum", "balance"}, LeaveBarrier, Goto(c, "incoming")
        PROVE  ready' = Cardinality(Balancing')
    <3>1. ready' = ready - 1 /\ c \in Balancing /\ Balancing' = Balancing \ {c}
      BY <1>1, <2>4, Zenon DEF LeaveBarrier, Goto, Balancing
    <3> QED
      BY <1>1, <3>1, Counting, Zenon
  <2>5. ASSUME NEW c \in Cpus, EnterNormal(c) \/ EnterFirst(c) \/ CountCpu(c)
        PROVE  ready' = Cardinality(Balancing')
    <3>1. UNCHANGED ready /\ c \notin Balancing
      BY <1>Measures, <2>5, Zenon DEF EnterNormal, EnterFirst, CountCpu, Balancing
    <3>2. \E at \in {"arrive", "incoming"} : pc' = [pc EXCEPT ![c] = at]
      BY <1>Measures, <2>5, Zenon DEF EnterNormal, EnterFirst, CountCpu
    <3>3. {"arrive", "incoming"} \subseteq Pcs \ {"min", "barrier", "sum", "balance"}
      BY Zenon DEF Pcs
    <3> QED
      BY <2>2, <3>1, <3>2, <3>3, Zenon
  <2>6. ASSUME NEW c \in Cpus, Arrive(c) PROVE ready' = Cardinality(Balancing')
    <3>1. ready' = ready + 1 /\ pc[c] = "arrive" /\ pc' = [pc EXCEPT ![c] = "min"]
      BY <2>6, Zenon DEF Arrive, Goto
    <3>2. c \notin Balancing /\ Balancing' = Balancing \union {c}
      BY <1>1, <3>1, Zenon DEF Balancing
    <3> QED
      BY <1>1, <3>1, <3>2, Counting, Zenon
  <2>7. ASSUME NEW c \in Cpus, ReadMin(c) \/ PassBarrier(c) PROVE ready' = Cardinality(Balancing')
    BY <2>3, <2>7, Zenon DEF ReadMin, PassBarrier, Goto, Balancing
  <2>8. ASSUME NEW c \in Cpus, CompareLoad(c) PROVE ready' = Cardinality(Balancing')
    <3>1. CASE avg[c] <= GlobalAverage(c)
      BY <2>4, <2>8, <3>1, Zenon DEF CompareLoad
    <3>2. CASE ~(avg[c] <= GlobalAverage(c))
      <4>1. UNCHANGED ready /\ c \in Balancing /\ pc' = [pc EXCEPT ![c] = "balance"]
        BY <2>8, <3>2, Zenon DEF CompareLoad, Goto, Balancing
      <4> QED
        BY <2>3, <4>1, Zenon
    <3> QED
      BY <3>1, <3>2, Zenon
  <2>9. ASSUME NEW c \in Cpus, BalanceDone(c) PROVE ready' = Cardinality(Balancing')
    BY <2>4, <2>9, Zenon DEF BalanceDone
  <2>10. ASSUME NEW c \in Cpus,
               \/ EnterStarting(c) \/ EnterExiting(c) \/ UncountCpu(c) \/ LeaveQueues(c) \/ PowerOff(c)
               \/ TakeIncoming(c) \/ PickRunnable(c) \/ PickIdle(c) \/ Switch(c) \/ StartCpu(c)
        PROVE  ready' = Cardinality(Balancing')
    <3>1. UNCHANGED ready /\ c \notin Balancing
      BY <2>10, Zenon DEF EnterStarting, EnterExiting, UncountCpu, LeaveQueues, PowerOff, TakeIncoming,
         PickRunnable, PickIdle, Switch, StartCpu, Balancing
    <3>2. \E at \in {"enter", "count", "uncount", "leave", "evict", "off", "pick", "switch", "run"} :
            pc' = [pc EXCEPT ![c] = at]
      BY <2>10, Zenon DEF EnterStarting, EnterExiting, UncountCpu, LeaveQueues, PowerOff, TakeIncoming,
         PickRunnable, PickIdle, Switch, StartCpu, Goto
    <3>3. {"enter", "count", "uncount", "leave", "evict", "off", "pick", "switch", "run"}
            \subseteq Pcs \ {"min", "barrier", "sum", "balance"}
      BY Zenon DEF Pcs
    <3> QED
      BY <2>2, <3>1, <3>2, <3>3, Zenon
  <2>11. ASSUME NEW c \in Cpus, PlainCall(c) PROVE ready' = Cardinality(Balancing')
    <3>1. /\ UNCHANGED ready /\ pc[c] = "run" /\ pc'[c] \in {"run", "enter"}
          /\ \A d \in Cpus : d # c => pc'[d] = pc[d]
      BY <1>1, <2>11, PlainFrame, Zenon
    <3> QED
      BY <2>1, <3>1, Zenon DEF Balancing
  <2>12. ASSUME NEW c \in Cpus,
               \/ Evict(c) \/ AddAverage(c) \/ Balance(c) \/ PickDead(c) \/ PickSuspended(c)
               \/ ResumeHandoff(c) \/ Housekeeping(c) \/ ExitCpu(c) \/ Interval
               \/ \E t \in Threads : Wake(c, t) \/ \E k \in BOOLEAN : Resume(c, t, k)
        PROVE  UNCHANGED <<pc, ready>>
    BY <2>12, Zenon DEF Evict, AddAverage, Balance, PickDead, PickSuspended, ResumeHandoff, Housekeeping,
       ExitCpu, Interval, Wake, Resume
  <2>13. UNCHANGED <<pc, ready>> => ready' = Cardinality(Balancing')
    BY <2>1, Zenon DEF Balancing
  <2> QED
    BY <1>1, CpuFacts, <2>5, <2>6, <2>7, <2>8, <2>9, <2>10, <2>11, <2>12, <2>13, NextCases, Zenon DEF Request
<1> QED
  BY <1>2, <1>3, Counters, Zenon

(* Every step keeps IInv.                                                  *)
LEMMA NextHolds == IInv /\ [Next]_vars => IInv'
<1>1. IInv /\ Next => IInv'
  BY TypesHold, ListsHold, CpusHold, CountersHold, LoadHolds, Zenon DEF IInv
<1>2. ASSUME IInv, UNCHANGED vars PROVE IInv'
  <2>1. UNCHANGED <<conf, threadVars, listVars, cpuVars, schedVars, loadVars>>
    BY <1>2, Zenon DEF vars
  <2> USE DEF threadVars, listVars, cpuVars, schedVars, loadVars
  <2>2. TypeOK'
    BY <1>2, <2>1, Zenon DEF IInv, TypeOK
  <2>3. ListsFit'
    BY <1>2, <2>1, Zenon DEF IInv, ListsFit
  <2>4. CpusFit'
    BY <1>2, <2>1, Zenon DEF IInv, CpusFit, CpuFits, MayRun, Executes
  <2>5. CountersAgree'
    BY <1>2, <2>1, Zenon DEF IInv, CountersAgree, Counted, Balancing
  <2>6. NoLoadYet'
    BY <1>2, <2>1, Zenon DEF IInv, NoLoadYet, Placed
  <2> QED
    BY <2>2, <2>3, <2>4, <2>5, <2>6, Zenon DEF IInv
<1> QED
  BY <1>1, <1>2, Zenon

(* A step leaves THREAD_EXITED set, and with it no step sets RUNNING.      *)
LEMMA ExitedStays ==
  ASSUME IInv, IInv', [Next]_vars
  PROVE  \A t \in Threads : "EXITED" \in flags[t] => "EXITED" \in flags'[t] /\ "RUNNING" \notin flags'[t]
<1> USE DEF threadVars
<1>1. TypeOK /\ ListsFit
  BY Zenon DEF IInv
<1>2. \A t \in Threads : "EXITED" \in flags'[t] => "RUNNING" \notin flags'[t]
  BY Zenon DEF IInv, ListsFit
<1>3. ASSUME Next, NEW t \in Threads, "EXITED" \in flags[t] PROVE "EXITED" \in flags'[t]
  <2>1. ASSUME NEW c \in Cpus, PlainCall(c) PROVE "EXITED" \in flags'[t]
    BY <1>1, <1>3, <2>1, PlainFrame, Zenon
  <2>2. ASSUME NEW c \in Cpus, PickDead(c) \/ PickSuspended(c) PROVE "EXITED" \in flags'[t]
    BY <1>1, <1>3, <2>2, TakenFacts, Zenon
  <2>3. ASSUME NEW c \in Cpus, PickRunnable(c) PROVE "EXITED" \in flags'[t]
    BY <1>1, <1>3, <2>3, RunnableFacts, Zenon
  <2>4. ASSUME NEW x \in Threads, NEW k \in BOOLEAN, MarkRunning(x, k) PROVE "EXITED" \in flags'[t]
    BY <1>1, <1>3, <2>4, MarkFacts, Zenon
  <2>5. ASSUME NEW c \in Cpus, NEW x \in Threads, Wake(c, x) \/ \E k \in BOOLEAN : Resume(c, x, k)
        PROVE  "EXITED" \in flags'[t]
    BY <1>3, <2>4, <2>5, Zenon DEF Wake, Resume
  <2>6. ASSUME NEW c \in Cpus,
               \/ Request(c) /\ ~PickDead(c) /\ ~PickSuspended(c) /\ ~PickRunnable(c)
               \/ ResumeHandoff(c) \/ Housekeeping(c) \/ StartCpu(c) \/ ExitCpu(c)
        PROVE  flags' = flags
    BY <2>6, Zenon DEF Request, EnterNormal, EnterFirst, EnterStarting, CountCpu, EnterExiting, UncountCpu,
       LeaveQueues, Evict, PowerOff, Arrive, ReadMin, PassBarrier, AddAverage, CompareLoad, Balance,
       BalanceDone, TakeIncoming, PickIdle, Switch, ResumeHandoff, Housekeeping, StartCpu, ExitCpu
  <2>7. Interval => flags' = flags
    BY Zenon DEF Interval
  <2> QED
    BY <1>1, <1>3, <2>1, <2>2, <2>3, <2>5, <2>6, <2>7, NextCases, Zenon
<1>4. UNCHANGED vars => flags' = flags
  BY Zenon DEF vars
<1> QED
  BY <1>2, <1>3, <1>4, Zenon

(***************************************************************************)
(* The lists of the scheduler agree with the flags of the threads, and the *)
(* counters of the CPUs with their flags, whatever the number of CPUs and  *)
(* of threads.                                                             *)
(***************************************************************************)
THEOREM SchedulerQueuesSound == Spec => []QueuesSound
BY InitHolds, NextHolds, InvImplies, PTL DEF Spec

(* No CPU executes on a stack that was freed.                              *)
THEOREM SchedulerStacksUnused == Spec => []StacksUnused
BY InitHolds, NextHolds, InvImplies, PTL DEF Spec

(* A thread that exited stays so, and never runs again.                    *)
THEOREM SchedulerExitedIsFinal == Spec => ExitedIsFinal
<1>1. IInv /\ IInv' /\ [Next]_vars =>
        [\A t \in Threads : "EXITED" \in flags[t] =>
           "EXITED" \in flags'[t] /\ "RUNNING" \notin flags'[t]]_vars
  BY ExitedStays, Zenon
<1> QED
  BY <1>1, InitHolds, NextHolds, PTL DEF Spec, ExitedIsFinal
=============================================================================
