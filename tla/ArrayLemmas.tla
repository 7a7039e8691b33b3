---------------------------- MODULE ArrayLemmas ----------------------------
(***************************************************************************)
(* What the operations of module Arrays do, for the proofs about the       *)
(* arrays and lists of the kernel.                                         *)
(***************************************************************************)
EXTENDS Arrays, Functions, TLAPS

(* A sequence is a function on its places.                                 *)
LEMMA SeqFacts ==
  ASSUME NEW S, NEW s \in Seq(S)
  PROVE  /\ Len(s) \in Nat /\ DOMAIN s = 1 .. Len(s)
         /\ \A i \in DOMAIN s : s[i] \in S
OBVIOUS

(* Only the empty sequence has length zero.                                *)
LEMMA EmptyFacts ==
  ASSUME NEW S
  PROVE  << >> \in Seq(S) /\ \A s \in Seq(S) : s = << >> <=> Len(s) = 0
OBVIOUS

(* dlist_append.                                                           *)
LEMMA AppendFacts ==
  ASSUME NEW S, NEW s \in Seq(S), NEW e \in S
  PROVE  /\ Append(s, e) \in Seq(S) /\ Len(Append(s, e)) = Len(s) + 1
         /\ \A i \in 1 .. Len(s) : Append(s, e)[i] = s[i]
         /\ Append(s, e)[Len(s) + 1] = e /\ Append(s, e) = s \o <<e>>
OBVIOUS

(* dlist_concat.                                                           *)
LEMMA ConcatFacts ==
  ASSUME NEW S, NEW s \in Seq(S), NEW t \in Seq(S)
  PROVE  /\ s \o t \in Seq(S) /\ Len(s \o t) = Len(s) + Len(t)
         /\ \A i \in 1 .. Len(s) + Len(t) :
              (s \o t)[i] = IF i <= Len(s) THEN s[i] ELSE t[i - Len(s)]
OBVIOUS

(* dlist_pop_front.                                                        *)
LEMMA TailFacts ==
  ASSUME NEW S, NEW s \in Seq(S), s # << >>
  PROVE  /\ Len(s) \in Nat \ {0} /\ Head(s) = s[1] /\ Head(s) \in S
         /\ Tail(s) \in Seq(S) /\ Len(Tail(s)) = Len(s) - 1
         /\ \A i \in 1 .. Len(Tail(s)) : Tail(s)[i] = s[i + 1]
OBVIOUS

(* An insertion moves the elements from i on by one place.                 *)
LEMMA InsertAtFacts ==
  ASSUME NEW S, NEW s \in Seq(S), NEW e \in S, NEW i \in 1 .. Len(s) + 1
  PROVE  /\ InsertAt(s, i, e) \in Seq(S)
         /\ Len(InsertAt(s, i, e)) = Len(s) + 1
         /\ \A j \in 1 .. Len(s) + 1 :
              InsertAt(s, i, e)[j] = IF j < i THEN s[j]
                                     ELSE IF j = i THEN e ELSE s[j - 1]
BY DEF InsertAt

(* A removal moves the elements behind i by one place.                     *)
LEMMA RemoveAtFacts ==
  ASSUME NEW S, NEW s \in Seq(S), NEW i \in 1 .. Len(s)
  PROVE  /\ RemoveAt(s, i) \in Seq(S)
         /\ Len(RemoveAt(s, i)) = Len(s) - 1
         /\ \A j \in 1 .. Len(s) - 1 :
              RemoveAt(s, i)[j] = IF j < i THEN s[j] ELSE s[j + 1]
BY DEF RemoveAt

(* Dropping the last element leaves the others in their places.            *)
LEMMA FrontFacts ==
  ASSUME NEW S, NEW s \in Seq(S), s # <<>>
  PROVE  /\ Len(s) \in Nat \ {0} /\ Last(s) = s[Len(s)]
         /\ Front(s) \in Seq(S) /\ Len(Front(s)) = Len(s) - 1
         /\ \A j \in 1 .. Len(s) - 1 : Front(s)[j] = s[j]
<1>1. Len(s) \in Nat \ {0} /\ Len(s) \in 1 .. Len(s)
  OBVIOUS
<1> QED
  BY <1>1, RemoveAtFacts DEF Front, Last

(***************************************************************************)
(* Lists as sets: what the operations on a list without duplicates do to   *)
(* the set of its elements.                                                *)
(***************************************************************************)
(* The empty list.                                                         *)
LEMMA EmptySet == Range(<<>>) = {} /\ IsInjective(<<>>)
BY DEF Range, IsInjective

(* The elements of a list are those in its places.                         *)
LEMMA RangeFacts ==
  ASSUME NEW S, NEW s \in Seq(S)
  PROVE  /\ Range(s) \subseteq S
         /\ \A x : x \in Range(s) <=> \E i \in 1 .. Len(s) : s[i] = x
         /\ IsInjective(s) <=> \A i, j \in 1 .. Len(s) : s[i] = s[j] => i = j
<1>1. DOMAIN s = 1 .. Len(s) /\ \A i \in DOMAIN s : s[i] \in S
  BY SeqFacts
<1>2. \A x : x \in Range(s) <=> \E i \in DOMAIN s : s[i] = x
  BY DEF Range
<1>3. IsInjective(s) <=> \A i, j \in DOMAIN s : s[i] = s[j] => i = j
  BY DEF IsInjective
<1> QED
  BY <1>1, <1>2, <1>3

(* dlist_pop_front.                                                        *)
LEMMA TailSet ==
  ASSUME NEW S, NEW s \in Seq(S), s # <<>>, IsInjective(s)
  PROVE  /\ Head(s) \in S /\ Head(s) \in Range(s) /\ Tail(s) \in Seq(S)
         /\ Range(Tail(s)) = Range(s) \ {Head(s)} /\ IsInjective(Tail(s))
<1> DEFINE t == Tail(s)
<1>1. /\ Len(s) \in Nat \ {0} /\ Head(s) = s[1] /\ Head(s) \in S
      /\ t \in Seq(S) /\ Len(t) = Len(s) - 1 /\ \A i \in 1 .. Len(t) : t[i] = s[i + 1]
  BY TailFacts
<1>2. /\ \A x : x \in Range(s) <=> \E i \in 1 .. Len(s) : s[i] = x
      /\ \A i, j \in 1 .. Len(s) : s[i] = s[j] => i = j
  BY RangeFacts
<1> HIDE DEF t
<1>3. /\ \A x : x \in Range(t) <=> \E i \in 1 .. Len(t) : t[i] = x
      /\ IsInjective(t) <=> \A i, j \in 1 .. Len(t) : t[i] = t[j] => i = j
  BY <1>1, RangeFacts
<1>4. s[1] \in Range(s)
  BY <1>1, <1>2
<1>5. ASSUME NEW x PROVE x \in Range(t) <=> x \in Range(s) /\ x # s[1]
  <2>1. ASSUME NEW i \in 1 .. Len(t), t[i] = x PROVE x \in Range(s) /\ x # s[1]
    <3>1. s[i + 1] = x /\ i + 1 \in 1 .. Len(s) /\ i + 1 # 1 /\ 1 \in 1 .. Len(s)
      BY <1>1, <2>1
    <3> QED
      BY <1>2, <3>1
  <2>2. ASSUME NEW i \in 1 .. Len(s), s[i] = x, x # s[1] PROVE x \in Range(t)
    <3>1. i - 1 \in 1 .. Len(t) /\ t[i - 1] = s[(i - 1) + 1] /\ (i - 1) + 1 = i
      BY <1>1, <2>2
    <3> QED
      BY <1>3, <2>2, <3>1
  <2> QED
    BY <1>2, <1>3, <2>1, <2>2
<1>6. Range(t) = Range(s) \ {s[1]}
  BY <1>5
<1>7. IsInjective(t)
  <2>1. ASSUME NEW i \in 1 .. Len(t), NEW j \in 1 .. Len(t), t[i] = t[j] PROVE i = j
    <3>1. s[i + 1] = s[j + 1] /\ i + 1 \in 1 .. Len(s) /\ j + 1 \in 1 .. Len(s)
      BY <1>1, <2>1
    <3>2. i + 1 = j + 1
      BY <1>2, <3>1
    <3> QED
      BY <3>2
  <2> QED
    BY <1>3, <2>1
<1> QED
  BY <1>1, <1>4, <1>6, <1>7 DEF t

(* dlist_concat.                                                           *)
LEMMA ConcatSet ==
  ASSUME NEW S, NEW s \in Seq(S), NEW t \in Seq(S), IsInjective(s), IsInjective(t),
         Range(s) \intersect Range(t) = {}
  PROVE  s \o t \in Seq(S) /\ Range(s \o t) = Range(s) \union Range(t) /\ IsInjective(s \o t)
<1> DEFINE u == s \o t
           m == Len(s)
           n == Len(t)
<1>1. /\ m \in Nat /\ n \in Nat /\ u \in Seq(S) /\ Len(u) = m + n
      /\ \A i \in 1 .. m + n : u[i] = IF i <= m THEN s[i] ELSE t[i - m]
  BY ConcatFacts, SeqFacts
<1>2. /\ \A x : x \in Range(s) <=> \E i \in 1 .. m : s[i] = x
      /\ \A i, j \in 1 .. m : s[i] = s[j] => i = j
  BY RangeFacts
<1>3. /\ \A x : x \in Range(t) <=> \E i \in 1 .. n : t[i] = x
      /\ \A i, j \in 1 .. n : t[i] = t[j] => i = j
  BY RangeFacts
<1> HIDE DEF u, m, n
<1>4. /\ \A x : x \in Range(u) <=> \E i \in 1 .. m + n : u[i] = x
      /\ IsInjective(u) <=> \A i, j \in 1 .. m + n : u[i] = u[j] => i = j
  <2>1. /\ \A x : x \in Range(u) <=> \E i \in 1 .. Len(u) : u[i] = x
        /\ IsInjective(u) <=> \A i, j \in 1 .. Len(u) : u[i] = u[j] => i = j
    BY <1>1, RangeFacts
  <2> QED
    BY <1>1, <2>1
<1>5. ASSUME NEW x PROVE x \in Range(u) <=> x \in Range(s) \/ x \in Range(t)
  <2>1. ASSUME NEW i \in 1 .. m + n, u[i] = x PROVE x \in Range(s) \/ x \in Range(t)
    <3>1. CASE i <= m
      BY <1>1, <1>2, <2>1, <3>1
    <3>2. CASE m < i
      <4>1. u[i] = t[i - m] /\ i - m \in 1 .. n
        BY <1>1, <3>2
      <4> QED
        BY <1>3, <2>1, <4>1
    <3> QED
      BY <1>1, <3>1, <3>2
  <2>2. ASSUME NEW i \in 1 .. m, s[i] = x PROVE x \in Range(u)
    BY <1>1, <1>4, <2>2
  <2>3. ASSUME NEW i \in 1 .. n, t[i] = x PROVE x \in Range(u)
    <3>1. m + i \in 1 .. m + n /\ ~(m + i <= m) /\ (m + i) - m = i
      BY <1>1
    <3>2. u[m + i] = t[(m + i) - m]
      BY <1>1, <3>1
    <3> QED
      BY <1>4, <2>3, <3>1, <3>2
  <2> QED
    BY <1>2, <1>3, <1>4, <2>1, <2>2, <2>3
<1>6. ASSUME NEW i \in 1 .. m + n, NEW j \in 1 .. m + n, u[i] = u[j] PROVE i = j
  <2>1. \A k \in 1 .. m + n : /\ k <= m => k \in 1 .. m /\ u[k] = s[k] /\ u[k] \in Range(s)
                              /\ m < k => k - m \in 1 .. n /\ u[k] = t[k - m]
    BY <1>1, <1>2
  <2>2. \A k \in 1 .. m + n : m < k => u[k] \in Range(t)
    BY <1>3, <2>1
  <2>3. CASE i <= m /\ j <= m
    BY <1>2, <1>6, <2>1, <2>3
  <2>4. CASE m < i /\ m < j
    <3>1. i - m = j - m
      BY <1>3, <1>6, <2>1, <2>4
    <3> QED
      BY <1>1, <3>1
  <2>5. CASE i <= m /\ m < j
    BY <1>6, <2>1, <2>2, <2>5
  <2>6. CASE m < i /\ j <= m
    BY <1>6, <2>1, <2>2, <2>6
  <2> QED
    BY <1>1, <2>3, <2>4, <2>5, <2>6
<1>7. IsInjective(u)
  BY <1>4, <1>6
<1>8. Range(u) = Range(s) \union Range(t)
  BY <1>5
<1> QED
  BY <1>1, <1>7, <1>8 DEF u

(* dlist_append.                                                           *)
LEMMA AppendSet ==
  ASSUME NEW S, NEW s \in Seq(S), NEW e \in S, IsInjective(s), e \notin Range(s)
  PROVE  /\ Append(s, e) \in Seq(S) /\ Range(Append(s, e)) = Range(s) \union {e}
         /\ IsInjective(Append(s, e)) /\ Append(s, e) # <<>> /\ Last(Append(s, e)) = e
<1> DEFINE t == <<e>>
           u == Append(s, e)
<1>1. u = s \o t /\ u \in Seq(S) /\ Len(u) = Len(s) + 1 /\ u[Len(s) + 1] = e /\ Len(s) \in Nat
  BY AppendFacts, SeqFacts
<1>2. t \in Seq(S) /\ Len(t) = 1 /\ t[1] = e
  OBVIOUS
<1> HIDE DEF t
<1>3. Range(t) = {e} /\ IsInjective(t)
  <2>1. /\ \A x : x \in Range(t) <=> \E i \in 1 .. Len(t) : t[i] = x
        /\ IsInjective(t) <=> \A i, j \in 1 .. Len(t) : t[i] = t[j] => i = j
    BY <1>2, RangeFacts
  <2> QED
    BY <1>2, <2>1
<1>4. Range(s \o t) = Range(s) \union Range(t) /\ IsInjective(s \o t)
  BY <1>2, <1>3, ConcatSet
<1> HIDE DEF u
<1>5. u # <<>>
  BY <1>1
<1>6. Last(u) = e
  BY <1>1 DEF Last
<1>7. Range(u) = Range(s) \union {e} /\ IsInjective(u)
  BY <1>1, <1>3, <1>4
<1> QED
  BY <1>1, <1>5, <1>6, <1>7 DEF u

(* Prepending the elements of a list one by one reverses it.               *)
LEMMA ReverseSet ==
  ASSUME NEW S, NEW s \in Seq(S), IsInjective(s)
  PROVE  Reverse(s) \in Seq(S) /\ Range(Reverse(s)) = Range(s) /\ IsInjective(Reverse(s))
<1> DEFINE n == Len(s)
           t == Reverse(s)
<1>1. /\ n \in Nat /\ \A x : x \in Range(s) <=> \E i \in 1 .. n : s[i] = x
      /\ \A i, j \in 1 .. n : s[i] = s[j] => i = j
      /\ \A i \in 1 .. n : s[i] \in S
  BY RangeFacts, SeqFacts
<1>2. t = [i \in 1 .. n |-> s[(n - i) + 1]]
  BY DEF Reverse
<1> HIDE DEF n, t
<1>3. /\ \A i \in 1 .. n : (n - i) + 1 \in 1 .. n /\ t[i] = s[(n - i) + 1]
      /\ t \in [1 .. n -> S]
  BY <1>1, <1>2
<1>4. t \in Seq(S) /\ Len(t) = n
  BY <1>1, <1>3
<1>5. /\ \A x : x \in Range(t) <=> \E i \in 1 .. Len(t) : t[i] = x
      /\ IsInjective(t) <=> \A i, j \in 1 .. Len(t) : t[i] = t[j] => i = j
  BY <1>4, RangeFacts
<1>6. ASSUME NEW x PROVE x \in Range(t) <=> x \in Range(s)
  <2>1. ASSUME NEW i \in 1 .. n, s[i] = x PROVE x \in Range(t)
    <3>1. (n - i) + 1 \in 1 .. n /\ (n - ((n - i) + 1)) + 1 = i
      BY <1>1
    <3>2. t[(n - i) + 1] = s[(n - ((n - i) + 1)) + 1]
      BY <1>3, <3>1
    <3> QED
      BY <1>4, <1>5, <2>1, <3>1, <3>2
  <2>2. ASSUME NEW i \in 1 .. n, t[i] = x PROVE x \in Range(s)
    BY <1>1, <1>3, <2>2
  <2> QED
    BY <1>1, <1>4, <1>5, <2>1, <2>2
<1>7. ASSUME NEW i \in 1 .. n, NEW j \in 1 .. n, t[i] = t[j] PROVE i = j
  <2>1. (n - i) + 1 = (n - j) + 1
    BY <1>1, <1>3, <1>7
  <2> QED
    BY <1>1, <2>1
<1>8. IsInjective(t)
  BY <1>4, <1>5, <1>7
<1>9. Range(t) = Range(s)
  BY <1>6
<1> QED
  BY <1>4, <1>8, <1>9 DEF t
=============================================================================
