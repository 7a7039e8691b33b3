------------------------------- MODULE Arrays -------------------------------
(***************************************************************************)
(* The arrays and linked lists of badgelib, which the kernel keeps its     *)
(* queues in: array_insert, array_remove and the ends of a dlist_t.        *)
(***************************************************************************)
EXTENDS Integers, Sequences

(* array_lencap_insert: the elements from i on move up by one place.       *)
InsertAt(s, i, e) ==
  [j \in 1 .. Len(s) + 1 |-> IF j < i THEN s[j] ELSE IF j = i THEN e ELSE s[j - 1]]

(* array_lencap_remove, dlist_remove: the elements behind i move down.     *)
RemoveAt(s, i) == [j \in 1 .. Len(s) - 1 |-> IF j < i THEN s[j] ELSE s[j + 1]]

(* The other end of a list, and what is left when it is popped.            *)
Last(s) == s[Len(s)]

Front(s) == RemoveAt(s, Len(s))

(* A list built by prepending the elements of s one by one.                *)
Reverse(s) == [i \in 1 .. Len(s) |-> s[(Len(s) - i) + 1]]
=============================================================================
