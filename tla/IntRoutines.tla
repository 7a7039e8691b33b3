----------------------------- MODULE IntRoutines -----------------------------
(***************************************************************************)
(* The routines that compiled code calls for integer arithmetic.  A        *)
(* W-bit integer is its unsigned value, in 0 .. 2^W - 1; the code has      *)
(* widths of 32, 64 and 128 bits, and "1ull" has ULL bits.                 *)
(***************************************************************************)
EXTENDS Integers, Sequences, SequencesExt, FiniteSetsExt

CONSTANTS W, ULL

Mod(x) == x % 2^W
Signed(x) == IF x >= 2^(W - 1) THEN x - 2^W ELSE x
Magnitude(x) == IF Signed(x) < 0 THEN Mod(-x) ELSE x

(***************************************************************************)
(* divmod: shift the divisor up to its top bit, then subtract it where it  *)
(* fits, once for each place.  The bit of place k is "1ull << k", in which *)
(* the processor uses k modulo ULL.                                        *)
(***************************************************************************)
Places(divisor) == Min({s \in 0 .. W - 1 : divisor * 2^s >= 2^(W - 1)})

WithBit(x, k) == IF (x \div 2^k) % 2 = 1 THEN x ELSE x + 2^k

Subtract(s, k) ==
  IF s.remainder >= s.divisor
  THEN [remainder |-> s.remainder - s.divisor, result |-> WithBit(s.result, k % ULL),
        divisor |-> s.divisor \div 2]
  ELSE [s EXCEPT !.divisor = @ \div 2]

(* mutant: the loop ends before place 0                                    *)
StopsEarly(a, b) ==
  LET n == Places(b)
  IN FoldLeft(Subtract, [remainder |-> a, result |-> 0, divisor |-> b * 2^n],
              [i \in 1 .. n |-> n + 1 - i])

divmod(a, b) ==
  LET n == Places(b)
  IN FoldLeft(Subtract, [remainder |-> a, result |-> 0, divisor |-> b * 2^n],
              [i \in 1 .. n + 1 |-> n + 1 - i])

(* __udivmod4, __udiv3 and __umod3.                                        *)
udiv(a, b) == IF b = 0 THEN 2^W - 1 ELSE divmod(a, b).result
umod(a, b) == IF b = 0 THEN a ELSE divmod(a, b).remainder

(* __div3, __mod3 and __divmod4; the last takes no magnitudes.             *)
div(a, b) ==
  LET q == divmod(Magnitude(a), Magnitude(b)).result
  IN CASE b = 0 -> 2^W - 1
       [] (Signed(a) < 0) # (Signed(b) < 0) -> Mod(-q)
       [] OTHER -> q

mod(a, b) ==
  LET r == divmod(Magnitude(a), Magnitude(b)).remainder
  IN CASE b = 0 -> a
       [] Signed(a) < 0 -> Mod(-r)
       [] OTHER -> r

divmod4(a, b) ==
  LET d == divmod(a, b)
      unlike == (Signed(a) < 0) # (Signed(b) < 0)
  IN IF b = 0 THEN <<2^W - 1, a>>
     ELSE <<IF unlike THEN Mod(-d.result) ELSE d.result,
            IF Signed(a) < Signed(b) THEN Mod(-d.remainder) ELSE d.remainder>>

(***************************************************************************)
(* __mulsi3 adds a for each bit of b.  The other routines are operators of *)
(* C on signed operands, the second of them taken modulo W: also in the    *)
(* logical shift and in __muldi3.                                          *)
(***************************************************************************)
AddBit(s, i) ==
  [res |-> IF s.b % 2 = 1 THEN Mod(s.res + s.a) ELSE s.res,
   a |-> Mod(2 * s.a), b |-> Mod(Signed(s.b) \div 2)]

mulsi3(a, b) == FoldLeft(AddBit, [res |-> 0, a |-> a, b |-> b], [i \in 1 .. W |-> i]).res

ashl(a, b) == Mod(a * 2^(b % W))
ashr(a, b) == Mod(Signed(a) \div 2^(b % W))
lshr(a, b) == Mod(Signed(a) \div 2^(b % W))
muldi3(a, b) == Mod(a * (b % W))

(***************************************************************************)
(* __clz and __ctz for 32 and 64 bits.  Here a number is the set of its    *)
(* bits; the number that is multiplied has one bit, or none, so that the   *)
(* product is the factor shifted, and its top bits are the index.          *)
(***************************************************************************)
Factor(w) ==
  IF w = 32 THEN <<0, 7, 6, 11, 14, 6, 2, 9>>
  ELSE <<0, 2, 1, 8, 10, 3, 9, 2, 12, 13, 3, 13, 5, 13, 11, 15>>

Hash(w, a) ==
  LET top == IF w = 32 THEN 5 ELSE 6
      bit(j) == IF j >= w THEN 0 ELSE (Factor(w)[j \div 4 + 1] \div 2^(3 - (j % 4))) % 2
  IN IF a = {} THEN 0
     ELSE MapThenSumSet(LAMBDA t : bit(Min(a) + t) * 2^(top - 1 - t), 0 .. top - 1)

ClzTable(w) ==
  IF w = 32
  THEN <<0, 31, 9, 30, 3, 8, 13, 29, 2, 5, 7, 21, 12, 24, 28, 19,
         1, 10, 4, 14, 6, 22, 25, 20, 11, 15, 23, 26, 16, 27, 17, 18>>
  ELSE <<0, 63, 62, 57, 61, 51, 56, 45, 60, 39, 50, 36, 55, 30, 44, 24,
         59, 47, 38, 26, 49, 18, 35, 16, 54, 33, 29, 10, 43, 14, 23, 7,
         1, 58, 52, 46, 40, 37, 31, 25, 48, 27, 19, 17, 34, 11, 15, 8,
         2, 53, 41, 32, 28, 20, 12, 9, 3, 42, 21, 13, 4, 22, 5, 6>>

CtzTable(w) ==
  IF w = 32
  THEN <<0, 1, 23, 2, 29, 24, 19, 3, 30, 27, 25, 11, 20, 8, 4, 13,
         31, 22, 28, 18, 26, 10, 7, 12, 21, 17, 9, 6, 16, 5, 15, 14>>
  ELSE <<0, 1, 2, 7, 3, 13, 8, 19, 4, 25, 14, 28, 9, 34, 20, 40,
         5, 17, 26, 38, 15, 46, 29, 48, 10, 31, 35, 54, 21, 50, 41, 57,
         63, 6, 12, 18, 24, 27, 33, 39, 16, 37, 45, 47, 30, 53, 49, 56,
         62, 11, 23, 32, 36, 44, 52, 55, 61, 22, 43, 51, 60, 42, 59, 58>>

Smear(a, i) == a \union {x - i : x \in {y \in a : y >= i}}

Increment(w, a) ==
  LET z == Min((0 .. w) \ a) IN ({z} \union {x \in a : x > z}) \intersect (0 .. w - 1)

clz(w, a) ==
  LET smeared == FoldLeft(Smear, a, SelectSeq(<<1, 2, 4, 8, 16, 32>>, LAMBDA i : i < w))
  IN ClzTable(w)[Hash(w, Increment(w, smeared)) + 1]

ctz(w, a) == CtzTable(w)[Hash(w, IF a = {} THEN {} ELSE {Min(a)}) + 1]

-----------------------------------------------------------------------------
(* A quotient of a and b rounded towards zero, and what remains.           *)
IsQuotient(a, b, q, r) ==
  /\ a = q * b + r
  /\ IF a >= 0 THEN r \in 0 .. (IF b > 0 THEN b ELSE -b) - 1
               ELSE -r \in 0 .. (IF b > 0 THEN b ELSE -b) - 1

(* Shift and subtract is division: for every dividend and divisor of the   *)
(* unsigned routines, and for the signed ones rounded towards zero, with   *)
(* the one quotient that does not fit wrapping around.                     *)
IsDivision(a, b, uq, ur, q, r) ==
  /\ IsQuotient(a, b, uq, ur)
  /\ \/ IsQuotient(Signed(a), Signed(b), q, r)
     \/ q = -2^(W - 1) /\ IsQuotient(Signed(a), Signed(b), 2^(W - 1), r)

DividesRight(a, b) ==
  b # 0 => IsDivision(a, b, udiv(a, b), umod(a, b), Signed(div(a, b)), Signed(mod(a, b)))

(* __mulsi3 is the product modulo 2^W also for negative factors, and an    *)
(* arithmetic shift to the right and back only loses the low bits.         *)
MultipliesRight(a, b) ==
  /\ mulsi3(a, b) = Mod(a * b)
  /\ b < W => ashl(ashr(a, b), b) = a - (a % 2^b)

(* The multiplication has no collision and the tables invert it: for every *)
(* highest or lowest bit of a number the count is right.                   *)
CountsRight(w, k) ==
  \A a \in {{k}, 0 .. k, {0, k}} :
     /\ clz(w, a) = w - 1 - Max(a)
     /\ ctz(w, {w - 1 - x : x \in a}) = w - 1 - k

(* "This file contains definitions for all GCC routines for integer        *)
(* arithmetic": the quotient and the remainder of __divmod4, the logical   *)
(* shift, the product of two di_t, and the division of ti_t, for which W   *)
(* is more than ULL.                                                       *)
DivmodRight(a, b) ==
  b # 0 /\ ~(Signed(a) = -2^(W - 1) /\ Signed(b) = -1) =>
    IsQuotient(Signed(a), Signed(b), Signed(divmod4(a, b)[1]), Signed(divmod4(a, b)[2]))

LogicalShiftRight(a, b) == lshr(a, b) = a \div 2^(b % W)

LongProductRight(a, b) == muldi3(a, b) = Mod(a * b)
=============================================================================
