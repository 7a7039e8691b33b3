------------------------------- MODULE NumToStr -------------------------------
(***************************************************************************)
(* Binary to decimal, with the double dabble algorithm, and the functions  *)
(* that put the digits into a buffer of the caller.  Types is the sequence *)
(* of the widths, each with its number of digits: in the code 16, 32 and   *)
(* 64 bits with 5, 10 and 20 digits.                                       *)
(***************************************************************************)
EXTENDS Integers, Sequences, SequencesExt, FiniteSetsExt

CONSTANT Types

Widest == Types[Len(Types)]

(* Characters of a buffer besides the digits; Old is what it held before.  *)
Minus == 10
Nul == 11
Old == 12

(***************************************************************************)
(* num_uint16_to_str, num_uint32_to_str and num_uint64_to_str.  A digit is *)
(* four bits of buf, and "mask" has a bit for each one of 5 or more.       *)
(***************************************************************************)
Bit(val, i) == (val \div 2^i) % 2

Adjust(n) == IF n >= 5 THEN n + 3 ELSE n

Dabble(buf, bit) ==
  LET n == [i \in DOMAIN buf |-> Adjust(buf[i])]
  IN [i \in DOMAIN buf |->
        ((2 * n[i]) % 16) + IF i = Len(buf) THEN bit ELSE n[i + 1] \div 8]

num_to_str(type, val) ==
  FoldLeft(Dabble, [i \in 1 .. type.digits |->
                      IF i = type.digits THEN val \div 2^(type.bits - 3) ELSE 0],
           [i \in 1 .. type.bits - 3 |-> Bit(val, type.bits - 3 - i)])

(* num_uint_to_str: the narrowest width that holds the value, zeroes in    *)
(* front, and the number of digits that are left when they are dropped;    *)
(* its callers print one zero rather than none.                            *)
Narrowest(val) == Types[Min({t \in DOMAIN Types : val < 2^Types[t].bits})]

Padded(type, val) ==
  [i \in 1 .. Widest.digits - type.digits |-> 0] \o num_to_str(type, val)

Counted(buf) ==
  [buf |-> buf, digits |-> Len(buf) + 1 - Min({i \in DOMAIN buf : buf[i] # 0 \/ i = Len(buf)})]

num_uint_to_str(val) == Counted(Padded(Narrowest(val), val))

(***************************************************************************)
(* The buffer after chars are written to it, and the length returned; and  *)
(* the last n digits of a number.  The functions get the sign, which two   *)
(* of them ignore, and the digits of the magnitude; the size is NoBuffer   *)
(* when the pointer is null.                                               *)
(***************************************************************************)
NoBuffer == -1

Written(size, chars, len) ==
  [text |-> [i \in 1 .. size |-> IF i <= Len(chars) THEN chars[i] ELSE Old],
   len |-> len, past |-> Len(chars) > size]

Untouched == Written(0, <<>>, 0)

Copied(num, n) == SubSeq(num.buf, Len(num.buf) + 1 - n, Len(num.buf))

CopySize(num, room) == IF num.digits < room THEN num.digits ELSE room

int_to_cstr(sign, num, size) ==
  LET n == CopySize(num, size - 1 - Len(sign))
  IN CASE size \in {0, NoBuffer} -> Untouched
       [] size = 1 -> Written(size, <<Nul>>, 0)
       [] OTHER -> Written(size, sign \o Copied(num, n) \o <<Nul>>, n + Len(sign))

uint_to_cstr(num, size) ==
  LET n == CopySize(num, size - 1)
  IN CASE size \in {0, NoBuffer} -> Untouched
       [] size = 1 -> Written(size, <<Nul>>, 0)
       [] OTHER -> Written(size, Copied(num, n) \o <<Nul>>, n)

int_to_cstr_packed(sign, num, size) ==
  LET chars == sign \o Copied(num, CopySize(num, size - Len(sign)))
  IN IF size \in {0, NoBuffer} THEN Untouched
     ELSE Written(size, IF Len(chars) < size THEN chars \o <<Nul>> ELSE chars, Len(chars))

uint_to_cstr_packed(num, size) ==
  LET n == CopySize(num, size)
  IN CASE size \in {0, NoBuffer} -> Untouched
       [] size = 1 -> Written(size, Copied(num, 1), 1)
       [] OTHER -> Written(size, IF n < size - 1 THEN Copied(num, n) \o <<Nul>>
                                 ELSE Copied(num, n), n)

(* The negative of the least value is its unsigned value.                  *)
Negative(val) == val >= 2^(Widest.bits - 1)
Magnitude(val) == IF Negative(val) THEN 2^Widest.bits - val ELSE val
Sign(val) == IF Negative(val) THEN <<Minus>> ELSE <<>>

SignedFn(fn) == fn \in {"int", "int_packed"}

Converted(fn, sign, num, size) ==
  CASE fn = "int" -> int_to_cstr(sign, num, size)
    [] fn = "uint" -> uint_to_cstr(num, size)
    [] fn = "int_packed" -> int_to_cstr_packed(sign, num, size)
    [] fn = "uint_packed" -> uint_to_cstr_packed(num, size)

Convert(fn, val, size) ==
  Converted(fn, Sign(val), num_uint_to_str(IF SignedFn(fn) THEN Magnitude(val) ELSE val), size)

-----------------------------------------------------------------------------
Packed(fn) == fn \in {"int_packed", "uint_packed"}

(* The decimal notation of a value, from its definition.                   *)
Decimal(val) ==
  LET n == Min({k \in 1 .. Widest.digits : val < 10^k})
  IN [i \in 1 .. n |-> (val \div 10^(n - i)) % 10]

Notation(fn, val) ==
  IF SignedFn(fn) THEN Sign(val) \o Decimal(Magnitude(val)) ELSE Decimal(val)

(* Whatever the value and the size of the buffer, nothing is written past  *)
(* it; the notation is exact when there is room for it, the length         *)
(* returned is that of the text, and the text ends in NUL: always in the   *)
(* functions that are not packed.                                          *)
IsText(fn, size, text, out) ==
  /\ ~out.past /\ out.len <= Max({size, 0})
  /\ \A i \in 1 .. out.len : out.text[i] \in 0 .. Minus
  /\ Len(text) <= (IF Packed(fn) THEN size ELSE size - 1) => SubSeq(out.text, 1, out.len) = text
  /\ ~Packed(fn) /\ size > 0 => out.len < size /\ out.text[out.len + 1] = Nul

ConvertsRight(fn, val, size) == IsText(fn, size, Notation(fn, val), Convert(fn, val, size))

(* "places a NULL terminator if the buffer is not filled entirely"         *)
IsEnded(size, out) == out.len < size => out.text[out.len + 1] = Nul

PackedEnds(fn, val, size) == IsEnded(size, Convert(fn, val, size))
=============================================================================
