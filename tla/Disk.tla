-------------------------------- MODULE Disk --------------------------------
(***************************************************************************)
(* What a block device promises (include/blockdevice.h): an array of       *)
(* blocks.  A read answers what was written last, whatever is cached; an   *)
(* erased block reads as FF.  A block is written whole or in part (here:   *)
(* one of its two halves).  A call that fails changes nothing, unless the  *)
(* device fails when the cache is written back or filled.                  *)
(***************************************************************************)
EXTENDS Naturals, Sequences

CONSTANTS Blocks, Values, FF

VARIABLES data,   \* the contents of the blocks
          lost,   \* whether an error of the device cost the cache its data
          answer  \* the latest call that succeeded, with what it read; else <<>>

vars == <<data, lost, answer>>

Halves == 1 .. 2
Contents == [Halves -> Values \union {FF}]

Init == data \in [Blocks -> Contents] /\ lost = FALSE /\ answer = <<>>

Fill(b, x) == data' = [data EXCEPT ![b] = x]
Write(b, v) == Fill(b, [h \in Halves |-> v]) /\ answer' = <<"write", b, v>>
WritePartial(b, h, v) == Fill(b, [data[b] EXCEPT ![h] = v]) /\ answer' = <<"part", b, h, v>>

(* A device that cannot erase blocks does nothing.                         *)
Erase(b) ==
  /\ Fill(b, [h \in Halves |-> FF]) \/ UNCHANGED data
  /\ answer' = <<"erase", b>>

Read(b) == answer' = <<"read", b, data[b]>> /\ UNCHANGED data
ReadPartial(b, h) == answer' = <<"half", b, h, data[b][h]>> /\ UNCHANGED data
NoAnswer == answer' = <<>> /\ UNCHANGED data

(* Then all bets are off.                                                  *)
Lose == lost' = TRUE

Works ==
  \/ NoAnswer
  \/ \E b \in Blocks : Erase(b) \/ Read(b) \/ \E v \in Values : Write(b, v)
  \/ \E b \in Blocks, h \in Halves : ReadPartial(b, h) \/ \E v \in Values : WritePartial(b, h, v)

Next == Lose \/ (~lost /\ UNCHANGED lost /\ Works)

Spec == Init /\ [][Next]_vars
=============================================================================
