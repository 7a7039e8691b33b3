------------------------------- MODULE MCHeap -------------------------------
(***************************************************************************)
(* Instances of Heap: one pool of eight pages, two pools of four, and the  *)
(* pools of the disagreements.                                             *)
(***************************************************************************)
EXTENDS Heap

Table(c) == <<[bytes |-> 32, limits |-> <<0, 32, 64, 126>>],
              [bytes |-> 64, limits |-> <<0, 16, 32, 63>>],
              [bytes |-> 128, limits |-> <<0, 8, 16, 31>>],
              [bytes |-> 256, limits |-> <<0, 4, 8, 15>>]>>[c]

Kernel == [c \in 1 .. 4 |-> Table(c)]

(* The smallest table with every list: pages of four slots.                *)
FourSlots == <<[bytes |-> 256, limits |-> <<0, 2, 3, 4>>]>>

KiB == 1024

OnePool == [pools |-> <<8>>, sizes |-> {100, 8 * KiB}, counts |-> {1, 3, 4},
            race |-> FALSE, grants |-> 4]
TwoPools == [pools |-> <<4, 4>>, sizes |-> {0, 256, 5 * KiB}, counts |-> {1, 2},
             race |-> FALSE, grants |-> 4]
Slabs == [pools |-> <<4>>, sizes |-> {0}, counts |-> {1}, race |-> FALSE, grants |-> 10]
AllConfigs == {OnePool, TwoPools, Slabs}

(* A pool of sixteen pages, of which one holds the metadata.               *)
Sixteen == [pools |-> <<16>>, sizes |-> {6 * 4 * KiB}, counts |-> {6, 8},
            race |-> FALSE, grants |-> 2]
SixteenConfigs == {Sixteen}

(* phys_page_alloc beside malloc.                                          *)
RaceConfigs == {[OnePool EXCEPT !.race = TRUE, !.grants = 2]}
=============================================================================
