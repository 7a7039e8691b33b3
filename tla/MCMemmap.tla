------------------------------ MODULE MCMemmap ------------------------------
(***************************************************************************)
(* Memmap with two processes.  The page tables have four entries and two   *)
(* levels, so that the lower half has eight pages and a superpage four.    *)
(***************************************************************************)
EXTENDS Memmap

CONSTANTS p1, p2, c1, c2

Ask(vaddr, size, align, flags) == [vaddr |-> vaddr, size |-> size, align |-> align, flags |-> flags]
KAsk(vpn, ppn, pages, flags) == [vpn |-> vpn, ppn |-> ppn, pages |-> pages, flags |-> flags]

Base ==
  [kind |-> "mmu", page |-> 2, bits |-> 2, levels |-> 2, base |-> 4, frames |-> 12, low |-> 2,
   boot |-> <<>>, procs |-> {p1}, cpus |-> {}, maps |-> {}, unmaps |-> {}, kmaps |-> {},
   deletable |-> -1, pmps |-> 4, grain |-> 4, maxregs |-> 3, words |-> 64, null |-> 8, rom |-> 16,
   flash |-> 24, high |-> 0, half |-> 0, reserved |-> <<>>, lens |-> {}, maxused |-> 0]

(* Two processes map pages, the kernel maps a page under an entry of the   *)
(* top table that is there and under one that is not.                      *)
Tables == [Base EXCEPT !.procs = {p1, p2}, !.frames = 16,
             !.boot = <<<<8, 4, 1, {"R", "X"}>>, <<9, 5, 1, {"R", "W"}>>>>,
             !.maps = {Ask(2, 2, 1, {"R", "X"}), Ask(7, 3, 4, {"W"}), Ask(10, 2, 2, {"R"})},
             !.kmaps = {KAsk(10, 32, 1, {"R", "W", "IO"}), KAsk(13, 32, 2, {"R"}), KAsk(15, 0, 2, {"R"})}, !.unmaps = {5}]
(* Three levels of two entries.                                            *)
Deep == [Base EXCEPT !.procs = {p1, p2}, !.bits = 1, !.levels = 3, !.frames = 9,
           !.boot = <<<<4, 4, 1, {"R", "X"}>>>>,
           !.maps = {Ask(2, 2, 1, {"R", "W"}), Ask(4, 3, 1, {"X"}), Ask(9, 2, 1, {"R"})},
           !.kmaps = {KAsk(5, 32, 2, {"R", "W"}), KAsk(7, 0, 1, {})}, !.deletable = 0]
(* Superpages of the kernel, before there are processes.                   *)
Super == [Base EXCEPT !.procs = {}, !.boot = <<<<8, 4, 4, {"R", "W"}>>>>,
            !.frames = 6, !.kmaps = {KAsk(12, 32, 4, {"R", "W"}), KAsk(13, 40, 1, {"R"}),
                                     KAsk(10, 40, 3, {"W"}), KAsk(12, 0, 4, {})}]
(* Superpages of a process: blocks start one page behind a multiple of 4.  *)
UserSuper == [Base EXCEPT !.base = 5, !.frames = 16, !.boot = <<<<8, 4, 1, {"R", "X"}>>>>,
                !.maps = {Ask(2, 10, 1, {"R", "W"}), Ask(2, 2, 1, {"R"})}]
(* A superpage of the kernel that a process shares is unmapped.            *)
Shared == [Base EXCEPT !.boot = <<<<8, 4, 4, {"R", "W"}>>>>, !.kmaps = {KAsk(8, 0, 4, {})}]
(* The PMP of one processor, with two processes, and memory that starts    *)
(* one page behind a multiple of 4.                                        *)
PmpOne == [Base EXCEPT !.kind = "pmp", !.procs = {p1, p2}, !.cpus = {c1}, !.base = 5, !.frames = 5,
             !.words = 32, !.maps = {Ask(0, 0, 1, RWX), Ask(0, 3, 2, RWX), Ask(0, 1, 4, RWX)},
             !.unmaps = {5, 6, 7}, !.deletable = 3]
(* The kernel's virtual addresses.                                         *)
Vaddrs == [Base EXCEPT !.kind = "vmm", !.high = 10, !.half = 20, !.reserved = <<<<22, 2>>, <<10, 3>>>>,
             !.lens = {1, 3}, !.maxused = 3]

AllConfigs == {Tables, Deep, Super, UserSuper, Shared, PmpOne, Vaddrs}
PmpConfigs == {PmpOne}

(* The disagreements of README.md.                                         *)
UnmapConfigs == {[Tables EXCEPT !.unmaps = {1}]}
AssertConfigs == {[Base EXCEPT !.maps = {Ask(10, 2, 2, {"R"})}, !.unmaps = {5}]}
GlobalConfigs == {[Base EXCEPT !.kmaps = {KAsk(13, 32, 1, {"R"})}]}
OverlapConfigs == {[Base EXCEPT !.maps = {Ask(2, 2, 1, {"R"}), Ask(6, 2, 1, {"W"})}]}
SplitConfigs == {[Base EXCEPT !.levels = 3, !.bits = 1, !.boot = <<<<4, 4, 4, {"R", "W"}>>>>,
                    !.kmaps = {KAsk(5, 32, 1, {"R"})}]}
RevertConfigs == {[Base EXCEPT !.boot = <<<<8, 4, 4, {"R", "W"}>>>>, !.kmaps = {KAsk(9, 32, 1, {"R"})}]}
StaleConfigs == {[PmpOne EXCEPT !.procs = {p1}, !.cpus = {c1, c2}]}
(* The end of the last free range is given out.                            *)
LastConfigs == {[Vaddrs EXCEPT !.lens = {1, 5}]}
=============================================================================
