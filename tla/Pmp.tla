--------------------------------- MODULE Pmp ---------------------------------
(***************************************************************************)
(* The PMP entries of kernel/cpu/riscv/src/memprotect/riscv_pmp.c and of   *)
(* the two ESP32 ports: what a process' regions are turned into, and what  *)
(* the hardware then lets user mode and the kernel do.  Addresses count    *)
(* bytes; a register pmpaddr counts words of four.  A region is a record   *)
(* with paddr, size, write and exec.                                       *)
(***************************************************************************)
EXTENDS Integers, Sequences, FiniteSets, FiniteSetsExt

Entry(mode, addr, perms, lock) == [mode |-> mode, addr |-> addr, perms |-> perms, lock |-> lock]
OffAt(addr) == Entry("OFF", addr, {}, FALSE)

IsPower2(n) == \E k \in 0 .. 12 : n = 2^k

riscv_pmpaddr_is_napot(base, size) == size >= 8 /\ IsPower2(size) /\ base % size = 0

(* The bits or-ed in are 0 in base, which is a multiple of size.           *)
riscv_pmpaddr_calc_napot(base, size) == (base \div 4) + (size \div 8 - 1)

Perms(r) ==
  {"R"} \union (IF r.write THEN {"W"} ELSE {}) \union (IF r.exec THEN {"X"} ELSE {})

(***************************************************************************)
(* The entries of one region behind those of the regions before it, which  *)
(* end at prev.  A region that follows the one before it takes the start   *)
(* of its range from the entry before it, whatever the mode of that one.   *)
(***************************************************************************)
RegionEntries(r, prev) ==
  IF r.paddr # prev /\ r.size = 4
  THEN <<Entry("NA4", r.paddr \div 4, Perms(r), FALSE)>>
  ELSE IF r.paddr # prev /\ riscv_pmpaddr_is_napot(r.paddr, r.size)
  THEN <<Entry("NAPOT", riscv_pmpaddr_calc_napot(r.paddr, r.size), Perms(r), FALSE)>>
  ELSE (IF r.paddr # prev THEN <<OffAt(r.paddr \div 4)>> ELSE <<>>)
       \o <<Entry("TOR", (r.paddr + r.size) \div 4, Perms(r), FALSE)>>

(***************************************************************************)
(* riscv_pmp_memprotect: the image of the regions, or NoImage when a       *)
(* region is misaligned or the count of entries is too small.  The entries *)
(* behind the last one keep an address that nobody reads.                  *)
(***************************************************************************)
NoImage == <<"none">>

Entries(regions) ==
  LET upto[i \in 0 .. Len(regions)] ==
        IF i = 0 THEN <<>>
        ELSE upto[i - 1] \o RegionEntries(regions[i],
               IF i = 1 THEN 0 ELSE regions[i - 1].paddr + regions[i - 1].size)
  IN upto[Len(regions)]

riscv_pmp_memprotect(regions, count, grain) ==
  LET e == Entries(regions) IN
  IF \/ \E i \in DOMAIN regions : regions[i].paddr % grain # 0 \/ regions[i].size % grain # 0
     \/ Len(e) > count
  THEN NoImage
  ELSE [i \in 1 .. count |-> IF i <= Len(e) THEN e[i] ELSE OffAt(0)]

(***************************************************************************)
(* The hardware (RISC-V privileged specification): the range of an entry   *)
(* as a set of words, and what the first entry that matches a word allows. *)
(***************************************************************************)
TrailingOnes(a) == CHOOSE k \in 0 .. 12 : a % 2^(k + 1) = 2^k - 1

Words(entries, i) ==
  LET a == entries[i].addr
      below == IF i = 1 THEN 0 ELSE entries[i - 1].addr
      len == 2^(TrailingOnes(a) + 1)
  IN CASE entries[i].mode = "OFF" -> {}
       [] entries[i].mode = "NA4" -> {a}
       [] entries[i].mode = "TOR" -> below .. a - 1
       [] entries[i].mode = "NAPOT" -> a - (a % len) .. a - (a % len) + len - 1

Matching(entries, word) == {i \in DOMAIN entries : word \in Words(entries, i)}

UserPerms(entries, word) ==
  IF Matching(entries, word) = {} THEN {} ELSE entries[Min(Matching(entries, word))].perms

KernelPerms(entries, word) ==
  IF Matching(entries, word) = {} THEN {"R", "W", "X"}
  ELSE LET e == entries[Min(Matching(entries, word))]
       IN IF e.lock THEN e.perms ELSE {"R", "W", "X"}

(***************************************************************************)
(* memprotect_early_init of the ESP32 ports, with numbers from the machine *)
(* c: the entry for all of user mode is number 11, the locked ones 12..15. *)
(***************************************************************************)
memprotect_early_init(c) ==
  LET locked(base, size, perms) ==
        Entry("NAPOT", riscv_pmpaddr_calc_napot(base, size), perms, TRUE)
  IN <<Entry("NAPOT", c.words - 1, {}, FALSE),
       locked(0, c.null, {}), locked(4 * c.words - c.null, c.null, {}),
       locked(c.rom, c.null, {"R", "X"}), locked(c.flash, c.null, {"R", "X"})>>

(* memprotect_swap: the entries of the process come before the fixed ones. *)
riscv_pmp_memprotect_swap(image, c) == image \o memprotect_early_init(c)

=============================================================================
