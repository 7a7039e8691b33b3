------------------------------ MODULE PageTable ------------------------------
(***************************************************************************)
(* The page tables of kernel/port/generic/src/memprotect.c and their       *)
(* entries of kernel/cpu/riscv/include/cpu/mmu.h, as operators on a record *)
(*    m.blk    the blocks of physical pages given out: first page |-> size *)
(*    m.mem    the pages that hold a page table |-> its entries            *)
(*    m.root   context |-> page of its top table ("global" among them)     *)
(*    m.list   ctx_list                                                    *)
(*    m.top    pt_map and pt_unmap have edited the top table               *)
(*    m.fault  the assertion or panic that stopped the kernel, or "none"   *)
(* for a machine c: c.bits per level, c.levels, c.frames pages of memory   *)
(* that start at page c.base.  Page numbers count pages.                   *)
(***************************************************************************)
EXTENDS Integers, Sequences, FiniteSets, FiniteSetsExt, SequencesExt

Fault(m, why) == [m EXCEPT !.fault = why]

(***************************************************************************)
(* phys_page_alloc, phys_page_size and phys_page_free on the buddy         *)
(* allocator: blocks of 2^k pages, aligned in the pool.  The model takes   *)
(* the first that is free.  0 says that there is none; new pages are zero. *)
(***************************************************************************)
BlockSize(n) == CHOOSE s \in {2^k : k \in 0 .. 6} : s >= n /\ s < 2 * n

FirstPageFree(m, c, size) ==  \* mutant: the other pages of a block are not looked at
  {b \in {c.base + i * size : i \in 0 .. c.frames \div size - 1} : b \notin DOMAIN m.blk}

FreeBlocks(m, c, size) ==
  {b \in {c.base + i * size : i \in 0 .. c.frames \div size - 1} :
     \A a \in DOMAIN m.blk : b + size <= a \/ a + m.blk[a] <= b}

phys_page_alloc(m, c, n) ==
  LET free == FreeBlocks(m, c, BlockSize(n)) IN IF free = {} THEN 0 ELSE Min(free)

Given(m, ppn, n) ==
  [m EXCEPT !.blk = (ppn :> BlockSize(n)) @@ @]

phys_page_free(m, ppn) ==
  IF ppn \in DOMAIN m.blk
  THEN [m EXCEPT !.blk = [b \in DOMAIN @ \ {ppn} |-> @[b]]]
  ELSE Fault(m, "free")

(* Page table entries.                                                     *)
RWX == {"R", "W", "X"}
MMU_PTE_NULL == [v |-> FALSE, rwx |-> {}, u |-> FALSE, g |-> FALSE, pbmt |-> "PMA", ppn |-> 0]

mmu_pte_new_leaf(ppn, flags) ==
  [v |-> flags \cap RWX # {}, rwx |-> flags \cap RWX,
   u |-> "KERNEL" \notin flags, g |-> "GLOBAL" \in flags,
   pbmt |-> IF "IO" \in flags THEN "IO" ELSE IF "NC" \in flags THEN "NC" ELSE "PMA",
   ppn |-> ppn]

mmu_pte_new(ppn) == [MMU_PTE_NULL EXCEPT !.v = TRUE, !.ppn = ppn]
mmu_pte_is_leaf(pte) == pte.rwx # {}
mmu_pte_get_flags(pte) ==
  pte.rwx \union (IF pte.g THEN {"GLOBAL"} ELSE {}) \union (IF pte.u THEN {} ELSE {"KERNEL"})

Indices(c) == 0 .. 2^c.bits - 1
mmu_vpn_part(c, vpn, level) == (vpn \div 2^(c.bits * level)) % 2^c.bits
mmu_half_pages(c) == 2^(c.bits * c.levels - 1)
SuperLen(c, level) == 2^(c.bits * level)

(***************************************************************************)
(* pt_walk.  The two halves are adjacent: the hole between them, where     *)
(* pt_walk gives up at once, is empty.                                     *)
(***************************************************************************)
RECURSIVE WalkFrom(_, _, _, _, _)
WalkFrom(m, c, pt, vpn, level) ==
  LET pte == m.mem[pt][mmu_vpn_part(c, vpn, level)]
      at(found, bad) == [pte |-> pte, level |-> level, found |-> found, corrupt |-> bad]
  IN IF ~pte.v THEN at(FALSE, FALSE)
     ELSE IF mmu_pte_is_leaf(pte) THEN at(TRUE, pte.ppn % SuperLen(c, level) # 0)
     ELSE IF level = 0 THEN at(FALSE, TRUE)
     ELSE WalkFrom(m, c, pte.ppn, vpn, level - 1)

pt_walk(m, c, root, vpn) == WalkFrom(m, c, root, vpn, c.levels - 1)

(* memprotect_virt2phys, of a page.                                        *)
memprotect_virt2phys(m, c, root, vpn) ==
  LET w == pt_walk(m, c, root, vpn)
      size == SuperLen(c, w.level)
  IN IF w.found
     THEN [flags |-> mmu_pte_get_flags(w.pte), ppn |-> w.pte.ppn + (vpn % size), size |-> size]
     ELSE [flags |-> {}, ppn |-> 0, size |-> 0]

(* A table of the page ppn, with the given entries.                        *)
WithTable(m, ppn, entries) ==
  [Given(m, ppn, 1) EXCEPT !.mem = (ppn :> entries) @@ @]

ZeroTable(c) == [i \in Indices(c) |-> MMU_PTE_NULL]

(* The entries that pt_split writes: consecutive pages at every level.     *)
SplitEntries(c, pte) ==
  [i \in Indices(c) |-> mmu_pte_new_leaf(pte.ppn + i, mmu_pte_get_flags(pte))]

(* The step of pt_map_1 and pt_unmap_1 to a table that is not there yet.   *)
AddTable(m, c, pt, i, level, entries) ==
  LET next == phys_page_alloc(m, c, 1) IN
  IF next = 0 THEN Fault(m, "nomem")
  ELSE [WithTable(m, next, entries) EXCEPT
          !.mem[pt][i] = mmu_pte_new(next), !.top = @ \/ level = c.levels - 1]

RECURSIVE pt_map_1(_, _, _, _, _, _, _, _)
pt_map_1(m, c, pt, level, vpn, ppn, pteLevel, flags) ==
  LET i == mmu_vpn_part(c, vpn, level)
      pte == m.mem[pt][i]
      n == AddTable(m, c, pt, i, level, IF pte.v THEN SplitEntries(c, pte) ELSE ZeroTable(c))
  IN IF level = pteLevel
     THEN [m EXCEPT !.mem[pt][i] = mmu_pte_new_leaf(ppn, flags), !.top = @ \/ level = c.levels - 1]
     ELSE IF pte.v /\ ~mmu_pte_is_leaf(pte)
     THEN pt_map_1(m, c, pte.ppn, level - 1, vpn, ppn, pteLevel, flags)
     ELSE IF n.fault # "none" THEN n
     ELSE pt_map_1(n, c, n.mem[pt][i].ppn, level - 1, vpn, ppn, pteLevel, flags)

(* The index into every table on the way is that of the last one.          *)
RECURSIVE pt_unmap_1(_, _, _, _, _, _)
pt_unmap_1(m, c, pt, level, vpn, pteLevel) ==
  LET i == mmu_vpn_part(c, vpn, pteLevel)
      pte == m.mem[pt][i]
      n == AddTable(m, c, pt, i, level, SplitEntries(c, pte))
  IN IF level = pteLevel
     THEN [m EXCEPT !.mem[pt][i] = MMU_PTE_NULL, !.top = @ \/ level = c.levels - 1]
     ELSE IF ~pte.v THEN m
     ELSE IF ~mmu_pte_is_leaf(pte) THEN pt_unmap_1(m, c, pte.ppn, level - 1, vpn, pteLevel)
     ELSE IF n.fault # "none" THEN n
     ELSE pt_unmap_1(n, c, n.mem[pt][i].ppn, level - 1, vpn, pteLevel)

pt_calc_superpage(c, vpn, ppn, len) ==
  Max({0} \union {i \in 1 .. c.levels - 1 :
                    /\ vpn % SuperLen(c, i) = 0
                    /\ ppn % SuperLen(c, i) = 0
                    /\ len >= SuperLen(c, i)})

RECURSIVE pt_map(_, _, _, _, _, _, _)
pt_map(m, c, root, vpn, ppn, pages, flags) ==
  LET level == pt_calc_superpage(c, vpn, ppn, pages)
      len == SuperLen(c, level)
  IN IF pages = 0 \/ m.fault # "none" THEN m
     ELSE pt_map(pt_map_1(m, c, root, c.levels - 1, vpn, ppn, level, flags),
                 c, root, vpn + len, ppn + len, pages - len, flags)

RECURSIVE pt_unmap(_, _, _, _, _)
pt_unmap(m, c, root, vpn, pages) ==
  LET level == pt_calc_superpage(c, vpn, 0, pages)
      len == SuperLen(c, level)
  IN IF pages = 0 \/ m.fault # "none" THEN m
     ELSE pt_unmap(pt_unmap_1(m, c, root, c.levels - 1, vpn, level), c, root, vpn + len, pages - len)

(* broadcast_to: the valid entries of the upper half.                      *)
broadcast_to(m, c, dest, src) ==
  [m EXCEPT !.mem[dest] = [i \in Indices(c) |->
     IF i >= 2^(c.bits - 1) /\ m.mem[src][i].v THEN m.mem[src][i] ELSE @[i]]]

(* The calls of memprotect_impl: the global table is the destination.      *)
Broadcast(m, c) ==
  FoldLeft(LAMBDA n, x : broadcast_to(n, c, n.root["global"], n.root[x]), m, m.list)

memprotect_impl(m, c, ctx, vpn, ppn, pages, flags0) ==
  LET flags == IF "W" \in flags0 THEN flags0 \union {"R"} ELSE flags0
      m0 == [m EXCEPT !.top = FALSE]
      n == IF flags \cap RWX # {}
           THEN pt_map(m0, c, m.root[ctx], vpn, ppn, pages, flags)
           ELSE pt_unmap(m0, c, m.root[ctx], vpn, pages)
      done == IF n.top /\ "GLOBAL" \in flags /\ n.fault = "none" THEN Broadcast(n, c) ELSE n
  IN [done EXCEPT !.top = FALSE]

(* The bounds of memprotect_u and memprotect_k, and what they then do.     *)
UserRange(c, vpn, pages) == vpn + pages <= mmu_half_pages(c)
KernelRange(c, vpn, pages) == vpn >= mmu_half_pages(c) /\ vpn + pages <= 2 * mmu_half_pages(c)

memprotect_u(m, c, ctx, vpn, ppn, pages, flags) ==
  memprotect_impl(m, c, ctx, vpn, ppn, pages, flags \ {"GLOBAL", "KERNEL"})

memprotect_k(m, c, vpn, ppn, pages, flags) ==
  memprotect_impl(m, c, "global", vpn, ppn, pages, flags \union {"GLOBAL", "KERNEL"})

memprotect_create(m, c, ctx) ==
  LET root == phys_page_alloc(m, c, 1) IN
  IF root = 0 THEN Fault(m, "nomem")
  ELSE [WithTable(m, root, m.mem[m.root["global"]]) EXCEPT
          !.root = (ctx :> root) @@ @,
          !.list = Append(@, ctx)]

(* memprotect_destroy leaves every table where it is.                      *)
memprotect_destroy(m, ctx) ==
  [m EXCEPT !.root = [x \in DOMAIN @ \ {ctx} |-> @[x]],
            !.list = SelectSeq(@, LAMBDA x : x # ctx)]

(***************************************************************************)
(* memprotect_postheap_init: the global table with the mappings of the     *)
(* HHDM and the kernel, c.boot.                                            *)
(***************************************************************************)
NoTables == [blk |-> <<>>, mem |-> <<>>, root |-> [x \in {"global"} |-> 0], list |-> <<>>,
             top |-> FALSE, fault |-> "none"]

memprotect_postheap_init(c) ==
  LET root == phys_page_alloc(NoTables, c, 1) IN
  [FoldLeft(LAMBDA m, b : pt_map(m, c, root, b[1], b[2], b[3], b[4] \union {"GLOBAL", "KERNEL"}),
            [WithTable(NoTables, root, ZeroTable(c)) EXCEPT !.root["global"] = root], c.boot)
   EXCEPT !.top = FALSE]

=============================================================================
