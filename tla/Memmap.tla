------------------------------- MODULE Memmap -------------------------------
(***************************************************************************)
(* The memory of processes, kernel/src/process/proc_memmap.c, over both    *)
(* ways to protect it: page tables (conf.kind "mmu", the generic port) and *)
(* PMP entries ("pmp", the ESP32 ports); and the kernel's own virtual      *)
(* addresses ("vmm").  A call is one step: proc_map and proc_unmap hold    *)
(* proc_mtx, memprotect_alloc_vaddr holds vmm_mtx.                         *)
(*                                                                         *)
(* Addresses of requests count units of which conf.page make a page; page  *)
(* numbers count pages.  A configuration has the machine's numbers and the *)
(* requests that are made of it.                                           *)
(***************************************************************************)
EXTENDS PageTable

CONSTANTS Configs,  \* the configurations, see MCMemmap
          Procs     \* processes

V == INSTANCE Vmm
P == INSTANCE Pmp

VARIABLES conf,    \* the configuration
          m,       \* physical memory and page tables, see PageTable
          regs,    \* process |-> memmap.regions
          img,     \* process |-> its PMP entries, memmap.mpu_ctx
          cpu,     \* processor |-> mode, process and loaded PMP entries
          vmm,     \* the kernel's ranges, see Vmm
          grants,  \* page that memprotect_alloc_vaddr returned |-> bytes asked for
          op       \* the last call and its result; never read by a step

vars == <<conf, m, regs, img, cpu, vmm, grants, op>>

None == "none"
NoOp == [call |-> "none"]
Page == conf.page
Half == mmu_half_pages(conf) * Page
Live == DOMAIN regs
Running == m.fault = "none" /\ vmm.fault = "none"

(* A system call of p, or work of the kernel for it, on some processor.    *)
InKernel == conf.cpus = {} \/ \E c \in conf.cpus : cpu[c].mode = "kernel"
Calls(p) == conf.cpus = {} \/ \E c \in conf.cpus : cpu[c].mode = "kernel" /\ cpu[c].cur = p

IsPower2(n) == n = 0 \/ \E k \in 0 .. 12 : n = 2^k

(***************************************************************************)
(* array_sorted_insert by proc_memmap_cmp, which says -1 or 0 and never 1: *)
(* the binary search stops at the first range that it meets that does not  *)
(* start below the new one.                                                *)
(***************************************************************************)
RECURSIVE Place(_, _, _, _)
Place(s, r, lo, hi) ==
  LET mid == (lo + hi) \div 2 IN
  IF lo = hi THEN lo
  ELSE IF s[mid].paddr < r.paddr THEN Place(s, r, mid + 1, hi) ELSE mid

SortedInsert(s, r) == InsertAt(s, Place(s, r, 1, Len(s) + 1), r)

Region(paddr, vaddr, size) ==
  [paddr |-> paddr, vaddr |-> vaddr, size |-> size, write |-> TRUE, exec |-> TRUE]

(***************************************************************************)
(* proc_map_contains_raw with page tables: the permissions that all of     *)
(* size units from vaddr have, none when a page is missing.                *)
(***************************************************************************)
RECURSIVE Common(_, _, _, _, _)
Common(n, p, vaddr, size, flags) ==
  LET info == memprotect_virt2phys(n, conf, n.root[p], vaddr \div Page)
      both == flags \cap info.flags
      inc == info.size * Page - (vaddr % (info.size * Page))
  IN IF both = {} THEN {}
     ELSE IF inc >= size THEN both
     ELSE Common(n, p, vaddr + inc, size - inc, both)

proc_map_contains_raw(n, p, vaddr, size) ==
  IF vaddr >= Half \/ vaddr + size > Half THEN {} ELSE Common(n, p, vaddr, size, RWX)

(***************************************************************************)
(* The address that proc_map_raw takes with page tables, and whether it    *)
(* calls the request impossible.  With an alignment of 0 the mask is all   *)
(* ones.                                                                   *)
(***************************************************************************)
UpTo(a, n) == IF n = 0 THEN 0 ELSE IF a % n = 0 THEN a ELSE a + n - (a % n)
DownTo(a, n) == IF n = 0 THEN 0 ELSE a - (a % n)

Corrected(vaddr, size, align0) ==
  LET align == IF IsPower2(align0) THEN align0 ELSE 1
      up == UpTo(IF vaddr < conf.low THEN conf.low ELSE UpTo(vaddr, Page), align)
      n == UpTo(size, Page)
      down == DownTo((Half - n) % (2 * Half), align)
  IN [size |-> n,
      vaddr |-> IF up + n > Half THEN down ELSE up,
      impossible |-> up + n > Half /\ down < conf.low]

(* The counts of pages that are tried: __builtin_clzll, halved and halved. *)
Clz(n) == 63 - CHOOSE k \in 0 .. 8 : 2^k <= n /\ n < 2^(k + 1)
Tried(n, left) == {a \in {Clz(left) \div 2^k : k \in 0 .. 6} \ {0} : phys_page_alloc(n, conf, a) # 0}

(* The loop of proc_map_raw from page i on; s holds m, regions and ok.     *)
RECURSIVE MapFrom(_, _, _, _, _, _)
MapFrom(s, p, vpn, pages, i, flags) ==
  LET tried == Tried(s.m, pages - i)
      a == Max(tried)
      ppn == phys_page_alloc(s.m, conf, a)
      taken == [s EXCEPT !.m = Given(@, ppn, a), !.r = SortedInsert(@, Region(ppn, vpn, a))]
      mapped == [taken EXCEPT !.m = memprotect_u(@, conf, p, vpn + i, ppn, a, flags)]
  IN IF i >= pages THEN s
     ELSE IF tried = {} THEN [s EXCEPT !.ok = FALSE]
     ELSE IF ~UserRange(conf, vpn + i, a) THEN [taken EXCEPT !.ok = FALSE]
     ELSE IF mapped.m.fault # "none" THEN mapped
     ELSE MapFrom(mapped, p, vpn, pages, i + a, flags)

MapV(p, vaddr, size, align, flags) ==
  LET c == Corrected(vaddr, size, align)
      refused == c.impossible \/ proc_map_contains_raw(m, p, c.vaddr, c.size) # {}
      s == IF refused THEN [m |-> m, r |-> regs[p], ok |-> FALSE]
           ELSE MapFrom([m |-> m, r |-> regs[p], ok |-> TRUE], p, c.vaddr \div Page,
                        c.size \div Page, 0, flags)
  IN /\ m' = s.m
     /\ regs' = [regs EXCEPT ![p] = s.r]
     /\ op' = [call |-> "map", p |-> p, vpn |-> c.vaddr \div Page, pages |-> c.size \div Page,
               flags |-> flags \cap RWX, ok |-> s.ok /\ s.m.fault = "none"]
     /\ UNCHANGED img

(***************************************************************************)
(* proc_unmap_raw with page tables: the pages are looked up for their      *)
(* release after they have been unmapped.                                  *)
(***************************************************************************)
RECURSIVE Release(_, _, _, _)
Release(n, p, vpn, end) ==
  LET v2p == memprotect_virt2phys(n, conf, n.root[p], vpn) IN
  IF vpn >= end \/ n.fault # "none" THEN n
  ELSE IF v2p.flags \cap RWX = {} \/ "KERNEL" \in v2p.flags THEN Fault(n, "assert")
  ELSE IF v2p.ppn \notin DOMAIN n.blk THEN Fault(n, "free")
  ELSE Release(phys_page_free(n, v2p.ppn), p, vpn + n.blk[v2p.ppn], end)

At(r, base) == {i \in DOMAIN r : r[i].vaddr = base}

UnmapV(s, p, base) ==
  LET i == Min(At(s.r, base))
      size == s.r[i].size
      n == memprotect_u(s.m, conf, p, base, 0, size, {})
  IN IF At(s.r, base) = {} THEN s
     ELSE [m |-> IF ~UserRange(conf, base, size) THEN Fault(s.m, "assert")
                 ELSE Release(n, p, base, base + size),
           r |-> RemoveAt(s.r, i)]

(***************************************************************************)
(* The same without virtual memory.  Pages are 4 * conf.page bytes for the *)
(* PMP.  memprotect_u makes the entries of all the regions.                *)
(***************************************************************************)
InBytes(r) == [i \in DOMAIN r |-> [r[i] EXCEPT !.paddr = @ * 4 * Page, !.size = @ * 4 * Page]]
Image(r) == P!riscv_pmp_memprotect(InBytes(r), conf.pmps, conf.grain)

MapP(p, size, align) ==
  LET n == IF size = 0 THEN 1 ELSE (size - 1) \div Page + 1
      base == phys_page_alloc(m, conf, n)
      r == SortedInsert(regs[p], Region(base, base, BlockSize(n)))
      no == /\ UNCHANGED <<m, regs, img>>
            /\ op' = [call |-> "refused", p |-> p]
  IN IF \/ IsPower2(align) /\ align > Page
        \/ Len(regs[p]) >= conf.maxregs
        \/ base = 0
     THEN no
     ELSE IF Image(r) = P!NoImage THEN no  \* the region is removed, the block freed
     ELSE /\ m' = Given(m, base, n)
          /\ regs' = [regs EXCEPT ![p] = r]
          /\ img' = [img EXCEPT ![p] = Image(r)]
          /\ op' = [call |-> "map", p |-> p, vpn |-> base, pages |-> n, flags |-> RWX, ok |-> TRUE]

KeepsRegion(s, base) ==  \* mutant: the region stays in the list
  IF At(s.r, base) = {} THEN s ELSE [s EXCEPT !.m = phys_page_free(@, base)]

UnmapP(s, base) ==
  LET i == Min(At(s.r, base))
      rest == RemoveAt(s.r, i)
  IN IF At(s.r, base) = {} THEN s
     ELSE IF Image(rest) = P!NoImage THEN [m |-> Fault(s.m, "assert"), r |-> rest]
     ELSE [m |-> phys_page_free(s.m, base), r |-> rest]

(***************************************************************************)
(* The calls.                                                              *)
(***************************************************************************)
Map(p) ==
  /\ Running /\ Calls(p)
  /\ \E q \in conf.maps :
       IF conf.kind = "mmu" THEN MapV(p, q.vaddr, q.size, q.align, q.flags)
       ELSE MapP(p, q.size, q.align)
  /\ UNCHANGED <<conf, cpu, vmm, grants>>

UnmapOne(s, p, base) == IF conf.kind = "mmu" THEN UnmapV(s, p, base) ELSE UnmapP(s, base)

KeepsImage(i, p, r) == i  \* mutant: the entries stay as they were

SetImage(i, p, r) ==
  IF conf.kind = "mmu" \/ Image(r) = P!NoImage THEN i ELSE [i EXCEPT ![p] = Image(r)]

Unmap(p) ==
  /\ Running /\ Calls(p)
  /\ \E base \in conf.unmaps :
       LET s == UnmapOne([m |-> m, r |-> regs[p]], p, base) IN
       /\ m' = s.m
       /\ regs' = [regs EXCEPT ![p] = s.r]
       /\ img' = SetImage(img, p, s.r)
       /\ op' = [call |-> "unmap", p |-> p]
  /\ UNCHANGED <<conf, cpu, vmm, grants>>

(* memprotect_create, of proc_create_raw.                                  *)
Create(p) ==
  /\ Running /\ InKernel /\ conf.kind # "vmm"
  /\ p \in conf.procs \ Live
  /\ m' = IF conf.kind = "mmu" THEN memprotect_create(m, conf, p) ELSE m
  /\ regs' = [q \in Live \union {p} |-> IF q = p THEN <<>> ELSE regs[q]]
  /\ img' = [q \in Live \union {p} |->
               IF q = p THEN [i \in 1 .. conf.pmps |-> P!OffAt(0)] ELSE img[q]]
  /\ op' = [call |-> "create", p |-> p]
  /\ UNCHANGED <<conf, cpu, vmm, grants>>

(* proc_delete: all regions are unmapped, memprotect_destroy.  No thread   *)
(* of the process is left.                                                 *)
RECURSIVE UnmapAll(_, _)
UnmapAll(s, p) ==
  IF s.r = <<>> \/ s.m.fault # "none" THEN s
  ELSE UnmapAll(UnmapOne(s, p, s.r[1].vaddr), p)

Delete(p) ==
  /\ Running /\ InKernel /\ Len(regs[p]) <= conf.deletable
  /\ \A c \in conf.cpus : cpu[c].cur # p
  /\ LET s == UnmapAll([m |-> m, r |-> regs[p]], p) IN
     m' = IF conf.kind = "mmu" /\ s.m.fault = "none" THEN memprotect_destroy(s.m, p) ELSE s.m
  /\ regs' = [q \in Live \ {p} |-> regs[q]]
  /\ img' = [q \in Live \ {p} |-> img[q]]
  /\ op' = [call |-> "delete", p |-> p]
  /\ UNCHANGED <<conf, cpu, vmm, grants>>

(* memprotect_k, as the drivers call it.                                   *)
KernelMap ==
  /\ Running /\ conf.kind = "mmu"
  /\ \E q \in conf.kmaps :
       /\ m' = IF KernelRange(conf, q.vpn, q.pages)
               THEN memprotect_k(m, conf, q.vpn, q.ppn, q.pages, q.flags) ELSE m
       /\ op' = [call |-> "kmap", vpn |-> q.vpn, ppn |-> q.ppn, pages |-> q.pages,
                 flags |-> q.flags \cap RWX, ok |-> KernelRange(conf, q.vpn, q.pages)]
  /\ UNCHANGED <<conf, regs, img, cpu, vmm, grants>>

(***************************************************************************)
(* A processor enters the kernel and goes back to a process: then          *)
(* memprotect_swap_from_isr loads the entries of the process.              *)
(***************************************************************************)
Enter(c) ==
  /\ Running /\ cpu[c].mode = "user"
  /\ cpu' = [cpu EXCEPT ![c].mode = "kernel"]
  /\ op' = [call |-> "enter"]
  /\ UNCHANGED <<conf, m, regs, img, vmm, grants>>

memprotect_swap_from_isr(c, p) == img[p]

Return(c) ==
  /\ Running /\ cpu[c].mode = "kernel"
  /\ \E p \in Live : cpu' = [cpu EXCEPT ![c] = [mode |-> "user", cur |-> p,
                                                hw |-> memprotect_swap_from_isr(c, p)]]
  /\ op' = [call |-> "return"]
  /\ UNCHANGED <<conf, m, regs, img, vmm, grants>>

(* A thread switch in the kernel: nothing of the process is used.          *)
Leave(c) ==
  /\ Running /\ cpu[c].mode = "kernel" /\ cpu[c].cur # None
  /\ cpu' = [cpu EXCEPT ![c] = [mode |-> "kernel", cur |-> None, hw |-> <<>>]]
  /\ op' = [call |-> "leave"]
  /\ UNCHANGED <<conf, m, regs, img, vmm, grants>>

AllocVaddr ==
  /\ Running /\ conf.kind = "vmm" /\ Len(vmm.used) < conf.maxused
  /\ \E len \in conf.lens :
       LET pages == V!GuardedPages(len, Page) IN
       /\ vmm' = V!memprotect_alloc_vaddr(vmm, pages)
       /\ grants' = IF V!Fits(vmm, pages) = {} THEN grants
                    ELSE [a \in DOMAIN grants \union {V!AllocatedAt(vmm, pages)} |->
                            IF a = V!AllocatedAt(vmm, pages) THEN len ELSE grants[a]]
  /\ op' = [call |-> "alloc"]
  /\ UNCHANGED <<conf, m, regs, img, cpu>>

FreeVaddr ==
  /\ Running
  /\ \E a \in DOMAIN grants :
       /\ vmm' = V!memprotect_free_vaddr(vmm, a)
       /\ grants' = [b \in DOMAIN grants \ {a} |-> grants[b]]
  /\ op' = [call |-> "free"]
  /\ UNCHANGED <<conf, m, regs, img, cpu>>

Init ==
  /\ conf \in Configs
  /\ m = IF conf.kind = "mmu" THEN memprotect_postheap_init(conf) ELSE NoTables
  /\ regs = [p \in {} |-> <<>>]
  /\ img = [p \in {} |-> <<>>]
  /\ cpu = [c \in conf.cpus |-> [mode |-> "kernel", cur |-> None, hw |-> <<>>]]
  /\ vmm = IF conf.kind = "vmm" THEN V!VmmInit(conf)
           ELSE [free |-> <<>>, used |-> <<>>, fault |-> "none"]
  /\ grants = [a \in {} |-> 0]
  /\ op = NoOp

Next ==
  \/ \E p \in Procs : Create(p)
  \/ \E p \in Live : Map(p)
  \/ \E p \in Live : Unmap(p)
  \/ \E p \in Live : Delete(p)
  \/ KernelMap
  \/ \E c \in conf.cpus : Enter(c)
  \/ \E c \in conf.cpus : Return(c)
  \/ \E c \in conf.cpus : Leave(c)
  \/ AllocVaddr
  \/ FreeVaddr

Spec == Init /\ [][Next]_vars

(* Next does not read op, so states that differ in it alone are one.       *)
NoResults == <<conf, m, regs, img, cpu, vmm, grants>>

(***************************************************************************)
(* Properties.                                                             *)
(***************************************************************************)
TypeOK ==
  /\ conf \in Configs
  /\ DOMAIN regs = DOMAIN img /\ Live \subseteq conf.procs
  /\ \A p \in Live : \A i \in DOMAIN regs[p] : regs[p][i].size \in 1 .. 64
  /\ \A b \in DOMAIN m.blk : m.blk[b] \in {1, 2, 4, 8, 16, 32, 64}
  /\ DOMAIN m.mem \subseteq DOMAIN m.blk
  /\ \A t \in DOMAIN m.mem : m.mem[t] \in [Indices(conf) ->
       [v : BOOLEAN, rwx : SUBSET RWX, u : BOOLEAN, g : BOOLEAN, pbmt : {"PMA", "NC", "IO"}, ppn : 0 .. 255]]
  /\ conf.kind = "mmu" /\ Running => DOMAIN m.root = Live \union {"global"} /\ Range(m.list) = Live
  /\ m.fault \in {"none", "assert", "nomem", "free"}
  /\ vmm.fault \in {"none", "assert", "overrun"}

Lookup(n, p, vpn) == memprotect_virt2phys(n, conf, n.root[p], vpn)
UserPages == 0 .. mmu_half_pages(conf) - 1
KernelPages == mmu_half_pages(conf) .. 2 * mmu_half_pages(conf) - 1
FramesOf(r) == r.paddr .. r.paddr + r.size - 1
Allocated(n) == UNION {b .. b + n.blk[b] - 1 : b \in DOMAIN n.blk}

(* A page that a process can use belongs to one of its regions, every      *)
(* region is memory that the allocator has given out, and no page is in    *)
(* two regions, of one process or of two (proc_map_raw, riscv_pmp_memprotect). *)
FramesOwned ==
  Running =>
    /\ \A p \in Live : \A i \in DOMAIN regs[p] :
         /\ regs[p][i].paddr \in DOMAIN m.blk \ DOMAIN m.mem
         /\ regs[p][i].size <= m.blk[regs[p][i].paddr]
         /\ \A q \in Live : \A j \in DOMAIN regs[q] :
              <<p, i>> # <<q, j>> => regs[p][i].paddr # regs[q][j].paddr
    /\ conf.kind = "mmu" => \A p \in Live :
         LET mapped == {v \in UserPages : Lookup(m, p, v).flags # {}} IN
         \A v \in mapped :
           /\ \E i \in DOMAIN regs[p] : Lookup(m, p, v).ppn \in FramesOf(regs[p][i])
           /\ \A w \in mapped : Lookup(m, p, v).ppn = Lookup(m, p, w).ppn => v = w

(* The tables that pt_walk can reach from a table of a level, with the     *)
(* slots that lead to them.                                                *)
RECURSIVE SlotsFrom(_, _, _)
SlotsFrom(pt, level, from) ==
  LET inner == {i \in Indices(conf) : i >= from /\ m.mem[pt][i].v /\ ~mmu_pte_is_leaf(m.mem[pt][i])}
  IN {<<pt, i>> : i \in inner} \union
     (IF level = 0 THEN {} ELSE UNION {SlotsFrom(m.mem[pt][i].ppn, level - 1, 0) : i \in inner})

(* The tables are trees: no table is reached through two entries, the      *)
(* entries that a context shares with the global table aside, no table of  *)
(* a context is one of another, and the last level has leaves only.  The   *)
(* entries of a superpage are aligned, so pt_walk never panics.            *)
TablesPrivate ==
  conf.kind = "mmu" /\ Running =>
    LET top == conf.levels - 1
        low(p) == {s \in SlotsFrom(m.root[p], top, 0) : ~(s[1] = m.root[p] /\ s[2] >= 2^(conf.bits - 1))}
        own(p) == {s \in low(p) : s \notin SlotsFrom(m.root["global"], top, 0)}
        all == SlotsFrom(m.root["global"], top, 0) \union UNION {own(p) : p \in Live}
        leads(s) == m.mem[s[1]][s[2]].ppn
    IN /\ \A s, t \in all : leads(s) = leads(t) => s = t
       /\ \A x \in Live \union {"global"}, y \in Live \union {"global"} :
            x # y => m.root[x] # m.root[y]
       /\ \A p \in Live \union {"global"}, v \in UserPages \union KernelPages :
            ~pt_walk(m, conf, m.root[p], v).corrupt

(* User mode can use pages of the lower half alone, and the kernel's       *)
(* pages are out of its reach in every context (memprotect_u, _k).         *)
HalvesApart ==
  conf.kind = "mmu" /\ Running => \A p \in Live \union {"global"} :
    /\ \A v \in UserPages : "KERNEL" \notin Lookup(m, p, v).flags
    /\ \A v \in KernelPages : Lookup(m, p, v).flags \in {{}} \union
         {f \union {"GLOBAL", "KERNEL"} : f \in SUBSET RWX}

(* What a context shows of the upper half is what the global table shows,  *)
(* or nothing (memprotect_create copies the top table once).               *)
KernelShared ==
  conf.kind = "mmu" /\ Running => \A p \in Live, i \in {j \in Indices(conf) : j >= 2^(conf.bits - 1)} :
    LET e == m.mem[m.root[p]][i] IN e.v => e = m.mem[m.root["global"]][i]

(* proc_map_contains_raw gives exactly the permissions that every page of  *)
(* the range has.                                                          *)
ContainsExact ==
  conf.kind = "mmu" /\ Running =>
    \A p \in Live, v \in 0 .. Half - 1 : \A n \in 1 .. Half - v :
      proc_map_contains_raw(m, p, v, n) =
        {f \in RWX : \A w \in v \div Page .. (v + n - 1) \div Page : f \in Lookup(m, p, w).flags}

(* In user mode a processor can use exactly the regions of the process     *)
(* that it runs, with the PMP entries that it has loaded.                  *)
UserSeesOwn ==
  Running => \A c \in conf.cpus : cpu[c].mode = "user" =>
    \A w \in 0 .. conf.words - 1 :
      P!UserPerms(P!riscv_pmp_memprotect_swap(cpu[c].hw, conf), w) =
        UNION {P!Perms(regs[cpu[c].cur][i]) : i \in
          {j \in DOMAIN regs[cpu[c].cur] : w \div Page \in FramesOf(regs[cpu[c].cur][j])}}

PagesOf(r) == r[1] .. r[1] + r[2] - 1
Reserved == UNION {r[1] - 1 .. r[1] + r[2] : r \in Range(conf.reserved)}

(* The free and the used ranges, and the reserved ones, are the upper      *)
(* half, without overlap; the free ones are sorted and none touches the    *)
(* next, so the largest range there is can be given out                    *)
(* (memprotect_alloc_vaddr, memprotect_free_vaddr).                        *)
VmmTiles ==
  conf.kind = "vmm" /\ Running =>
    LET all == vmm.free \o vmm.used IN
    /\ UNION {PagesOf(all[i]) : i \in DOMAIN all} =
         (conf.high .. conf.high + conf.half - 1) \ Reserved
    /\ \A i, j \in DOMAIN all : i # j => PagesOf(all[i]) \cap PagesOf(all[j]) = {}
    /\ \A i \in 1 .. Len(vmm.free) - 1 :
         vmm.free[i][1] + vmm.free[i][2] < vmm.free[i + 1][1]

(* The pages of an allocation, and the page on each side of it, are in no  *)
(* other allocation, are not free and not reserved: an access past either  *)
(* end faults (memprotect_alloc_vaddr).                                    *)
GuardsKept ==
  conf.kind = "vmm" /\ Running =>
    LET pages(a) == a .. a + (grants[a] - 1) \div Page
        guarded(a) == a - 1 .. a + (grants[a] - 1) \div Page + 1
    IN \A a \in DOMAIN grants :
         /\ guarded(a) \subseteq (conf.high .. conf.high + conf.half - 1) \ Reserved
         /\ \A b \in DOMAIN grants \ {a} : guarded(a) \cap guarded(b) = {}
         /\ \A i \in DOMAIN vmm.free : guarded(a) \cap PagesOf(vmm.free[i]) = {}

(* A proc_map that succeeds gives every page that was asked for memory of  *)
(* its own that nobody had, with the permissions asked for.                *)
MapGivesMemory ==
  [][op'.call = "map" /\ op'.ok =>
       LET asked == op'.vpn .. op'.vpn + op'.pages - 1
           flags == IF "W" \in op'.flags THEN op'.flags \union {"R"} ELSE op'.flags
       IN IF conf.kind = "mmu"
          THEN /\ \A v \in asked : /\ Lookup(m', op'.p, v).flags = flags
                                   /\ Lookup(m', op'.p, v).ppn \notin Allocated(m)
               /\ \A v, w \in asked : v # w => Lookup(m', op'.p, v).ppn # Lookup(m', op'.p, w).ppn
          ELSE \A v \in asked : v \notin Allocated(m) /\ v \in Allocated(m')]_vars

(* What a process maps and unmaps changes the user pages of no other       *)
(* process, and a mapping changes nothing in the upper half of any.        *)
StepsArePrivate ==
  [][\A q \in Live \cap DOMAIN regs' : op'.call \in {"map", "unmap", "create", "delete", "kmap"} =>
       /\ op'.call = "kmap" \/ q # op'.p =>
            IF conf.kind = "mmu" THEN \A v \in UserPages : Lookup(m', q, v) = Lookup(m, q, v)
            ELSE img'[q] = img[q]
       /\ conf.kind = "mmu" /\ op'.call = "map" =>
            \A v \in KernelPages : Lookup(m', q, v) = Lookup(m, q, v)]_vars

(* A kernel mapping that memprotect_k makes is there in the global table.  *)
KernelMapTakes ==
  [][op'.call = "kmap" /\ op'.ok /\ op'.flags # {} /\ m'.fault = "none" =>
       \A i \in 0 .. op'.pages - 1 :
         LET at == Lookup(m', "global", op'.vpn + i) IN
         at.ppn = op'.ppn + i /\ op'.flags \subseteq at.flags]_vars

(* Every frame has one owner: the allocator, one region of one process, or *)
(* one page table of one address space.                                    *)
FramesSound == TypeOK /\ FramesOwned /\ TablesPrivate

(* What a program can reach is what its map says: its own regions in the   *)
(* lower half, the pages of the kernel, which all spaces share, only from  *)
(* kernel mode.                                                            *)
SpacesSound == HalvesApart /\ KernelShared /\ ContainsExact /\ UserSeesOwn

(* The free and the used ranges of kernel addresses tile what is not       *)
(* reserved, and a used range keeps its guard pages.                       *)
RangesSound == VmmTiles /\ GuardsKept

(* A mapping that is reported as made gives memory that was free and is    *)
(* there afterwards, and changes no other address space.                   *)
MapsTake == MapGivesMemory /\ StepsArePrivate /\ KernelMapTakes

(***************************************************************************)
(* What comments of the code say and the code does not do; README.md names *)
(* the configuration that shows each.                                      *)
(***************************************************************************)
(* proc_unmap_raw: "Revoke user access to the memory."                     *)
UnmapRevokes ==
  [][op'.call = "unmap" => \A v \in UserPages :
       LET at == Lookup(m', op'.p, v) IN
       at.flags # {} => at.ppn \in Allocated(m')]_vars

(* proc_unmap_raw: unmapping memory that was mapped stops nothing.         *)
NoFault == Running

(* memprotect_impl: "Broadcast global changes.", and                       *)
(* MEMPROTECT_FLAG_GLOBAL: "Global mapping; visible in all address spaces." *)
GlobalVisible ==
  conf.kind = "mmu" /\ Running => \A p \in Live, v \in KernelPages :
    Lookup(m, p, v).flags = Lookup(m, "global", v).flags

(* proc_map_raw: "Overlapping virtual address requested" is an error, and  *)
(* a mapping is of the pages that were asked for.                          *)
MapTakesNothing ==
  [][op'.call = "map" /\ conf.kind = "mmu" => \A v \in UserPages :
       Lookup(m, op'.p, v).flags # {} => Lookup(m', op'.p, v) = Lookup(m, op'.p, v)]_vars

(* "Add lower NULLPTR protection range.", which is locked to hold for the  *)
(* kernel as well (memprotect_early_init).                                 *)
NullIsProtected ==
  \A p \in Live, w \in 0 .. conf.null \div 4 - 1 :
    P!KernelPerms(P!riscv_pmp_memprotect_swap(img[p], conf), w) = {}

(* "Split a PTE into the next page table level to allow for edits of       *)
(* superpages": the pages that are not edited stay what they were.         *)
SplitKeeps ==
  [][op'.call = "kmap" => \A v \in KernelPages \ (op'.vpn .. op'.vpn + op'.pages - 1) :
       Lookup(m, "global", v).flags # {} =>
         pt_walk(m', conf, m'.root["global"], v).pte.pbmt = pt_walk(m, conf, m.root["global"], v).pte.pbmt
         /\ Lookup(m', "global", v).ppn = Lookup(m, "global", v).ppn]_vars

=============================================================================
