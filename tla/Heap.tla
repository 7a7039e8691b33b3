--------------------------------- MODULE Heap --------------------------------
(***************************************************************************)
(* The kernel heap: slabs (slab-alloc.c) on top of the buddy allocator,    *)
(* malloc and its relatives (malloc.c) and the page allocator that the     *)
(* memory maps use (page_alloc.c).                                         *)
(*                                                                         *)
(* mem is the allocator's state: the pools, the slab lists of each size    *)
(* class and the headers of the slab pages.  A page is <<pool, index>>, an *)
(* address is <<pool, index, slot>> with slot 0 for the page itself.       *)
(* grants are the addresses that callers own, with the size they asked     *)
(* for.  malloc holds its spinlock throughout; phys_page_alloc takes no    *)
(* lock: it finds a block and takes it in two steps, and others get in     *)
(* between if conf.race.                                                   *)
(***************************************************************************)
EXTENDS Buddy

CONSTANTS SlabClasses,   \* a sequence of [bytes, limits]: slab_bytes, slab_tresholds
          KernelTables,  \* the kernel's own table, in the same form
          Configs        \* the instances: [pools, sizes, counts, race, grants]

VARIABLES conf, mem, grants, found

vars == <<conf, mem, grants, found>>

MaxSlab == 256
DataOffset == 64
Capacity(c) == SlabClasses[c].limits[4]

(***************************************************************************)
(* The tables must describe pages that hold their slots, with room in      *)
(* every list below the full one.  Checked of the kernel's tables too.     *)
(***************************************************************************)
GoodTable(t) ==
  \A c \in DOMAIN t :
    LET l == t[c].limits IN
    /\ l[1] = 0 /\ 1 < l[2] /\ l[2] < l[3] /\ l[3] < l[4]
    /\ DataOffset + l[4] * t[c].bytes <= PageSize

ASSUME SlabAssumption == GoodTable(SlabClasses) /\ GoodTable(KernelTables)

(***************************************************************************)
(* slab-alloc.c.  A header: the size class, the use count, the list that   *)
(* the page is in, and the free slots (the bits of the bitmap).            *)
(***************************************************************************)
InitSlab(c) == [size |-> c, use |-> 1, list |-> 1, slots |-> 1 .. Capacity(c)]

AddPage(m, page, c) ==
  [m EXCEPT !.hdr = [q \in DOMAIN @ \union {page} |-> IF q = page THEN InitSlab(c) ELSE @[q]],
            !.slabs[c][1] = Append(@, page)]

(* get_slab: the last page of the fullest list that is not full, moved to  *)
(* the next list at the threshold; else a new page.  {} if there is none.  *)
FullestList(m, c) == Max({-1} \union {i \in 0 .. 3 : m.slabs[c][i] # <<>>})

UsePage(m, page, i) ==
  LET c == m.hdr[page].size
      n == [m EXCEPT !.hdr[page].use = @ + 1]
  IN IF n.hdr[page].use >= SlabClasses[c].limits[i + 1]
     THEN [n EXCEPT !.slabs[c][i] = Remove(@, page),
                    !.slabs[c][i + 1] = Append(@, page),
                    !.hdr[page].list = @ + 1]
     ELSE n

GetSlab(m, c) ==
  LET i == FullestList(m, c) IN
  IF i >= 0
  THEN LET page == Last(m.slabs[c][i]) IN {[page |-> page, m |-> UsePage(m, page, i)]}
  ELSE {[page |-> at,
         m |-> AddPage([m EXCEPT !.pools = Take(@, at, PageSize, "SLAB")], at, c)] :
        at \in Found(m.pools, PageSize)}

(* slab_allocate: the lowest free slot of that page.  The set holds the    *)
(* outcome, [at, m], and is empty when the result is NULL.  A page without *)
(* a free slot is reported and NULL returned.                              *)
SlabAllocate(m, size) ==
  LET c == Min({d \in DOMAIN SlabClasses : size <= SlabClasses[d].bytes}) IN
  {[at |-> Append(g.page, Min(g.m.hdr[g.page].slots)),
    m |-> [g.m EXCEPT !.hdr[g.page].slots = @ \ {Min(@)}]] :
     g \in {h \in GetSlab(m, c) : h.m.hdr[h.page].slots # {}}}

(* slab_deallocate: to the emptier list at the threshold; a page that is   *)
(* empty goes back to the pool if the list has an empty page already.      *)
DropHeader(m, page) ==
  [m EXCEPT !.hdr = [q \in DOMAIN @ \ {page} |-> @[q]]]

LowerPage(m, page) ==
  LET c == m.hdr[page].size
      i == m.hdr[page].list
      n == [m EXCEPT !.slabs[c][i] = Remove(@, page), !.hdr[page].list = i - 1]
  IN IF i > 1 \/ n.slabs[c][0] = <<>>
     THEN [n EXCEPT !.slabs[c][i - 1] = Append(@, page)]
     ELSE DropHeader([n EXCEPT !.pools = Deallocate(@, page)], page)

SlabDeallocate(m, a) ==
  LET page == <<a[1], a[2]>>
      h == m.hdr[page]
      n == [m EXCEPT !.hdr[page].slots = @ \union {a[3]}, !.hdr[page].use = @ - 1]
  IN IF a[3] \in h.slots THEN m  \* double free, reported
     ELSE IF h.use - 1 <= SlabClasses[h.size].limits[h.list] THEN LowerPage(n, page) ELSE n

(***************************************************************************)
(* malloc.c                                                                *)
(***************************************************************************)
BuddyAllocate(m, size, type) ==
  {[at |-> Append(at, 0), m |-> [m EXCEPT !.pools = Take(@, at, size, type)]] :
     at \in Found(m.pools, size)}

Alloc(m, size) ==  \* _malloc
  LET n == Max({size, 1}) IN
  IF n <= MaxSlab THEN SlabAllocate(m, n) ELSE BuddyAllocate(m, n, "PAGE")

Page(a) == <<a[1], a[2]>>

Dealloc(m, a) ==  \* _free of an address that was granted
  CASE BlockType(m.pools, Page(a)) = "PAGE" -> [m EXCEPT !.pools = Deallocate(@, Page(a))]
    [] BlockType(m.pools, Page(a)) = "SLAB" -> SlabDeallocate(m, a)
    [] OTHER -> m

SizeOf(m, a) ==
  IF BlockType(m.pools, Page(a)) = "SLAB" THEN SlabClasses[m.hdr[Page(a)].size].bytes
  ELSE BlockSize(m.pools, Page(a))

(* buddy_reallocate keeps a block whose order does not change.             *)
BuddyReallocate(m, a, size) ==
  IF m.pools[a[1]].order[a[2]] = Order(Pages(size)) THEN {[at |-> a, m |-> m]}
  ELSE {[at |-> g.at, m |-> [g.m EXCEPT !.pools = Deallocate(@, Page(a))]] :
          g \in BuddyAllocate(m, size, BlockType(m.pools, Page(a)))}

Reallocate(m, a, size) ==
  IF SizeOf(m, a) >= size /\ SizeOf(m, a) > MaxSlab /\ size > MaxSlab
  THEN BuddyReallocate(m, a, size)
  ELSE {[at |-> g.at, m |-> Dealloc(g.m, a)] : g \in Alloc(m, size)}

(***************************************************************************)
(* The calls.                                                              *)
(***************************************************************************)
Owned == DOMAIN grants
Grant(g, a, n) == [b \in DOMAIN g \union {a} |-> IF b = a THEN n ELSE g[b]]
Drop(g, a) == [b \in DOMAIN g \ {a} |-> g[b]]
Alone == (found = {} \/ conf.race) /\ UNCHANGED <<conf, found>>

Init ==
  /\ conf \in Configs
  /\ mem = [pools |-> [x \in DOMAIN conf.pools |-> InitPool(conf.pools[x])],
            slabs |-> [c \in DOMAIN SlabClasses |-> [i \in 0 .. 4 |-> <<>>]],
            hdr |-> <<>>]
  /\ grants = <<>> /\ found = {}

(* kernel_heap_init has run.  malloc, aligned_alloc, posix_memalign and    *)
(* calloc differ in what they do with the memory only.                     *)
Malloc(size) ==
  /\ Cardinality(Owned) < conf.grants
  /\ LET r == Alloc(mem, size) IN
     \/ r = {} /\ UNCHANGED <<mem, grants>> /\ Alone
     \/ \E g \in r : /\ mem' = g.m /\ grants' = Grant(grants, g.at, size)
                     /\ Alone

ByFree(a) == BlockType(mem.pools, Page(a)) # "USER"

Free(a) ==
  /\ ByFree(a)
  /\ mem' = Dealloc(mem, a) /\ grants' = Drop(grants, a) /\ Alone

(* realloc(NULL, n) is Malloc and realloc(p, 0) is Free.                   *)
Realloc(a, size) ==
  /\ ByFree(a) /\ size > 0
  /\ LET r == Reallocate(mem, a, size) IN
     \/ r = {} /\ UNCHANGED <<mem, grants>> /\ Alone
     \/ \E g \in r : /\ mem' = g.m /\ grants' = Grant(Drop(grants, a), g.at, size)
                     /\ Alone

(* phys_page_alloc for user memory: finds a block, then takes it.  Where   *)
(* another CPU got in between, list_remove of a block that left its list   *)
(* changes no list here.                                                   *)
PhysFind(n) ==
  /\ found = {} /\ Cardinality(Owned) < conf.grants
  /\ found' = {[at |-> at, n |-> n] : at \in Found(mem.pools, n * PageSize)}
  /\ UNCHANGED <<conf, mem, grants>>

PhysTake ==
  \E f \in found :
    /\ mem' = [mem EXCEPT !.pools = Take(@, f.at, f.n * PageSize, "USER")]
    /\ grants' = Grant(grants, Append(f.at, 0), f.n * PageSize)
    /\ found' = {}
    /\ UNCHANGED conf

PhysFree(a) ==  \* phys_page_free
  /\ ~ByFree(a)
  /\ mem' = [mem EXCEPT !.pools = Deallocate(@, Page(a))]
  /\ grants' = Drop(grants, a) /\ Alone

Next ==
  \/ \E size \in conf.sizes : Malloc(size)
  \/ \E a \in Owned : Free(a)
  \/ \E a \in Owned, size \in conf.sizes : Realloc(a, size)
  \/ \E n \in conf.counts : PhysFind(n)
  \/ PhysTake
  \/ \E a \in Owned : PhysFree(a)

Spec == Init /\ [][Next]_vars

(***************************************************************************)
(* Properties                                                              *)
(***************************************************************************)
Pools == mem.pools
Heads(p) == p.listed \union {i \in DOMAIN p.type : p.type[i] # "FREE"}
Extent(p, i) == i .. i + 2^p.order[i] - 1

(* Types of the allocator's state: orders, list entries and counts are in  *)
(* range, and a slab page is in a list that exists.                        *)
TypeOK ==
  /\ \A x \in DOMAIN Pools : LET p == Pools[x] IN
       /\ p.order \in [0 .. 2^p.max -> 0 .. p.max] /\ p.listed \subseteq 0 .. 2^p.max - 1
       /\ p.freePages \in 0 .. SizeMod - 1 /\ p.maxFree \in 0 .. p.max
       /\ p.type \in [0 .. 2^p.max -> {"FREE", "PAGE", "SLAB", "USER"}]
  /\ \A q \in DOMAIN mem.hdr : mem.hdr[q].list \in 0 .. 4

(* Free, waste and given-out blocks tile every pool: split_block and       *)
(* try_merge_buddy never lose or duplicate a page, blocks are aligned to   *)
(* their size, and each listed block is in one list, that of its order.    *)
BlocksTile ==
  \A x \in DOMAIN Pools : LET p == Pools[x] IN
    /\ \A j \in 0 .. 2^p.max - 1 : Cardinality({i \in Heads(p) : j \in Extent(p, i)}) = 1
    /\ \A i \in Heads(p) : i % 2^p.order[i] = 0
    /\ \A i \in p.listed :
         /\ p.type[i] = "FREE"
         /\ IF IsWaste(p, i) THEN i \in ToSet(p.wasted) ELSE i \in ToSet(p.free[p.order[i]])
    /\ Len(p.wasted) + FoldSet(LAMBDA k, s : s + Len(p.free[k]), 0, 0 .. p.max)
         = Cardinality(p.listed)

(* Deallocation leaves no two free buddies of one order apart ("this means *)
(* that at any time we have the largest possible allocation available").   *)
BuddiesMerged ==
  \A x \in DOMAIN Pools : LET p == Pools[x] IN
    \A i \in p.listed : p.order[i] < p.max =>
      LET b == BuddyOf(i, p.order[i]) IN ~(b \in p.listed /\ p.order[b] = p.order[i])

(* An allocation of n pages succeeds whenever some pool has an aligned run *)
(* of free pages for it: the summary that find_pool reads, max_order_free  *)
(* and free_pages, never hides a block.  (A request of the largest order   *)
(* is always refused.)                                                     *)
FreePage(p, j) == \E i \in p.listed : j \in Extent(p, i)
AllocationComplete ==
  \A n \in conf.counts : Found(Pools, n * PageSize) = {} =>
    \A x \in DOMAIN Pools : LET p == Pools[x] IN
      ~ \E i \in 0 .. 2^p.max - 1 :
          /\ Order(n) < p.max /\ i % 2^Order(n) = 0 /\ ~IsWaste(p, i + n - 1)
          /\ \A j \in i .. i + 2^Order(n) - 1 : FreePage(p, j)

(* What callers own never overlaps, and lies in the pages of the pool: the *)
(* waste behind its end is never part of what was asked for.               *)
Bytes(a) ==  \* <<pool, first byte, one past the last>>
  IF a[3] = 0 THEN <<a[1], a[2] * PageSize, a[2] * PageSize + grants[a]>>
  ELSE LET c == SlabClasses[mem.hdr[Page(a)].size].bytes
           s == a[2] * PageSize + DataOffset + (a[3] - 1) * c
       IN <<a[1], s, s + c>>
GrantsDisjoint ==
  \A a \in Owned :
    /\ a[3] # 0 => Page(a) \in DOMAIN mem.hdr
    /\ Bytes(a)[3] <= Pools[a[1]].pages * PageSize
    /\ Bytes(a)[3] - Bytes(a)[2] >= grants[a]
    /\ \A b \in Owned \ {a} : Bytes(a)[1] = Bytes(b)[1] =>
         Bytes(a)[3] <= Bytes(b)[2] \/ Bytes(b)[3] <= Bytes(a)[2]

(* A slab page's use count is the number of its slots that callers own, it *)
(* is in the list that its header names, has a free slot unless that is    *)
(* the full one (so slab_allocate never meets a page without a slot), and  *)
(* at most one page of a class is kept empty.                              *)
SlabsCounted ==
  \A q \in DOMAIN mem.hdr : LET h == mem.hdr[q] IN
    /\ h.use = Cardinality({a \in Owned : Page(a) = q})
    /\ h.use = Capacity(h.size) - Cardinality(h.slots)
    /\ q \in ToSet(mem.slabs[h.size][h.list])
    /\ (h.list = 4) <=> (h.slots = {})
    /\ (h.list = 0) <=> (h.use = 0)
    /\ Len(mem.slabs[h.size][0]) <= 1

(* Nothing leaks: each block that is not listed is owned by a caller or a  *)
(* slab page that has a header, and free_pages counts exactly the others,  *)
(* also after a realloc that failed half way.                              *)
NothingLeaks ==
  \A x \in DOMAIN Pools : LET p == Pools[x]
                              held == {i \in DOMAIN p.type : p.type[i] # "FREE"} IN
    /\ \A i \in held : \/ p.type[i] = "SLAB" /\ <<x, i>> \in DOMAIN mem.hdr
                       \/ p.type[i] # "SLAB" /\ <<x, i, 0>> \in Owned
    /\ p.freePages = (p.pages - FoldSet(LAMBDA i, s : s + 2^p.order[i], 0, held)) % SizeMod

(* The buddy allocator stays whole: blocks tile the pool, free buddies are *)
(* merged, and a request is refused only when no aligned run of free pages *)
(* could serve it.                                                         *)
PoolsSound == TypeOK /\ BlocksTile /\ BuddiesMerged /\ AllocationComplete

(* What callers own never overlaps, what they do not own is free again,    *)
(* and slab pages are counted and listed by what is owned of them.         *)
GrantsSound == GrantsDisjoint /\ SlabsCounted /\ NothingLeaks

(* "A waste page is a page that the buddy allocator tracks, but will never *)
(* actually give out to callers" (static-buddy.c:54): no page of a block   *)
(* that a caller owns, all of which phys_page_size tells it about, lies    *)
(* behind the last page of the pool.                                       *)
WasteNotGivenOut ==
  \A x \in DOMAIN Pools : LET p == Pools[x] IN
    \A i \in DOMAIN p.type : p.type[i] # "FREE" => \A j \in Extent(p, i) : j < p.pages
=============================================================================
