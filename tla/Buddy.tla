-------------------------------- MODULE Buddy --------------------------------
(***************************************************************************)
(* The buddy allocator of kernel/src/malloc/static-buddy.c, as operators   *)
(* on pools.  A block is named by the index of its first page.  Only the   *)
(* fields of blocks that are in a list or given out matter: the others are *)
(* never read before they are written, and are 0 here.                     *)
(***************************************************************************)
EXTENDS Integers, Sequences, FiniteSets, SequencesExt, FiniteSetsExt

CONSTANTS BlockBytes,  \* sizeof(buddy_block_t)
          SizeMod      \* size_t counts modulo this

ASSUME BuddyAssumption == BlockBytes \in Nat \ {0} /\ SizeMod \in Nat \ {0}

PageSize == 4096

CeilDiv(a, b) == (a + b - 1) \div b

(* get_order: the order of the smallest block of at least n pages.         *)
Order(n) == CHOOSE k \in 0 .. n : 2^k >= n /\ (k > 0 => 2^(k - 1) < n)

Pages(size) == CeilDiv(size, PageSize)

(* index ^ (1 << order)                                                    *)
BuddyOf(i, k) == IF (i \div 2^k) % 2 = 0 THEN i + 2^k ELSE i - 2^k

(***************************************************************************)
(* init_pool, of total pages that start at a page boundary.  The metadata  *)
(* is zeroed; blocks[2^max] is read by try_merge_buddy and lies in the     *)
(* padding behind the array.  No page is marked when waste > pages: then   *)
(* the loop starts at a size_t close to its maximum.                       *)
(***************************************************************************)
Overhead(total) ==
  CeilDiv(BlockBytes * BlockBytes * (Order(total) + 1) + BlockBytes * total, PageSize)

WasteAtTotal(total, pages, waste) == total  \* mutant: no page is marked

WasteFrom(total, pages, waste) ==
  IF pages >= waste THEN pages - waste ELSE total

InitPool(total) ==
  LET max == Order(total)
      pages == total - Overhead(total)
      waste == 2^max - pages
  IN [max |-> max, total |-> total, pages |-> pages, waste |-> waste,
      first |-> WasteFrom(total, pages, waste),
      freePages |-> pages, maxFree |-> max,
      order |-> [i \in 0 .. 2^max |-> IF i = 0 THEN max ELSE 0],
      listed |-> {0},
      free |-> [k \in 0 .. max |-> IF k = max THEN <<0>> ELSE <<>>],
      wasted |-> <<>>,
      type |-> [i \in 0 .. 2^max |-> "FREE"]]

IsWaste(p, i) == p.first <= i /\ i < p.total

(* list_push_back to the list that the block belongs to, and list_remove.  *)
Push(p, i) ==
  LET k == p.order[i] IN
  IF IsWaste(p, i)
  THEN [p EXCEPT !.listed = @ \union {i}, !.wasted = Append(@, i)]
  ELSE [p EXCEPT !.listed = @ \union {i}, !.free[k] = Append(@, i)]

Unlist(p, i) ==
  [p EXCEPT !.listed = @ \ {i}, !.wasted = Remove(@, i),
            !.free = [k \in DOMAIN @ |-> Remove(@[k], i)]]

(***************************************************************************)
(* buddy_allocate.                                                         *)
(***************************************************************************)
(* split_block, until the block has order k.                               *)
SplitTo(p, i, k) ==
  LET split[j \in k .. p.max] ==  \* after the splits down to order j
        IF j = p.order[i] THEN p
        ELSE LET q == split[j + 1]
                 b == BuddyOf(i, j)
             IN Push([q EXCEPT !.order[i] = j, !.order[b] = j], b)
  IN split[k]

(* pool_find_block: the block of the lowest order, from the end of its     *)
(* list, in which n pages are not waste; {} if there is none.              *)
Fits(p, i, n) == ~IsWaste(p, i + n - 1)

FindBlock(p, n) ==
  LET fit(a) == {j \in DOMAIN p.free[a] : Fits(p, p.free[a][j], n)}
      orders == {a \in Order(n) .. p.max : fit(a) # {}}
  IN IF orders = {} THEN {} ELSE {p.free[Min(orders)][Max(fit(Min(orders)))]}

(* max_order_free is lowered to the highest order with a free block.       *)
LowerMaxFree(p) ==
  [p EXCEPT !.maxFree = Max({0} \union {k \in 0 .. @ : p.free[k] # <<>>})]

TakeBlock(p, i, n, type) ==
  LET q == LowerMaxFree(SplitTo(Unlist(p, i), i, Order(n)))
  IN [q EXCEPT !.freePages = (@ - 2^Order(n)) % SizeMod, !.type[i] = type]

(* find_pool, and the test of the largest order, which compares a size in  *)
(* bytes with a number of pages.                                           *)
Eligible(p, size) ==
  LET n == Pages(size) IN
  /\ p.maxFree >= Order(n) /\ p.freePages >= n
  /\ Order(n) = p.max => size <= 2^p.max - p.waste
  /\ FindBlock(p, n) # {}

Found(pools, size) ==
  {<<x, i>> \in (DOMAIN pools) \X (0 .. Max({2^pools[y].max : y \in DOMAIN pools})) :
     /\ x = Min({y \in DOMAIN pools : Eligible(pools[y], size)} \union {Len(pools) + 1})
     /\ i \in FindBlock(pools[x], Pages(size))}

(* The pools after the block at <<x, i>> was taken.                        *)
Take(pools, at, size, type) ==
  [pools EXCEPT ![at[1]] = TakeBlock(@, at[2], Pages(size), type)]

(***************************************************************************)
(* buddy_deallocate: merges the block with its buddy as long as that is    *)
(* free, and lists the result.                                             *)
(***************************************************************************)
MergeTaken(p, i) ==  \* mutant: in_list is not tested
  p.order[BuddyOf(i, p.order[i])] = p.order[i]

CanMerge(p, i) ==
  LET b == BuddyOf(i, p.order[i]) IN
  b <= p.pages + p.waste /\ p.order[b] = p.order[i] /\ b \in p.listed

MergeUp(p, i) ==
  LET merge[k \in 0 .. p.max + 1] ==  \* <<pool, block>> when the block has order k
        IF k = p.order[i] THEN <<p, i>>
        ELSE LET q == merge[k - 1][1]
                 j == merge[k - 1][2]
                 b == BuddyOf(j, k - 1)
             IN IF q.order[j] = k - 1 /\ CanMerge(q, j)
                THEN <<[Unlist(q, b) EXCEPT !.order[Min({j, b})] = k,
                                            !.order[Max({j, b})] = 0], Min({j, b})>>
                ELSE <<q, j>>
  IN merge[p.max + 1]

RaiseMaxFree(p, i) ==
  IF IsWaste(p, i) THEN p ELSE [p EXCEPT !.maxFree = Max({@, p.order[i]})]

Give(p, i) ==
  LET q == [p EXCEPT !.freePages = (@ + 2^p.order[i]) % SizeMod, !.type[i] = "FREE"]
      m == MergeUp(q, i)
  IN Push(RaiseMaxFree(m[1], m[2]), m[2])

Deallocate(pools, at) == [pools EXCEPT ![at[1]] = Give(@, at[2])]

(* buddy_get_size, in bytes.                                               *)
BlockSize(pools, at) == 2^pools[at[1]].order[at[2]] * PageSize

BlockType(pools, at) == pools[at[1]].type[at[2]]
=============================================================================
