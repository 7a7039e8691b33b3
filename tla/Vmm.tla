--------------------------------- MODULE Vmm ---------------------------------
(***************************************************************************)
(* The kernel's virtual addresses: vmm_mark_reserved,                      *)
(* memprotect_alloc_vaddr and memprotect_free_vaddr of                     *)
(* kernel/port/generic/src/memprotect.c, as operators on a record          *)
(*    v.free   vmm_free, a sequence of ranges <<vpn, pages>>               *)
(*    v.used   vmm_used                                                    *)
(*    v.fault  the assertion that stopped the kernel, or "none"            *)
(* for a machine c whose upper half is c.half pages from page c.high.      *)
(***************************************************************************)
EXTENDS Integers, Sequences, SequencesExt

Vpn(r) == r[1]
End(r) == r[1] + r[2]

Stop(v, why) == [v EXCEPT !.fault = why]

(* array_binsearch: the first index whose range does not start below vpn.  *)
array_binsearch(s, vpn) == 1 + Len(SelectSeq(s, LAMBDA r : Vpn(r) < vpn))
Found(s, vpn) == \E i \in DOMAIN s : Vpn(s[i]) = vpn

(* The clamp to the end counts bytes, so it never bites.                   *)
vmm_mark_reserved(v, c, vpn0, pages0) ==
  LET vpn == IF vpn0 < c.high THEN c.high ELSE vpn0
      pages == IF vpn0 < c.high THEN pages0 - (c.high - vpn0) ELSE pages0
      at == array_binsearch(v.free, vpn)
      i == IF Found(v.free, vpn) THEN at ELSE at - 1
      r == v.free[i]
      left == <<Vpn(r), vpn - Vpn(r)>>
      right == <<vpn + pages, End(r) - (vpn + pages)>>
  IN IF i = 0 THEN Stop(v, "assert")
     ELSE IF vpn + pages > End(r) THEN Stop(v, "assert")
     ELSE [v EXCEPT !.free =
             CASE left[2] = 0 /\ right[2] = 0 -> RemoveAt(@, i)
               [] left[2] > 0 /\ right[2] > 0 -> InsertAt([@ EXCEPT ![i] = left], i + 1, right)
               [] left[2] > 0 /\ right[2] = 0 -> [@ EXCEPT ![i] = left]
               [] left[2] = 0 /\ right[2] > 0 -> [@ EXCEPT ![i] = right]]

(* memprotect_postheap_init: all free but the kernel and the HHDM.         *)
VmmInit(c) ==
  FoldLeft(LAMBDA v, r : IF v.fault = "none" THEN vmm_mark_reserved(v, c, Vpn(r) - 1, r[2] + 2) ELSE v,
           [free |-> <<<<c.high, c.half>>>>, used |-> <<>>, fault |-> "none"], c.reserved)

(* The pages that hold len bytes, with a guard page on each side.          *)
GuardedPages(len, page) == (len - 1) \div page + 3

Fits(v, pages) == {i \in DOMAIN v.free : v.free[i][2] >= pages}

memprotect_alloc_vaddr(v, pages) ==
  LET i == CHOOSE j \in Fits(v, pages) : \A k \in Fits(v, pages) : j <= k
      r == v.free[i]
  IN IF Fits(v, pages) = {} THEN Stop(v, "assert")
     ELSE [v EXCEPT !.used = InsertAt(@, array_binsearch(@, Vpn(r)), <<Vpn(r), pages>>),
                    !.free = IF r[2] > pages
                             THEN [@ EXCEPT ![i] = <<Vpn(r) + pages, r[2] - pages>>]
                             ELSE RemoveAt(@, i)]

(* The address that memprotect_alloc_vaddr returns, as a page.             *)
AllocatedAt(v, pages) ==
  1 + Vpn(v.free[CHOOSE j \in Fits(v, pages) : \A k \in Fits(v, pages) : j <= k])

NeverBoth(s, r, i) ==  \* mutant: ranges on both sides are not merged
  LET left == i > 1 /\ End(s[i - 1]) = Vpn(r)
  IN IF left THEN [s EXCEPT ![i - 1] = <<Vpn(@), End(r) - Vpn(@)>>]
     ELSE IF End(r) = Vpn(s[i]) THEN [s EXCEPT ![i] = <<Vpn(r), @[2] + Vpn(@) - Vpn(r)>>]
     ELSE InsertAt(s, i, r)

Insert(s, r, i) ==
  LET left == i > 1 /\ End(s[i - 1]) = Vpn(r)
      right == End(r) = Vpn(s[i])
  IN IF left /\ right
     THEN RemoveAt([s EXCEPT ![i - 1] = <<Vpn(@), End(s[i]) - Vpn(@)>>], i)
     ELSE IF left THEN [s EXCEPT ![i - 1] = <<Vpn(@), End(r) - Vpn(@)>>]
     ELSE IF right THEN [s EXCEPT ![i] = <<Vpn(r), @[2] + Vpn(@) - Vpn(r)>>]
     ELSE InsertAt(s, i, r)

(* vmm_free[res.index] is read also when res.index is vmm_free_len.        *)
memprotect_free_vaddr(v, vaddr) ==
  LET vpn == vaddr - 1
      j == array_binsearch(v.used, vpn)
      i == array_binsearch(v.free, vpn)
  IN IF ~Found(v.used, vpn) THEN Stop(v, "assert")
     ELSE IF i > Len(v.free) THEN Stop(v, "overrun")
     ELSE [v EXCEPT !.used = RemoveAt(@, j), !.free = Insert(@, v.used[j], i)]

=============================================================================
