-------------------------------- MODULE Kmem --------------------------------
(***************************************************************************)
(* kmem.c: the page and the slice allocator, on the links of their free    *)
(* lists.  Addresses count slices, as in module Allocator, which states    *)
(* what this module implements.                                            *)
(*                                                                         *)
(* The header of a free block lives in the block.  `blk' holds the headers *)
(* of the blocks on free_pages; memory that is handed out, or inside a     *)
(* block, has no header a function of kmem.c may read.                     *)
(***************************************************************************)
EXTENDS Integers, Sequences, FiniteSets

CONSTANTS
  Maps,              \* the memory maps the BIOS may report
  KM_LOW_CUTOFF,     \* memory below this address is not used,
  KM_HIGH_CUTOFF,    \* nor above this one
  Counts,            \* arguments of km_page_alloc, km_page_free_multi
  MaxCarved          \* no more than this many pages are cut into slices

NULL == 0
SZ_SLICE == 1
SZ_PAGE == 4

(* region_t: the two ACPI flags km_init tests, and the region type.        *)
REGION_USABLE == 1
Region == [base : Nat, length : Nat, type : 1..5, acpi : SUBSET {"IGNORE", "NONVOL"}]

Usable(r) ==
  "IGNORE" \in r.acpi /\ "NONVOL" \notin r.acpi /\ r.type = REGION_USABLE

(* What km_init uses of a region: from BaseOf up to Endpt.                 *)
BaseOf(r) == IF r.base < KM_LOW_CUTOFF THEN KM_LOW_CUTOFF ELSE r.base
Endpt(r) ==
  IF r.base + r.length >= KM_HIGH_CUTOFF THEN KM_HIGH_CUTOFF ELSE r.base + r.length
Skipped(r) == ~Usable(r) \/ r.base > KM_HIGH_CUTOFF \/ Endpt(r) < KM_LOW_CUTOFF

ASSUME KmemAssumption ==
  /\ \A m \in Maps : m \in Seq(Region)
  /\ KM_LOW_CUTOFF \in Nat \ {0} /\ KM_HIGH_CUTOFF \in Nat
  /\ KM_LOW_CUTOFF <= KM_HIGH_CUTOFF
  /\ Counts \subseteq Nat /\ MaxCarved \in Nat

(* What kmem.c takes for granted of the BIOS: the whole pages of two       *)
(* regions it uses neither overlap nor touch.  add_block neither checks    *)
(* nor merges; a usable region ends where one of another type begins.      *)
WholePages(r) == (Endpt(r) - BaseOf(r)) \div SZ_PAGE
Yields(r) == ~Skipped(r) /\ WholePages(r) > 0
Below(r, s) == BaseOf(r) + SZ_PAGE * WholePages(r) < BaseOf(s)
Spaced(m) ==
  \A i, j \in DOMAIN m :
    i # j /\ Yields(m[i]) /\ Yields(m[j]) => Below(m[i], m[j]) \/ Below(m[j], m[i])

ASSUME MapsAssumption == \A m \in Maps : Spaced(m)

VARIABLES
  regions,           \* the entries km_init has not looked at yet
  km_initialized,
  free_pages,        \* head of the page list
  blk,               \* the headers of its blocks
  n_pages,
  free_slices,       \* the slice list, head first
  n_slices,
  held, sheld,       \* pages and slices in the hands of callers
  ret,               \* result of the last allocation
  panicked

pages == <<free_pages, blk, n_pages>>
slices == <<free_slices, n_slices, sheld>>
boot == <<regions, km_initialized>>
kvars == <<boot, pages, slices, held, ret, panicked>>

Pages(a, n) == {a + SZ_PAGE * i : i \in 0..n-1}
EndOf(a) == a + SZ_PAGE * blk[a].pages      \* first address after block a

-----------------------------------------------------------------------------
(* The walks over the page list.                                           *)

(* Where "while( curr != NULL && curr < a )" stops: the block before the   *)
(* place of a, if any, and the block after it.                             *)
Prev(a) ==
  {b \in DOMAIN blk : b < a /\ (blk[b].next = NULL \/ blk[b].next >= a)}

Curr(a) ==
  IF Prev(a) = {} THEN free_pages ELSE blk[CHOOSE b \in Prev(a) : TRUE].next

(* The blocks on which "while( block->pages < count )" would stop; the     *)
(* list is in address order, so it stops at the lowest.                    *)
LargeEnough(count) == {b \in DOMAIN blk : blk[b].pages >= count}

FirstFit(count) ==
  CHOOSE b \in LargeEnough(count) : \A c \in LargeEnough(count) : b <= c

(* Every link to b now leads to c.                                         *)
Redirect(f, b, c) ==
  [x \in DOMAIN f |-> IF f[x].next = b THEN [f[x] EXCEPT !.next = c] ELSE f[x]]

(* A new block between Prev(a) and Curr(a).                                *)
Linked(a, n) ==
  [b \in DOMAIN blk \cup {a} |->
     IF b = a THEN [pages |-> n, next |-> Curr(a)]
     ELSE IF b \in Prev(a) THEN [blk[b] EXCEPT !.next = a]
     ELSE blk[b]]

(* Mutant: a new block always becomes the first.                           *)
HeadWith_Front(a) == a

HeadWith(a) == IF Prev(a) = {} THEN a ELSE free_pages

-----------------------------------------------------------------------------
(* km_init.                                                                *)

add_block(base, length) ==
  LET n == length \div SZ_PAGE IN
  IF length < SZ_PAGE THEN UNCHANGED pages
  ELSE /\ free_pages' = HeadWith(base)
       /\ blk' = Linked(base, n)
       /\ n_pages' = IF free_pages = NULL THEN n ELSE n_pages + n

(* One turn of km_init's loop.                                             *)
InitRegion ==
  /\ ~km_initialized /\ regions # <<>>
  /\ LET r == Head(regions) IN
     IF Skipped(r) THEN UNCHANGED pages
     ELSE add_block(BaseOf(r), Endpt(r) - BaseOf(r))
  /\ regions' = Tail(regions)
  /\ km_initialized' = (Len(regions) = 1)
  /\ UNCHANGED <<slices, held, ret, panicked>>

-----------------------------------------------------------------------------
(* The operations.                                                         *)

Running == km_initialized /\ ~panicked

(* What taking `count' pages off block b leaves.                           *)
Taken(b, count) ==
  LET exact == blk[b].pages = count
      fragment == b + SZ_PAGE * count
      rest == IF exact THEN blk[b].next ELSE fragment
      others == Redirect(blk, b, rest)
  IN [head |-> IF free_pages = b THEN rest ELSE free_pages,
      blk |-> [x \in (DOMAIN blk \ {b}) \cup (IF exact THEN {} ELSE {fragment}) |->
                 IF x = fragment /\ ~exact
                 THEN [pages |-> blk[b].pages - count, next |-> blk[b].next]
                 ELSE others[x]]]

TakePages(b, count) ==
  /\ free_pages' = Taken(b, count).head
  /\ blk' = Taken(b, count).blk
  /\ n_pages' = n_pages - count

km_page_alloc(count) ==
  /\ Running
  /\ IF count < 1 \/ LargeEnough(count) = {}
     THEN ret' = NULL /\ UNCHANGED <<pages, held>>
     ELSE LET b == FirstFit(count) IN
          /\ TakePages(b, count)
          /\ held' = held \cup Pages(b, count)
          /\ ret' = b
  /\ UNCHANGED <<boot, slices, panicked>>

(* Mutant: a block is not merged with the one before it.                   *)
MergedLeft_Never(a, count) == Linked(a, count)

(* Inserted, and merged with the block before it if they touch ...         *)
MergedLeft(a, count) ==
  IF \E p \in Prev(a) : EndOf(p) = a
  THEN [b \in DOMAIN blk |->
          IF b \in Prev(a) THEN [blk[b] EXCEPT !.pages = @ + count] ELSE blk[b]]
  ELSE Linked(a, count)

(* Mutant: a block is not merged with the one after it.                    *)
MergedRight_Never(f, used, curr) == f

(* ... and then, as block `used', with the one after it.                   *)
MergedRight(f, used, curr) ==
  IF curr = NULL \/ used + SZ_PAGE * f[used].pages # curr THEN f
  ELSE [b \in DOMAIN f \ {curr} |->
          IF b = used THEN [pages |-> f[used].pages + f[curr].pages,
                            next |-> f[curr].next]
          ELSE f[b]]

km_page_free_multi(a, count) ==
  /\ Running
  /\ Pages(a, count) \subseteq held
  /\ LET used == IF \E p \in Prev(a) : EndOf(p) = a
                 THEN CHOOSE p \in Prev(a) : TRUE ELSE a
     IN blk' = MergedRight(MergedLeft(a, count), used, Curr(a))
  /\ free_pages' = HeadWith(a)
  /\ n_pages' = n_pages + count
  /\ held' = held \ Pages(a, count)
  /\ UNCHANGED <<boot, slices, ret, panicked>>

km_page_free(a) == km_page_free_multi(a, 1)

(* A page is cut into four slices, each put at the front of the list, and  *)
(* counted twice, by km_slice_free and by the loop; the last is taken.     *)
carve_slices ==
  IF LargeEnough(1) = {}
  THEN panicked' = TRUE /\ UNCHANGED <<pages, slices, ret>>
  ELSE LET p == FirstFit(1) IN
       /\ TakePages(p, 1)
       /\ free_slices' = <<p + 2 * SZ_SLICE, p + SZ_SLICE, p>>
       /\ n_slices' = n_slices + 8 - 1
       /\ sheld' = sheld \cup {p + 3 * SZ_SLICE}
       /\ ret' = p + 3 * SZ_SLICE
       /\ UNCHANGED panicked

Carved == (Cardinality(sheld) + Len(free_slices)) \div 4

km_slice_alloc ==
  /\ Running
  /\ IF free_slices = <<>>
     THEN Carved < MaxCarved /\ carve_slices
     ELSE /\ ret' = Head(free_slices)
          /\ free_slices' = Tail(free_slices)
          /\ n_slices' = n_slices - 1
          /\ sheld' = sheld \cup {Head(free_slices)}
          /\ UNCHANGED <<pages, panicked>>
  /\ UNCHANGED <<boot, held>>

km_slice_free(s) ==
  /\ Running /\ s \in sheld
  /\ free_slices' = <<s>> \o free_slices
  /\ n_slices' = n_slices + 1
  /\ sheld' = sheld \ {s}
  /\ UNCHANGED <<boot, pages, held, ret, panicked>>

(* assert( km_initialized ): an allocation when the BIOS reported nothing. *)
AllocTooEarly ==
  /\ ~km_initialized /\ regions = <<>> /\ ~panicked
  /\ panicked' = TRUE
  /\ UNCHANGED <<boot, pages, slices, held, ret>>

Halted == panicked /\ UNCHANGED kvars

KInit ==
  /\ regions \in Maps /\ km_initialized = FALSE
  /\ free_pages = NULL /\ blk = << >> /\ n_pages = 0
  /\ free_slices = << >> /\ n_slices = 0
  /\ held = {} /\ sheld = {} /\ ret = NULL /\ panicked = FALSE

PageAlloc == \E n \in Counts : km_page_alloc(n)
PageFree == \E a \in held : km_page_free(a)
PageFreeMulti == \E a \in held, n \in Counts \ {0} : km_page_free_multi(a, n)
SliceFree == \E s \in sheld : km_slice_free(s)

KNext ==
  \/ InitRegion \/ PageAlloc \/ PageFree \/ PageFreeMulti
  \/ km_slice_alloc \/ SliceFree \/ AllocTooEarly \/ Halted

KSpec == KInit /\ [][KNext]_kvars
=============================================================================
