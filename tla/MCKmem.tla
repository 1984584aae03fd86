------------------------------- MODULE MCKmem -------------------------------
(***************************************************************************)
(* kmem.c on small memory maps, against module Allocator.                  *)
(***************************************************************************)
EXTENDS Kmem, FiniteSetsExt

Ram(base, length) ==
  [base |-> base, length |-> length, type |-> REGION_USABLE, acpi |-> {"IGNORE"}]

(* Regions that straddle the cutoffs, out of address order, of a length or *)
(* base that is no multiple of a page, and regions km_init must skip.  No  *)
(* two usable regions touch: add_block does not merge them.                *)
TwoRegions ==
  << [Ram(12, 4) EXCEPT !.type = 2], Ram(16, 40), Ram(0, 12),
     [Ram(40, 8) EXCEPT !.acpi = {}], Ram(50, 8), Ram(0, 2) >>

Unaligned ==
  << Ram(21, 14), [Ram(8, 8) EXCEPT !.acpi = {"IGNORE", "NONVOL"}], Ram(5, 9) >>

BiosMaps == {TwoRegions, Unaligned, << >>}

FreeSet == UNION {Pages(b, blk[b].pages) : b \in DOMAIN blk}

-----------------------------------------------------------------------------
(* The page list: in address order, without overlap, and fully coalesced.  *)
(* Every header leads to the next higher one, beyond the end of its block  *)
(* and not adjacent to it, and free_pages to the lowest; n_pages counts    *)
(* the pages of all blocks.                                                *)
PageListSound ==
  /\ IF blk = << >> THEN free_pages = NULL
     ELSE free_pages = Min(DOMAIN blk)
  /\ \A b \in DOMAIN blk :
       LET higher == {c \in DOMAIN blk : c > b} IN
       IF higher = {} THEN blk[b].next = NULL
       ELSE blk[b].next = Min(higher) /\ EndOf(b) < Min(higher)
  /\ n_pages = Cardinality(FreeSet)

(* The loops of add_block and km_page_free_multi, and of km_page_alloc,    *)
(* run on the links themselves.                                            *)
Walked(a) ==
  LET n == Cardinality(DOMAIN blk)
      at[i \in 0..n] ==
        IF i = 0 THEN <<NULL, free_pages>>
        ELSE LET c == at[i - 1][2] IN
             IF c = NULL \/ c >= a THEN at[i - 1] ELSE <<c, blk[c].next>>
  IN at[n]

Searched(count) ==
  LET n == Cardinality(DOMAIN blk)
      at[i \in 0..n] ==
        IF i = 0 THEN free_pages
        ELSE LET c == at[i - 1] IN
             IF c = NULL \/ blk[c].pages >= count THEN c ELSE blk[c].next
  IN at[n]

(* Prev, Curr and FirstFit say where those loops end, for every address a  *)
(* block that is not on the list can have and every count.                 *)
LoopsEndThere ==
  /\ \A a \in held :
       /\ Prev(a) = {Walked(a)[1]} \ {NULL}
       /\ Curr(a) = Walked(a)[2]
  /\ \A n \in Counts \ {0} :
       Searched(n) = IF LargeEnough(n) = {} THEN NULL ELSE FirstFit(n)

A == INSTANCE Allocator WITH
       free <- FreeSet, sfree <- {free_slices[i] : i \in DOMAIN free_slices}

(* Every step of kmem.c is a step of the abstract allocator: allocations   *)
(* return memory nobody holds, the lowest run that is long enough, and     *)
(* NULL only when no such run exists; slices are never handed out twice.   *)
ImplementsAllocator == A!ASpec
=============================================================================
