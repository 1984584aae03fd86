----------------------------- MODULE Allocator -----------------------------
(***************************************************************************)
(* What the dynamic memory of the kernel promises its callers (the header  *)
(* comment of kmem.c), without the free lists.  Memory is counted in       *)
(* slices, a page is four of them, and an address is a positive number.    *)
(***************************************************************************)
EXTENDS Integers, TLAPS

CONSTANT Counts       \* arguments of km_page_alloc and km_page_free_multi

VARIABLES
  free,     \* the free pages
  held,     \* the pages in the hands of callers
  sfree,    \* the free slices
  sheld,    \* the slices in the hands of callers
  ret       \* what the last allocation returned

avars == <<free, held, sfree, sheld, ret>>

NULL == 0
SZ_SLICE == 1
SZ_PAGE == 4

(* The n pages that begin at address a, and the slices of page a.          *)
Run(a, n) == {a + SZ_PAGE * i : i \in 0..n-1}
SlicesOf(a) == {a + SZ_SLICE * i : i \in 0..3}

AInit ==
  free = {} /\ held = {} /\ sfree = {} /\ sheld = {} /\ ret = NULL

(* Two pages without a byte in common.                                     *)
Disjoint(x, y) == x + SZ_PAGE <= y \/ y + SZ_PAGE <= x

(* At boot the memory map yields more pages.                               *)
Grow ==
  /\ held = {} /\ sfree = {} /\ sheld = {}
  /\ free \subseteq free' /\ free' \subseteq Nat \ {NULL}
  /\ \A x, y \in free' : x = y \/ Disjoint(x, y)
  /\ UNCHANGED <<held, sfree, sheld, ret>>

Fits(n) == {a \in free : Run(a, n) \subseteq free}

(* The lowest n consecutive free pages; NULL only if there are none.       *)
Alloc(n) ==
  \/ /\ n > 0
     /\ \E a \in Fits(n) :
          /\ \A b \in Fits(n) : a <= b
          /\ free' = free \ Run(a, n)
          /\ held' = held \cup Run(a, n)
          /\ ret' = a
     /\ UNCHANGED <<sfree, sheld>>
  \/ /\ n = 0 \/ Fits(n) = {}
     /\ ret' = NULL
     /\ UNCHANGED <<free, held, sfree, sheld>>

Free(a, n) ==
  /\ Run(a, n) \subseteq held
  /\ held' = held \ Run(a, n)
  /\ free' = free \cup Run(a, n)
  /\ UNCHANGED <<sfree, sheld, ret>>

(* A free slice ...                                                        *)
SliceGrant ==
  /\ \E s \in sfree :
       /\ sfree' = sfree \ {s}
       /\ sheld' = sheld \cup {s}
       /\ ret' = s
  /\ UNCHANGED <<free, held>>

(* ... or, if there is none, one of a page that is cut up for good.        *)
SliceCarve ==
  /\ sfree = {}
  /\ \E p \in free : \E s \in SlicesOf(p) :
       /\ free' = free \ {p}
       /\ sfree' = SlicesOf(p) \ {s}
       /\ sheld' = sheld \cup {s}
       /\ ret' = s
  /\ UNCHANGED held

SliceReturn(s) ==
  /\ s \in sheld
  /\ sheld' = sheld \ {s}
  /\ sfree' = sfree \cup {s}
  /\ UNCHANGED <<free, held, ret>>

ANext ==
  \/ Grow
  \/ \E n \in Counts : Alloc(n)
  \/ \E n \in Counts \cup {1} : \E a \in held : Free(a, n)
  \/ SliceGrant
  \/ SliceCarve
  \/ \E s \in sheld : SliceReturn(s)

ASpec == AInit /\ [][ANext]_avars

-----------------------------------------------------------------------------
(* No byte is in two hands: a page is free or held by one caller, a slice  *)
(* likewise, and neither two pages nor a page and a slice overlap.         *)
Separate ==
  /\ free \cup held \subseteq Nat \ {NULL} /\ sfree \cup sheld \subseteq Nat \ {NULL}
  /\ free \cap held = {} /\ sfree \cap sheld = {}
  /\ \A x, y \in free \cup held : x = y \/ Disjoint(x, y)
  /\ \A s \in sfree \cup sheld, x \in free \cup held : s < x \/ x + SZ_PAGE <= s

(* Every operation of the allocator keeps the memory of its callers apart. *)
LEMMA SeparateKept ==
  Separate /\ [ANext]_avars => Separate'
<1> SUFFICES ASSUME Separate, [ANext]_avars PROVE Separate'
  OBVIOUS
<1> USE DEF Separate, NULL
<1>1. CASE Grow
  BY <1>1 DEF Grow
<1>2. ASSUME NEW n \in Counts, Alloc(n) PROVE Separate'
  <2>1. CASE UNCHANGED <<free, held, sfree, sheld>>
    BY <2>1 DEF Disjoint
  <2>2. CASE \E a \in Fits(n) :
               free' = free \ Run(a, n) /\ held' = held \cup Run(a, n)
               /\ UNCHANGED <<sfree, sheld>>
    <3>1. free' \cup held' = free \cup held /\ free' \cap held' = {}
      BY <2>2 DEF Fits
    <3> QED
      BY <2>2, <3>1 DEF Disjoint
  <2> QED
    BY <1>2, <2>1, <2>2 DEF Alloc
<1>3. ASSUME NEW n \in Counts \cup {1}, NEW a \in held, Free(a, n) PROVE Separate'
  <2>1. free' \cup held' = free \cup held /\ free' \cap held' = {}
    BY <1>3 DEF Free
  <2> QED
    BY <1>3, <2>1 DEF Free, Disjoint
<1>4. CASE SliceGrant
  BY <1>4 DEF SliceGrant, Disjoint
<1>5. CASE SliceCarve
  <2> PICK p \in free : \E s \in SlicesOf(p) :
         /\ free' = free \ {p} /\ sfree' = SlicesOf(p) \ {s}
         /\ sheld' = sheld \cup {s} /\ held' = held
    BY <1>5 DEF SliceCarve
  <2>1. PICK s \in SlicesOf(p) :
          /\ free' = free \ {p} /\ sfree' = SlicesOf(p) \ {s}
          /\ sheld' = sheld \cup {s} /\ held' = held
    OBVIOUS
  <2>2. \A t \in SlicesOf(p) : t \in Nat \ {NULL} /\ p <= t /\ t < p + SZ_PAGE
    BY DEF SlicesOf, SZ_SLICE, SZ_PAGE
  <2>3. \A x \in (free \cup held) \ {p} : Disjoint(p, x)
    OBVIOUS
  <2>4. \A x \in free' \cup held' : x \in free \cup held /\ x # p
    BY <2>1
  <2>5. \A t \in SlicesOf(p), x \in free' \cup held' : t < x \/ x + SZ_PAGE <= t
    BY <2>2, <2>3, <2>4 DEF Disjoint, SZ_PAGE
  <2>6. sfree' \cap sheld' = {}
    <3>1. \A t \in sheld : t < p \/ p + SZ_PAGE <= t
      OBVIOUS
    <3>2. \A t \in sheld : t \notin SlicesOf(p)
      BY <3>1, <2>2 DEF SZ_PAGE
    <3> QED
      BY <2>1, <3>2
  <2>7. \A t \in sfree' \cup sheld' : t \in SlicesOf(p) \/ t \in sheld
    BY <2>1
  <2> QED
    BY <2>1, <2>2, <2>4, <2>5, <2>6, <2>7 DEF Disjoint
<1>6. ASSUME NEW s \in sheld, SliceReturn(s) PROVE Separate'
  <2>1. sfree' \cup sheld' = sfree \cup sheld /\ sfree' \cap sheld' = {}
    BY <1>6 DEF SliceReturn
  <2> QED
    BY <1>6, <2>1 DEF SliceReturn, Disjoint
<1>7. CASE UNCHANGED avars
  BY <1>7 DEF avars, Disjoint
<1> QED
  BY <1>1, <1>2, <1>3, <1>4, <1>5, <1>6, <1>7 DEF ANext

(* What the callers of kmem.c rely on, from the promise alone.             *)
THEOREM MemorySeparate == ASpec => []Separate
<1>1. AInit => Separate
  BY DEF AInit, Separate, Disjoint
<1> QED
  BY <1>1, SeparateKept, PTL DEF ASpec
=============================================================================
