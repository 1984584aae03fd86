----------------------------- MODULE KmemProofs -----------------------------
(***************************************************************************)
(* For every memory map, cutoff and argument: the page list of kmem.c is   *)
(* sound in every state, and kmem.c implements module Allocator.           *)
(***************************************************************************)
EXTENDS MCKmem, ProofBasics, FiniteSetTheorems, TLAPS

-----------------------------------------------------------------------------
(* A page list, given by its headers f and its head h: in address order,   *)
(* without overlap, every header leading to the next higher one.           *)

Header == [pages : Nat \ {0}, next : Nat]
End(f, b) == b + SZ_PAGE * f[b].pages

LinksUp(f, b) ==
  \/ f[b].next = NULL /\ \A c \in DOMAIN f : c <= b
  \/ /\ f[b].next \in DOMAIN f /\ b < f[b].next
     /\ \A c \in DOMAIN f : c <= b \/ f[b].next <= c

IsList(f, h) ==
  /\ f \in [DOMAIN f -> Header] /\ DOMAIN f \subseteq Nat \ {0}
  /\ IF DOMAIN f = {} THEN h = NULL
     ELSE h \in DOMAIN f /\ \A b \in DOMAIN f : h <= b
  /\ \A b \in DOMAIN f : LinksUp(f, b)
  /\ \A b, c \in DOMAIN f : b < c => End(f, b) <= c

(* No block ends where another begins.                                     *)
Coalesced(f) == \A b, c \in DOMAIN f : End(f, b) # c

(* The free pages, and memory that is in none of the blocks.               *)
FreeOf(f) == UNION {Pages(b, f[b].pages) : b \in DOMAIN f}
Apart(a, n, f) == \A b \in DOMAIN f : a + SZ_PAGE * n <= b \/ End(f, b) <= a

LEMMA InPages ==
  ASSUME NEW a \in Nat, NEW n \in Nat, NEW x
  PROVE  x \in Pages(a, n) <=>
           \E i \in Nat : i < n /\ x = a + SZ_PAGE * i
BY DEF Pages, SZ_PAGE

LEMMA InFree ==
  ASSUME NEW f, f \in [DOMAIN f -> Header], DOMAIN f \subseteq Nat, NEW x
  PROVE  x \in FreeOf(f) <=>
           \E b \in DOMAIN f : \E i \in Nat :
             i < f[b].pages /\ x = b + SZ_PAGE * i
<1>1. x \in FreeOf(f) <=> \E b \in DOMAIN f : x \in Pages(b, f[b].pages)
  BY DEF FreeOf
<1>2. ASSUME NEW b \in DOMAIN f
      PROVE  x \in Pages(b, f[b].pages) <=>
               \E i \in Nat : i < f[b].pages /\ x = b + SZ_PAGE * i
  <2> b \in Nat /\ f[b].pages \in Nat
    BY DEF Header
  <2> QED
    BY InPages
<1> QED
  BY <1>1, <1>2

(* n pages are n pages.                                                    *)
LEMMA PagesCount ==
  ASSUME NEW a \in Nat, NEW n \in Nat
  PROVE  IsFiniteSet(Pages(a, n)) /\ Cardinality(Pages(a, n)) = n
<1> DEFINE g == [i \in 0..n-1 |-> a + SZ_PAGE * i]
<1>1. g \in Bijection(0..n-1, Pages(a, n))
  <2>1. g \in [0..n-1 -> Pages(a, n)]
    BY DEF Pages
  <2>2. \A i, j \in 0..n-1 : g[i] = g[j] => i = j
    BY DEF SZ_PAGE
  <2>3. \A t \in Pages(a, n) : \E i \in 0..n-1 : g[i] = t
    BY DEF Pages
  <2> QED
    BY <2>1, <2>2, <2>3 DEF Bijection, Injection, Surjection, IsInjective
<1>2. ExistsBijection(0..n-1, Pages(a, n))
  BY <1>1 DEF ExistsBijection
<1>3. IsFiniteSet(0..n-1) /\ Cardinality(0..n-1) = n
  BY FS_Interval
<1> QED
  BY <1>2, <1>3, FS_Bijection

(* Where the walk to address a ends: at the header before a, if there is   *)
(* one, and the header after it.                                           *)
LEMMA WalkEnds ==
  ASSUME IsList(blk, free_pages), NEW a \in Nat \ {0}, a \notin DOMAIN blk
  PROVE  \/ /\ Prev(a) = {} /\ Curr(a) = free_pages
            /\ \A b \in DOMAIN blk : a < b
         \/ \E p \in DOMAIN blk :
              /\ Prev(a) = {p} /\ Curr(a) = blk[p].next /\ p < a
              /\ \A b \in DOMAIN blk : b <= p \/ a < b
<1> USE DEF IsList, NULL
<1>1. CASE \E b \in DOMAIN blk : b < a
  <2> DEFINE T == {b \in DOMAIN blk : b < a}
  <2>1. PICK p \in T : \A b \in T : b <= p
    BY <1>1, GreatestBelow
  <2>2. Prev(a) = {p}
    BY <2>1 DEF Prev, LinksUp
  <2>3. Curr(a) = blk[p].next
    BY <2>2 DEF Curr
  <2> QED
    BY <2>1, <2>2, <2>3
<1>2. CASE ~ \E b \in DOMAIN blk : b < a
  BY <1>2 DEF Prev, Curr
<1> QED
  BY <1>1, <1>2

(* add_block, and km_page_free_multi where nothing can be merged: memory   *)
(* that is in no block becomes a block of its own.                         *)
LEMMA LinkedIsList ==
  ASSUME IsList(blk, free_pages), NEW a \in Nat \ {0}, NEW n \in Nat \ {0},
         Apart(a, n, blk)
  PROVE  /\ IsList(Linked(a, n), HeadWith(a))
         /\ DOMAIN Linked(a, n) = DOMAIN blk \cup {a}
         /\ Linked(a, n)[a] = [pages |-> n, next |-> Curr(a)]
         /\ \A b \in DOMAIN blk :
              b # a /\ Linked(a, n)[b].pages = blk[b].pages
<1> DEFINE L == Linked(a, n)
<1>1. a \notin DOMAIN blk
  BY DEF Apart, End, IsList, Header, SZ_PAGE
<1>2. \A b \in DOMAIN blk : b \in Nat /\ b > 0 /\ blk[b] \in Header
  BY DEF IsList
<1>3. DOMAIN L = DOMAIN blk \cup {a} /\ L[a] = [pages |-> n, next |-> Curr(a)]
  BY DEF Linked
<1>4. ASSUME NEW b \in DOMAIN blk
      PROVE  /\ b # a
             /\ L[b] = IF b \in Prev(a) THEN [pages |-> blk[b].pages, next |-> a]
                       ELSE blk[b]
             /\ L[b].pages = blk[b].pages /\ L[b].next \in {a, blk[b].next}
  <2>1. blk[b] = [pages |-> blk[b].pages, next |-> blk[b].next]
    BY <1>2 DEF Header
  <2> QED
    BY <1>1, <2>1 DEF Linked
<1>5. free_pages \in Nat /\ Curr(a) \in Nat
  <2>1. free_pages \in Nat
    BY DEF IsList, NULL
  <2> QED
    BY <1>1, <1>2, <2>1, WalkEnds DEF Header
<1>6. L \in [DOMAIN L -> Header] /\ DOMAIN L \subseteq Nat \ {0}
  <2>1. \A b \in DOMAIN L : L[b] \in Header
    BY <1>2, <1>3, <1>4, <1>5 DEF Header
  <2>2. L = [b \in DOMAIN L |-> L[b]]
    BY DEF Linked
  <2> QED
    BY <1>2, <1>3, <2>1, <2>2
<1>7. HeadWith(a) \in DOMAIN L /\ \A b \in DOMAIN L : HeadWith(a) <= b
  <2>1. CASE Prev(a) = {} /\ \A b \in DOMAIN blk : a < b
    BY <2>1, <1>2, <1>3 DEF HeadWith
  <2>2. ASSUME NEW p \in DOMAIN blk, Prev(a) = {p}, p < a
        PROVE  HeadWith(a) \in DOMAIN L /\ \A b \in DOMAIN L : HeadWith(a) <= b
    <3>1. HeadWith(a) = free_pages
      BY <2>2 DEF HeadWith
    <3>2. free_pages \in DOMAIN blk /\ \A b \in DOMAIN blk : free_pages <= b
      BY <2>2 DEF IsList
    <3>3. free_pages <= a
      BY <2>2, <3>2, <1>2
    <3> QED
      BY <3>1, <3>2, <3>3, <1>3
  <2> QED
    BY <2>1, <2>2, <1>1, WalkEnds
<1>8. ASSUME NEW b \in DOMAIN L PROVE LinksUp(L, b)
  <2>1. CASE /\ Prev(a) = {} /\ Curr(a) = free_pages
             /\ \A c \in DOMAIN blk : a < c
    BY <2>1, <1>1, <1>2, <1>3, <1>4, <1>5 DEF LinksUp, IsList, NULL
  <2>2. ASSUME NEW p \in DOMAIN blk, Prev(a) = {p}, Curr(a) = blk[p].next, p < a,
               \A c \in DOMAIN blk : c <= p \/ a < c
        PROVE  LinksUp(L, b)
    <3>1. LinksUp(blk, p)
      BY DEF IsList
    <3>2. CASE b = a
      BY <3>1, <3>2, <2>2, <1>1, <1>2, <1>3, <1>4, <1>5 DEF LinksUp, NULL
    <3>3. CASE b = p
      BY <3>3, <2>2, <1>1, <1>2, <1>3, <1>4, <1>5 DEF LinksUp
    <3>4. CASE b \in DOMAIN blk /\ b # p
      <4>1. LinksUp(blk, b) /\ L[b] = blk[b]
        BY <3>4, <2>2, <1>4 DEF IsList
      <4>2. CASE blk[b].next = NULL /\ \A c \in DOMAIN blk : c <= b
        BY <4>1, <4>2, <3>4, <2>2, <1>2, <1>3 DEF LinksUp, NULL
      <4>3. CASE /\ blk[b].next \in DOMAIN blk /\ b < blk[b].next
                 /\ \A c \in DOMAIN blk : c <= b \/ blk[b].next <= c
        BY <4>1, <4>3, <3>4, <2>2, <1>2, <1>3 DEF LinksUp
      <4> QED
        BY <4>1, <4>2, <4>3 DEF LinksUp
    <3> QED
      BY <3>2, <3>3, <3>4, <1>3
  <2> QED
    BY <2>1, <2>2, <1>1, WalkEnds
<1>9. \A b \in DOMAIN blk : End(L, b) = End(blk, b)
  BY <1>2, <1>4 DEF End, Header
<1>10. ASSUME NEW b \in DOMAIN L, NEW c \in DOMAIN L, b < c
       PROVE  End(L, b) <= c
  <2>1. End(L, a) = a + SZ_PAGE * n
    BY <1>3 DEF End
  <2>2. \A d \in DOMAIN blk : End(blk, d) \in Nat /\ End(blk, d) > d
    BY <1>2 DEF End, Header, SZ_PAGE
  <2>3. CASE b = a
    BY <2>1, <2>2, <2>3, <1>2, <1>3, <1>10 DEF Apart, SZ_PAGE
  <2>4. CASE b # a /\ c = a
    BY <2>2, <2>4, <1>2, <1>3, <1>9, <1>10 DEF Apart, SZ_PAGE
  <2>5. CASE b # a /\ c # a
    BY <2>5, <1>3, <1>9, <1>10 DEF IsList
  <2> QED
    BY <2>3, <2>4, <2>5
<1>11. \A b \in DOMAIN blk : b # a /\ L[b].pages = blk[b].pages
  BY <1>4
<1> HIDE DEF L
<1>12. IsList(L, HeadWith(a))
  BY <1>6, <1>7, <1>8, <1>10 DEF IsList
<1> QED
  BY <1>3, <1>11, <1>12 DEF L

(* The blocks have positive lengths.                                       *)
LEMMA BlockTypes ==
  ASSUME NEW f, NEW h, IsList(f, h), NEW b \in DOMAIN f
  PROVE  /\ b \in Nat /\ b > 0
         /\ f[b] = [pages |-> f[b].pages, next |-> f[b].next]
         /\ f[b].pages \in Nat /\ f[b].pages > 0 /\ f[b].next \in Nat
         /\ End(f, b) \in Nat /\ End(f, b) > b
BY DEF IsList, Header, End, SZ_PAGE

(* A run of n + m pages is a run of n pages and the m pages after it.      *)
LEMMA PagesJoin ==
  ASSUME NEW a \in Nat, NEW n \in Nat, NEW m \in Nat
  PROVE  Pages(a, n + m) = Pages(a, n) \cup Pages(a + SZ_PAGE * n, m)
<1>1. a + SZ_PAGE * n \in Nat /\ n + m \in Nat
  BY DEF SZ_PAGE
<1>2. ASSUME NEW x \in Pages(a, n + m)
      PROVE  x \in Pages(a, n) \cup Pages(a + SZ_PAGE * n, m)
  <2>1. PICK i \in Nat : i < n + m /\ x = a + SZ_PAGE * i
    BY <1>1, InPages
  <2>2. CASE i < n
    BY <2>1, <2>2, InPages
  <2>3. CASE ~(i < n)
    <3>1. i - n \in Nat /\ i - n < m /\ x = (a + SZ_PAGE * n) + SZ_PAGE * (i - n)
      BY <2>1, <2>3 DEF SZ_PAGE
    <3> QED
      BY <3>1, <1>1, InPages
  <2> QED
    BY <2>2, <2>3
<1>3. ASSUME NEW x \in Pages(a, n) PROVE x \in Pages(a, n + m)
  BY <1>1, InPages
<1>4. ASSUME NEW x \in Pages(a + SZ_PAGE * n, m) PROVE x \in Pages(a, n + m)
  <2>1. PICK i \in Nat : i < m /\ x = (a + SZ_PAGE * n) + SZ_PAGE * i
    BY <1>1, InPages
  <2>2. i + n \in Nat /\ i + n < n + m /\ x = a + SZ_PAGE * (i + n)
    BY <2>1 DEF SZ_PAGE
  <2> QED
    BY <2>2, <1>1, InPages
<1> QED
  BY <1>2, <1>3, <1>4

(* Blocks of the same lengths hold the same pages.                         *)
LEMMA FreeOfSame ==
  ASSUME NEW f, NEW g, DOMAIN f = DOMAIN g,
         \A b \in DOMAIN f : f[b].pages = g[b].pages
  PROVE  FreeOf(f) = FreeOf(g)
BY DEF FreeOf

LEMMA LinkedFree ==
  ASSUME IsList(blk, free_pages), NEW a \in Nat \ {0}, NEW n \in Nat \ {0},
         Apart(a, n, blk)
  PROVE  FreeOf(Linked(a, n)) = FreeOf(blk) \cup Pages(a, n)
<1> DEFINE L == Linked(a, n)
<1>1. /\ DOMAIN L = DOMAIN blk \cup {a} /\ L[a] = [pages |-> n, next |-> Curr(a)]
      /\ \A b \in DOMAIN blk : b # a /\ L[b].pages = blk[b].pages
  BY LinkedIsList
<1> HIDE DEF L
<1> QED
  BY <1>1 DEF FreeOf, L

-----------------------------------------------------------------------------
(* km_page_free_multi.                                                     *)

Touches(a) == \E p \in Prev(a) : EndOf(p) = a
Used(a) == IF Touches(a) THEN CHOOSE p \in Prev(a) : TRUE ELSE a

(* After the merge with the predecessor only the block that now holds the  *)
(* freed pages can touch the block after it.                               *)
LEMMA MergedLeftIsList ==
  ASSUME IsList(blk, free_pages), Coalesced(blk),
         NEW a \in Nat \ {0}, NEW n \in Nat \ {0}, Apart(a, n, blk)
  PROVE  LET f == MergedLeft(a, n) IN
         /\ IsList(f, HeadWith(a))
         /\ Used(a) \in DOMAIN f /\ f[Used(a)].next = Curr(a)
         /\ \A b, c \in DOMAIN f : End(f, b) = c => b = Used(a)
         /\ FreeOf(f) = FreeOf(blk) \cup Pages(a, n)
<1> DEFINE f == MergedLeft(a, n)
<1>1. a \notin DOMAIN blk
  BY DEF Apart, End, IsList, Header, SZ_PAGE
<1>2. \A b \in DOMAIN blk : EndOf(b) = End(blk, b)
  BY DEF EndOf, End
<1>3. CASE ~Touches(a)
  <2>1. f = Linked(a, n) /\ Used(a) = a
    BY <1>3 DEF MergedLeft, Used, Touches
  <2> HIDE DEF f
  <2>2. /\ IsList(f, HeadWith(a)) /\ DOMAIN f = DOMAIN blk \cup {a}
        /\ f[a] = [pages |-> n, next |-> Curr(a)]
        /\ \A b \in DOMAIN blk : b # a /\ f[b].pages = blk[b].pages
    BY <2>1, LinkedIsList, ZenonT(30)
  <2>3. ASSUME NEW b \in DOMAIN blk, End(blk, b) = a PROVE FALSE
    <3>1. b < a
      BY <2>3, BlockTypes
    <3>2. PICK p \in DOMAIN blk :
            Prev(a) = {p} /\ p < a /\ \A c \in DOMAIN blk : c <= p \/ a < c
      BY <1>1, <3>1, WalkEnds, BlockTypes
    <3>3. b <= p
      BY <3>1, <3>2, BlockTypes
    <3>4. b = p
      BY <2>3, <3>1, <3>2, <3>3, BlockTypes DEF IsList
    <3> QED
      BY <3>2, <3>4, <2>3, <1>2, <1>3 DEF Touches
  <2>4. \A b \in DOMAIN blk : End(f, b) = End(blk, b)
    BY <2>2 DEF End
  <2>5. \A b, c \in DOMAIN f : End(f, b) = c => b = a
    BY <2>2, <2>3, <2>4 DEF Coalesced
  <2>6. FreeOf(f) = FreeOf(blk) \cup Pages(a, n)
    BY <2>1, LinkedFree
  <2> QED
    BY <2>1, <2>2, <2>5, <2>6 DEF f
<1>4. CASE Touches(a)
  <2>1. PICK p \in DOMAIN blk :
          /\ Prev(a) = {p} /\ Curr(a) = blk[p].next /\ p < a
          /\ \A b \in DOMAIN blk : b <= p \/ a < b
    BY <1>1, <1>4, WalkEnds DEF Touches
  <2>2. Used(a) = p /\ End(blk, p) = a /\ HeadWith(a) = free_pages
    BY <1>2, <1>4, <2>1 DEF Touches, Used, HeadWith
  <2>3. /\ DOMAIN f = DOMAIN blk
        /\ f[p] = [pages |-> blk[p].pages + n, next |-> blk[p].next]
        /\ \A b \in DOMAIN blk : b # p => f[b] = blk[b]
    <3>1. f = [b \in DOMAIN blk |->
                IF b = p THEN [blk[b] EXCEPT !.pages = @ + n] ELSE blk[b]]
      BY <1>4, <2>1 DEF MergedLeft, Touches
    <3>2. blk[p] = [pages |-> blk[p].pages, next |-> blk[p].next]
      BY BlockTypes
    <3> QED
      BY <3>1, <3>2
  <2>4. f \in [DOMAIN f -> Header]
    <3>1. \A b \in DOMAIN f : f[b] \in Header
      BY <2>3, BlockTypes DEF Header, IsList
    <3>2. f = [b \in DOMAIN f |-> f[b]]
      BY <1>4 DEF MergedLeft, Touches
    <3> QED
      BY <3>1, <3>2
  <2> HIDE DEF f
  <2>5. \A b \in DOMAIN f : LinksUp(f, b)
    <3>1. \A b \in DOMAIN f : f[b].next = blk[b].next
      BY <2>3
    <3> QED
      BY <2>3, <3>1 DEF LinksUp, IsList
  <2>6. End(f, p) = a + SZ_PAGE * n /\ \A b \in DOMAIN f : b # p => End(f, b) = End(blk, b)
    <3>1. blk[p].pages \in Nat /\ p \in Nat
      BY BlockTypes
    <3> QED
      BY <2>2, <2>3, <3>1 DEF End, SZ_PAGE
  <2>7. ASSUME NEW b \in DOMAIN f, NEW c \in DOMAIN f, b < c
        PROVE  End(f, b) <= c
    <3>1. CASE b = p
      <4>1. ~(c <= p) /\ End(blk, c) > c
        BY <3>1, <2>3, <2>7, BlockTypes
      <4>2. a < c
        BY <4>1, <2>1, <2>3
      <4> QED
        BY <4>1, <4>2, <3>1, <2>3, <2>6, BlockTypes DEF Apart, SZ_PAGE
    <3>2. CASE b # p
      BY <3>2, <2>3, <2>6, <2>7 DEF IsList
    <3> QED
      BY <3>1, <3>2
  <2>8. IsList(f, HeadWith(a))
    BY <2>2, <2>3, <2>4, <2>5, <2>7 DEF IsList
  <2>9. \A b, c \in DOMAIN f : End(f, b) = c => b = p
    BY <2>3, <2>6 DEF Coalesced
  <2>10. FreeOf(f) = FreeOf(blk) \cup Pages(a, n)
    <3>1. Pages(p, f[p].pages) = Pages(p, blk[p].pages) \cup Pages(a, n)
      BY <2>2, <2>3, PagesJoin, BlockTypes DEF End
    <3>2. \A b \in DOMAIN f : b # p => Pages(b, f[b].pages) = Pages(b, blk[b].pages)
      BY <2>3
    <3>3. ASSUME NEW x \in FreeOf(f) PROVE x \in FreeOf(blk) \cup Pages(a, n)
      BY <3>1, <3>2, <2>3 DEF FreeOf
    <3>4. ASSUME NEW x \in FreeOf(blk) \cup Pages(a, n) PROVE x \in FreeOf(f)
      BY <3>1, <3>2, <2>3 DEF FreeOf
    <3> QED
      BY <3>3, <3>4
  <2>11. f[p].next = Curr(a)
    BY <2>1, <2>3
  <2> QED
    BY <2>2, <2>3, <2>8, <2>9, <2>10, <2>11 DEF f
<1> QED
  BY <1>3, <1>4

(* ... and after the merge with that one no two blocks touch.              *)
LEMMA MergedRightIsList ==
  ASSUME NEW f, NEW h, IsList(f, h), NEW used \in DOMAIN f,
         \A b, c \in DOMAIN f : End(f, b) = c => b = used
  PROVE  LET g == MergedRight(f, used, f[used].next) IN
         IsList(g, h) /\ Coalesced(g) /\ FreeOf(g) = FreeOf(f)
<1> DEFINE curr == f[used].next
           g == MergedRight(f, used, curr)
<1>1. LinksUp(f, used)
  BY DEF IsList
<1>2. CASE curr = NULL \/ End(f, used) # curr
  <2>1. g = f
    BY <1>2 DEF MergedRight, End
  <2>2. ASSUME NEW c \in DOMAIN f, End(f, used) = c PROVE FALSE
    <3>1. c > used
      BY <2>2, BlockTypes
    <3>2. curr \in DOMAIN f /\ used < curr /\ curr <= c
      BY <3>1, <1>1, BlockTypes DEF LinksUp
    <3>3. End(f, used) <= curr
      BY <3>2 DEF IsList
    <3> QED
      BY <3>2, <3>3, <2>2, <1>2, BlockTypes DEF NULL
  <2>3. Coalesced(f)
    BY <2>2 DEF Coalesced
  <2> QED
    BY <2>1, <2>3
<1>3. CASE curr # NULL /\ End(f, used) = curr
  <2>1. /\ curr \in DOMAIN f /\ used < curr
        /\ \A c \in DOMAIN f : c <= used \/ curr <= c
    BY <1>1, <1>3 DEF LinksUp
  <2>2. g = [b \in DOMAIN f \ {curr} |->
               IF b = used THEN [pages |-> f[used].pages + f[curr].pages,
                                 next |-> f[curr].next]
               ELSE f[b]]
    BY <1>3 DEF MergedRight, End
  <2>3. /\ DOMAIN g = DOMAIN f \ {curr} /\ used \in DOMAIN g
        /\ g[used] = [pages |-> f[used].pages + f[curr].pages, next |-> f[curr].next]
        /\ \A b \in DOMAIN g : b # used => g[b] = f[b]
    BY <2>1, <2>2, BlockTypes
  <2>4. g \in [DOMAIN g -> Header] /\ DOMAIN g \subseteq Nat \ {0}
    <3>1. \A b \in DOMAIN g : g[b] \in Header /\ b \in Nat \ {0}
      BY <2>1, <2>3, BlockTypes, SMTT(30) DEF Header, IsList
    <3>2. g = [b \in DOMAIN g |-> g[b]]
      BY <2>2
    <3> QED
      BY <3>1, <3>2
  <2> HIDE DEF curr, g
  <2>5. End(g, used) = End(f, curr) /\ \A b \in DOMAIN g : b # used => End(g, b) = End(f, b)
    <3>1. End(f, used) = curr
      BY <1>3 DEF curr
    <3>2. f[curr].pages \in Nat /\ f[used].pages \in Nat /\ used \in Nat
      BY <2>1, BlockTypes
    <3> QED
      BY <2>3, <3>1, <3>2 DEF End, SZ_PAGE
  <2>6. h \in DOMAIN g /\ \A b \in DOMAIN g : h <= b
    <3>1. h \in DOMAIN f /\ h <= used /\ \A b \in DOMAIN f : h <= b
      BY DEF IsList
    <3> QED
      BY <3>1, <2>1, <2>3, BlockTypes
  <2>7. ASSUME NEW b \in DOMAIN g PROVE LinksUp(g, b)
    <3>1. LinksUp(f, b) /\ LinksUp(f, curr)
      BY <2>1, <2>3 DEF IsList
    <3>2. CASE b = used
      <4>1. \A c \in DOMAIN g : c <= used \/ curr < c
        BY <2>1, <2>3, BlockTypes
      <4>2. CASE f[curr].next = NULL /\ \A c \in DOMAIN f : c <= curr
        BY <4>1, <4>2, <3>2, <2>1, <2>3, BlockTypes DEF LinksUp
      <4>3. CASE /\ f[curr].next \in DOMAIN f /\ curr < f[curr].next
                 /\ \A c \in DOMAIN f : c <= curr \/ f[curr].next <= c
        BY <4>1, <4>3, <3>2, <2>1, <2>3, BlockTypes DEF LinksUp
      <4> QED
        BY <3>1, <4>2, <4>3 DEF LinksUp
    <3>3. CASE b # used
      <4>1. g[b] = f[b] /\ b # curr /\ b \in DOMAIN f
        BY <3>3, <2>3
      <4>2. CASE f[b].next = NULL /\ \A c \in DOMAIN f : c <= b
        BY <4>1, <4>2, <2>3 DEF LinksUp
      <4>3. CASE /\ f[b].next \in DOMAIN f /\ b < f[b].next
                 /\ \A c \in DOMAIN f : c <= b \/ f[b].next <= c
        <5>1. f[b].next # curr
          BY <4>1, <4>3, <3>3, <2>1, BlockTypes
        <5> QED
          BY <5>1, <4>1, <4>3, <2>3 DEF LinksUp
      <4> QED
        BY <3>1, <4>2, <4>3 DEF LinksUp
    <3> QED
      BY <3>2, <3>3
  <2>8. ASSUME NEW b \in DOMAIN g, NEW c \in DOMAIN g PROVE b < c => End(g, b) < c
    <3>1. CASE b = used
      <4>1. ASSUME used < c PROVE curr < c
        BY <4>1, <2>1, <2>3, BlockTypes
      <4>2. ASSUME curr < c PROVE End(f, curr) < c
        <5>1. End(f, curr) <= c
          BY <4>2, <2>1, <2>3 DEF IsList
        <5>2. End(f, curr) # c
          BY <2>1, <2>3, BlockTypes
        <5> QED
          BY <5>1, <5>2, <2>1, <2>3, BlockTypes
      <4> QED
        BY <3>1, <4>1, <4>2, <2>5
    <3>2. CASE b # used
      BY <3>2, <2>3, <2>5, BlockTypes DEF IsList
    <3> QED
      BY <3>1, <3>2
  <2>9. IsList(g, h)
    <3>1. \A b, c \in DOMAIN g : b < c => End(g, b) <= c
      <4>1. \A b \in DOMAIN g : End(g, b) \in Nat /\ b \in Nat
        BY <2>1, <2>3, <2>5, BlockTypes
      <4> QED
        BY <2>8, <4>1
    <3> QED
      BY <2>3, <2>4, <2>6, <2>7, <3>1 DEF IsList
  <2>10. Coalesced(g)
    <3>1. ASSUME NEW b \in DOMAIN g, NEW c \in DOMAIN g, End(g, b) = c PROVE FALSE
      BY <3>1, <2>8, <2>9, BlockTypes
    <3> QED
      BY <3>1 DEF Coalesced
  <2>11. FreeOf(g) = FreeOf(f)
    <3>1. End(f, used) = curr
      BY <1>3 DEF curr
    <3>2. Pages(used, g[used].pages) =
            Pages(used, f[used].pages) \cup Pages(curr, f[curr].pages)
      BY <2>1, <2>3, <3>1, PagesJoin, BlockTypes DEF End
    <3>3. \A b \in DOMAIN g : b # used => Pages(b, g[b].pages) = Pages(b, f[b].pages)
      BY <2>3
    <3>4. ASSUME NEW x \in FreeOf(g) PROVE x \in FreeOf(f)
      BY <3>2, <3>3, <2>1, <2>3 DEF FreeOf
    <3>5. ASSUME NEW x \in FreeOf(f) PROVE x \in FreeOf(g)
      BY <3>2, <3>3, <2>1, <2>3 DEF FreeOf
    <3> QED
      BY <3>4, <3>5
  <2> QED
    BY <2>9, <2>10, <2>11 DEF g, curr
<1> QED
  BY <1>2, <1>3 DEF NULL

-----------------------------------------------------------------------------
(* km_page_alloc.                                                          *)

(* A free page is in exactly one block, between its header and its end.    *)
LEMMA FreeInBlock ==
  ASSUME NEW f, NEW h, IsList(f, h), NEW b \in DOMAIN f,
         NEW x \in Pages(b, f[b].pages)
  PROVE  /\ x \in Nat /\ b <= x /\ x + SZ_PAGE <= End(f, b)
         /\ \A c \in DOMAIN f : x \in Pages(c, f[c].pages) => c = b
<1>1. ASSUME NEW c \in DOMAIN f, x \in Pages(c, f[c].pages)
      PROVE  x \in Nat /\ c <= x /\ x + SZ_PAGE <= End(f, c)
  <2>1. c \in Nat /\ f[c].pages \in Nat
    BY BlockTypes
  <2>2. PICK i \in Nat : i < f[c].pages /\ x = c + SZ_PAGE * i
    BY <1>1, <2>1, InPages
  <2> QED
    BY <2>1, <2>2 DEF End, SZ_PAGE
<1>2. ASSUME NEW c \in DOMAIN f, x \in Pages(c, f[c].pages) PROVE c = b
  <2>1. x < End(f, b) /\ x < End(f, c) /\ b <= x /\ c <= x /\ x \in Nat
    BY <1>1, <1>2, BlockTypes DEF SZ_PAGE
  <2>2. ~(b < c) /\ ~(c < b)
    BY <2>1, BlockTypes DEF IsList
  <2> QED
    BY <2>2, BlockTypes
<1> QED
  BY <1>1, <1>2

(* The block of a request: the pages are taken from its front, and what is *)
(* left of it, if anything, stays on the list.                             *)
LEMMA TakenIsList ==
  ASSUME IsList(blk, free_pages), Coalesced(blk), NEW b \in DOMAIN blk,
         NEW n \in Nat \ {0}, n <= blk[b].pages
  PROVE  LET T == Taken(b, n) IN
         /\ IsList(T.blk, T.head) /\ Coalesced(T.blk)
         /\ FreeOf(T.blk) = FreeOf(blk) \ Pages(b, n)
         /\ Apart(b, n, T.blk)
         /\ \A a, m \in Nat : Apart(a, m, blk) => Apart(a, m, T.blk)
<1> DEFINE exact == blk[b].pages = n
           fragment == b + SZ_PAGE * n
           rest == IF exact THEN blk[b].next ELSE fragment
           g == Taken(b, n).blk
           h == Taken(b, n).head
           D == (DOMAIN blk \ {b}) \cup (IF exact THEN {} ELSE {fragment})
<1>1. /\ b \in Nat /\ b > 0 /\ blk[b].pages \in Nat /\ blk[b].next \in Nat
      /\ End(blk, b) \in Nat /\ fragment \in Nat /\ b < fragment
      /\ fragment <= End(blk, b) /\ (exact <=> fragment = End(blk, b))
  BY BlockTypes DEF End, SZ_PAGE
<1>2. \A c \in DOMAIN blk : /\ c \in Nat /\ c > 0 /\ End(blk, c) \in Nat /\ End(blk, c) > c
                            /\ blk[c].pages \in Nat \ {0} /\ blk[c].next \in Nat
  BY BlockTypes
<1>3. \A c \in DOMAIN blk : (c > b => End(blk, b) < c) /\ (c < b => End(blk, c) < b)
  BY <1>1, <1>2 DEF IsList, Coalesced
<1>4. fragment \notin DOMAIN blk
  BY <1>1, <1>3
<1>5. /\ DOMAIN g = D
      /\ ~exact => g[fragment] = [pages |-> blk[b].pages - n, next |-> blk[b].next]
      /\ \A c \in DOMAIN blk \ {b} :
           /\ g[c] = [pages |-> g[c].pages, next |-> g[c].next]
           /\ g[c].pages = blk[c].pages
           /\ g[c].next = IF blk[c].next = b THEN rest ELSE blk[c].next
  <2>1. g = [x \in D |->
               IF x = fragment /\ ~exact
               THEN [pages |-> blk[b].pages - n, next |-> blk[b].next]
               ELSE Redirect(blk, b, rest)[x]]
    BY DEF Taken
  <2>2. \A c \in DOMAIN blk : blk[c] = [pages |-> blk[c].pages, next |-> blk[c].next]
    BY BlockTypes
  <2>3. \A c \in DOMAIN blk :
          Redirect(blk, b, rest)[c] =
            IF blk[c].next = b THEN [pages |-> blk[c].pages, next |-> rest]
            ELSE [pages |-> blk[c].pages, next |-> blk[c].next]
    BY <2>2 DEF Redirect
  <2> HIDE DEF rest, exact, fragment, g
  <2>4. ASSUME NEW c \in DOMAIN blk \ {b}
        PROVE  /\ g[c] = [pages |-> g[c].pages, next |-> g[c].next]
               /\ g[c].pages = blk[c].pages
               /\ g[c].next = IF blk[c].next = b THEN rest ELSE blk[c].next
    <3>1. g[c] = Redirect(blk, b, rest)[c]
      BY <2>1, <1>4
    <3>2. CASE blk[c].next = b
      <4>1. g[c] = [pages |-> blk[c].pages, next |-> rest]
        BY <3>1, <3>2, <2>3
      <4> QED
        BY <3>2, <4>1
    <3>3. CASE blk[c].next # b
      <4>1. g[c] = [pages |-> blk[c].pages, next |-> blk[c].next]
        BY <3>1, <3>3, <2>3
      <4> QED
        BY <3>3, <4>1
    <3> QED
      BY <3>2, <3>3
  <2> QED
    BY <2>1, <2>4
<1>6. h = IF free_pages = b THEN rest ELSE free_pages
  BY DEF Taken
<1>7. g = [x \in DOMAIN g |-> g[x]]
  BY DEF Taken
<1> HIDE DEF g, h
<1>8. g \in [DOMAIN g -> Header] /\ DOMAIN g \subseteq Nat \ {0}
  <2>1. rest \in Nat
    BY <1>1
  <2>2. ~exact => blk[b].pages - n \in Nat \ {0}
    BY <1>1
  <2>3. \A c \in DOMAIN g : g[c] \in Header
    <3> HIDE DEF rest, exact, fragment
    <3>1. ASSUME NEW c \in DOMAIN blk \ {b} PROVE g[c] \in Header
      <4>1. /\ g[c] = [pages |-> g[c].pages, next |-> g[c].next]
            /\ g[c].pages = blk[c].pages /\ g[c].next \in Nat
        BY <1>2, <1>5, <2>1
      <4> QED
        BY <4>1, <1>2 DEF Header
    <3> QED
      BY <3>1, <1>1, <1>5, <2>2 DEF Header
  <2>4. DOMAIN g \subseteq Nat \ {0}
    BY <1>1, <1>2, <1>5
  <2> QED
    BY <1>7, <2>3, <2>4
<1>9. \A c \in DOMAIN blk \ {b} : End(g, c) = End(blk, c)
  <2> HIDE DEF rest
  <2> QED
    BY <1>5 DEF End
<1>10. ~exact => End(g, fragment) = End(blk, b)
  <2>1. ~exact => End(g, fragment) = fragment + SZ_PAGE * (blk[b].pages - n)
    BY <1>5 DEF End
  <2> QED
    BY <2>1, <1>1 DEF End, SZ_PAGE
<1>11. ASSUME NEW c \in DOMAIN g
       PROVE  /\ End(g, c) \in Nat /\ c < End(g, c)
              /\ \/ c \in DOMAIN blk \ {b} /\ End(g, c) = End(blk, c)
                 \/ ~exact /\ c = fragment /\ End(g, c) = End(blk, b) /\ c < End(blk, b)
  BY <1>1, <1>2, <1>5, <1>9, <1>10
<1>12. ASSUME NEW c \in DOMAIN g, NEW d \in DOMAIN g, c < d PROVE End(g, c) < d
  <2>1. \A x, y \in DOMAIN blk : x < y => End(blk, x) < y
    BY <1>2 DEF IsList, Coalesced
  <2> QED
    BY <2>1, <1>1, <1>2, <1>3, <1>11, <1>12
<1>13. Coalesced(g)
  <2>1. ASSUME NEW c \in DOMAIN g, NEW d \in DOMAIN g, End(g, c) = d PROVE FALSE
    BY <2>1, <1>11, <1>12
  <2> QED
    BY <2>1 DEF Coalesced
<1>14. ASSUME NEW c \in DOMAIN g PROVE LinksUp(g, c)
  <2>1. LinksUp(blk, b)
    BY DEF IsList
  <2>2. CASE ~exact /\ c = fragment
    <3>1. g[c].next = blk[b].next
      BY <2>2, <1>5
    <3>2. \A d \in DOMAIN g : d <= c \/ (d \in DOMAIN blk /\ d > b)
      BY <2>2, <1>1, <1>2, <1>3, <1>5
    <3> QED
      BY <3>1, <3>2, <2>1, <2>2, <1>1, <1>2, <1>3, <1>5 DEF LinksUp, NULL
  <2>3. CASE c \in DOMAIN blk \ {b}
    <3>1. LinksUp(blk, c)
      BY <2>3 DEF IsList
    <3>2. CASE blk[c].next = b
      <4>1. g[c].next = rest /\ c < b
        <5>1. g[c].next = rest
          BY <2>3, <3>2, <1>5
        <5> QED
          BY <5>1, <3>1, <3>2, <2>3, <1>1 DEF LinksUp, NULL
      <4>2. \A d \in DOMAIN blk : d <= c \/ b <= d
        BY <3>1, <3>2, <2>3, <1>1 DEF LinksUp, NULL
      <4>3. CASE exact
        BY <4>1, <4>2, <4>3, <2>1, <2>3, <1>1, <1>2, <1>5 DEF LinksUp, NULL
      <4>4. CASE ~exact
        BY <4>1, <4>2, <4>4, <2>3, <1>1, <1>2, <1>3, <1>5 DEF LinksUp
      <4> QED
        BY <4>3, <4>4
    <3>3. CASE blk[c].next # b
      <4>1. g[c].next = blk[c].next
        BY <2>3, <3>3, <1>5
      <4>2. ASSUME blk[c].next \in DOMAIN blk, c < b PROVE blk[c].next < b
        BY <4>2, <3>1, <3>3, <2>3, <1>1, <1>2 DEF LinksUp, NULL
      <4>3. CASE blk[c].next = NULL /\ \A d \in DOMAIN blk : d <= c
        <5>1. b < c
          BY <4>3, <2>3, <1>1, <1>2
        <5>2. fragment < c
          BY <5>1, <2>3, <1>1, <1>2, <1>3
        <5> QED
          BY <4>1, <4>3, <5>2, <1>1, <1>2, <1>5 DEF LinksUp
      <4>4. CASE /\ blk[c].next \in DOMAIN blk /\ c < blk[c].next
                 /\ \A d \in DOMAIN blk : d <= c \/ blk[c].next <= d
        <5>1. fragment <= c \/ blk[c].next <= fragment
          BY <4>2, <4>4, <2>3, <1>1, <1>2, <1>3
        <5> QED
          BY <4>1, <4>4, <5>1, <3>3, <1>5 DEF LinksUp
      <4> QED
        BY <3>1, <4>3, <4>4 DEF LinksUp
    <3> QED
      BY <3>2, <3>3
  <2> QED
    BY <2>2, <2>3, <1>5
<1>15. IF DOMAIN g = {} THEN h = NULL
       ELSE h \in DOMAIN g /\ \A c \in DOMAIN g : h <= c
  <2>1. free_pages \in DOMAIN blk /\ \A c \in DOMAIN blk : free_pages <= c
    BY DEF IsList
  <2>2. LinksUp(blk, b)
    BY DEF IsList
  <2>3. CASE free_pages # b
    <3>1. free_pages < b /\ h = free_pages
      BY <2>1, <2>3, <1>1, <1>2, <1>6
    <3> QED
      BY <3>1, <2>1, <2>3, <1>1, <1>2, <1>5
  <2>4. CASE free_pages = b /\ exact
    BY <2>1, <2>2, <2>4, <1>1, <1>2, <1>5, <1>6 DEF LinksUp, NULL
  <2>5. CASE free_pages = b /\ ~exact
    BY <2>1, <2>5, <1>1, <1>2, <1>3, <1>5, <1>6
  <2> QED
    BY <2>3, <2>4, <2>5
<1>16. IsList(g, h)
  <2>1. \A c, d \in DOMAIN g : c < d => End(g, c) <= d
    BY <1>8, <1>11, <1>12
  <2> QED
    BY <2>1, <1>8, <1>14, <1>15 DEF IsList
<1>17. Apart(b, n, g)
  BY <1>1, <1>2, <1>3, <1>11 DEF Apart
<1>18. ASSUME NEW a \in Nat, NEW m \in Nat, Apart(a, m, blk) PROVE Apart(a, m, g)
  <2>1. a + SZ_PAGE * m \in Nat
    BY DEF SZ_PAGE
  <2> QED
    BY <2>1, <1>1, <1>2, <1>11, <1>18 DEF Apart
<1> HIDE DEF rest
<1>19. FreeOf(g) = FreeOf(blk) \ Pages(b, n)
  <2>1. \A c \in DOMAIN blk \ {b} : Pages(c, g[c].pages) = Pages(c, blk[c].pages)
    BY <1>5
  <2>2. Pages(b, blk[b].pages) =
          Pages(b, n) \cup (IF exact THEN {} ELSE Pages(fragment, g[fragment].pages))
    <3>1. CASE exact
      BY <3>1
    <3>2. CASE ~exact
      <4>1. g[fragment].pages = blk[b].pages - n
        BY <3>2, <1>5
      <4>2. blk[b].pages - n \in Nat /\ n + (blk[b].pages - n) = blk[b].pages
        BY <1>1
      <4>3. Pages(b, n + (blk[b].pages - n)) =
              Pages(b, n) \cup Pages(fragment, blk[b].pages - n)
        <5>1. ASSUME NEW m \in Nat
              PROVE  Pages(b, n + m) = Pages(b, n) \cup Pages(b + SZ_PAGE * n, m)
          <6>1. b \in Nat /\ n \in Nat
            BY <1>1
          <6> QED
            BY <6>1, PagesJoin
        <5> QED
          BY <4>2, <5>1
      <4> QED
        BY <3>2, <4>1, <4>2, <4>3
    <3> QED
      BY <3>1, <3>2
  <2>3. ASSUME ~exact, NEW x \in Pages(fragment, g[fragment].pages)
        PROVE  x \notin Pages(b, n)
    <3>1. fragment \in DOMAIN g
      BY <2>3, <1>5
    <3>2. fragment <= x /\ x \in Nat
      BY <3>1, <2>3, <1>16, FreeInBlock
    <3>3. \A y \in Pages(b, n) : y < fragment
      BY <1>1 DEF Pages, SZ_PAGE
    <3> QED
      BY <1>1, <3>2, <3>3
  <2>4. ASSUME NEW c \in DOMAIN blk \ {b}, NEW x \in Pages(c, blk[c].pages)
        PROVE  x \notin Pages(b, n)
    BY <2>2, <2>4, FreeInBlock
  <2> HIDE DEF exact, fragment
  <2>5. ASSUME NEW x \in FreeOf(g) PROVE x \in FreeOf(blk) \ Pages(b, n)
    <3>1. PICK c \in DOMAIN g : x \in Pages(c, g[c].pages)
      BY <2>5 DEF FreeOf
    <3>2. CASE c \in DOMAIN blk \ {b}
      BY <3>1, <3>2, <2>1, <2>4 DEF FreeOf
    <3>3. CASE ~exact /\ c = fragment
      BY <3>1, <3>3, <2>2, <2>3 DEF FreeOf
    <3> QED
      BY <3>2, <3>3, <1>5
  <2>6. ASSUME NEW x \in FreeOf(blk) \ Pages(b, n) PROVE x \in FreeOf(g)
    <3>1. PICK c \in DOMAIN blk : x \in Pages(c, blk[c].pages)
      BY <2>6 DEF FreeOf
    <3>2. CASE c # b
      BY <3>1, <3>2, <2>1, <1>5 DEF FreeOf
    <3>3. CASE c = b
      BY <3>1, <3>3, <2>2, <2>6, <1>5 DEF FreeOf
    <3> QED
      BY <3>2, <3>3
  <2> QED
    BY <2>5, <2>6
<1> QED
  BY <1>13, <1>16, <1>17, <1>18, <1>19 DEF g, h

-----------------------------------------------------------------------------
(* The inductive invariant.                                                *)

SliceSet == {free_slices[i] : i \in DOMAIN free_slices}

KmemTypeOK ==
  /\ regions \in Seq(Region) /\ km_initialized \in BOOLEAN
  /\ free_slices \in Seq(Nat)

(* The page list is a list without touching blocks and n_pages its size.   *)
ListKept ==
  /\ IsList(blk, free_pages) /\ Coalesced(blk)
  /\ IsFiniteSet(FreeOf(blk)) /\ n_pages = Cardinality(FreeOf(blk))

(* No slice is on the slice list twice.                                    *)
SlicesOnce ==
  \A i, j \in DOMAIN free_slices : free_slices[i] = free_slices[j] => i = j

(* Until km_init is done nothing is allocated, and the regions to come     *)
(* neither touch the blocks already on the list nor each other.            *)
BootKept ==
  ~km_initialized =>
    /\ held = {} /\ sheld = {} /\ free_slices = << >>
    /\ Spaced(regions)
    /\ \A i \in DOMAIN regions : Yields(regions[i]) =>
         \A b \in DOMAIN blk :
           \/ BaseOf(regions[i]) + SZ_PAGE * WholePages(regions[i]) < b
           \/ End(blk, b) < BaseOf(regions[i])

KInv == KmemTypeOK /\ ListKept /\ A!Separate /\ SlicesOnce /\ BootKept

(* What A!Separate says of the variables of kmem.c.                        *)
LEMMA SeparateMeans ==
  ASSUME A!Separate
  PROVE  /\ FreeOf(blk) \subseteq Nat \ {0} /\ held \subseteq Nat \ {0}
         /\ SliceSet \cap sheld = {} /\ FreeOf(blk) \cap held = {}
         /\ \A x \in FreeOf(blk), y \in held : x + 4 <= y \/ y + 4 <= x
         /\ \A x, y \in held : x # y => x + 4 <= y \/ y + 4 <= x
BY DEF A!Separate, A!Disjoint, A!SZ_PAGE, A!NULL, FreeSet, FreeOf, SliceSet

(* The pages of a list have no byte in common.                             *)
LEMMA ListPagesDisjoint ==
  ASSUME NEW f, NEW h, IsList(f, h), NEW x \in FreeOf(f), NEW y \in FreeOf(f), x # y
  PROVE  x \in Nat \ {0} /\ (x + SZ_PAGE <= y \/ y + SZ_PAGE <= x)
<1>1. PICK b \in DOMAIN f : x \in Pages(b, f[b].pages)
  BY DEF FreeOf
<1>2. PICK c \in DOMAIN f : y \in Pages(c, f[c].pages)
  BY DEF FreeOf
<1>3. /\ x \in Nat /\ b <= x /\ x + SZ_PAGE <= End(f, b)
      /\ y \in Nat /\ c <= y /\ y + SZ_PAGE <= End(f, c)
  BY <1>1, <1>2, FreeInBlock
<1>4. CASE b = c
  <2>1. b \in Nat /\ b > 0 /\ f[b].pages \in Nat
    BY BlockTypes
  <2>2. PICK i \in Nat : x = b + SZ_PAGE * i
    BY <2>1, <1>1, InPages
  <2>3. PICK j \in Nat : y = b + SZ_PAGE * j
    BY <2>1, <1>2, <1>4, InPages
  <2> QED
    BY <2>1, <2>2, <2>3 DEF SZ_PAGE
<1>5. CASE b < c
  BY <1>3, <1>5, BlockTypes, SMTT(30) DEF IsList, SZ_PAGE
<1>6. CASE c < b
  BY <1>3, <1>6, BlockTypes, SMTT(30) DEF IsList, SZ_PAGE
<1> QED
  BY <1>4, <1>5, <1>6, BlockTypes

(* Pages in the hands of a caller are outside all blocks: km_page_free     *)
(* never frees what is free.                                               *)
LEMMA HeldApart ==
  ASSUME IsList(blk, free_pages), A!Separate,
         NEW a, NEW n \in Nat \ {0}, Pages(a, n) \subseteq held, a \in held
  PROVE  a \in Nat \ {0} /\ Apart(a, n, blk)
<1>1. a \in Nat \ {0}
  BY SeparateMeans
<1>2. ASSUME NEW b \in DOMAIN blk, ~(a + SZ_PAGE * n <= b \/ End(blk, b) <= a)
      PROVE  FALSE
  <2>1. /\ b \in Nat /\ End(blk, b) \in Nat /\ blk[b].pages \in Nat
        /\ End(blk, b) = b + SZ_PAGE * blk[b].pages
    BY BlockTypes DEF End
  <2>2. b < a + 4 * n /\ a < b + 4 * blk[b].pages
    BY <1>1, <1>2, <2>1 DEF SZ_PAGE
  <2>3. CASE a <= b
    <3> DEFINE i == (b - a) \div 4
    <3>1. i \in Nat /\ a + 4 * i <= b /\ b < a + 4 * i + 4
      BY <1>1, <2>1, <2>3
    <3> HIDE DEF i
    <3>2. a + 4 * i \in held
      <4>1. i < n
        BY <1>1, <2>1, <2>2, <3>1
      <4>2. a + 4 * i \in Pages(a, n)
        BY <1>1, <3>1, <4>1, InPages DEF SZ_PAGE
      <4> QED
        BY <4>2
    <3>3. b \in Pages(b, blk[b].pages)
      BY BlockTypes, InPages DEF SZ_PAGE
    <3>4. b \in FreeOf(blk)
      BY <3>3 DEF FreeOf
    <3> QED
      BY <3>1, <3>2, <3>4, <2>1, SeparateMeans
  <2>4. CASE b < a
    <3> DEFINE i == (a - b) \div 4
    <3>1. i \in Nat /\ b + 4 * i <= a /\ a < b + 4 * i + 4
      BY <1>1, <2>1, <2>4
    <3> HIDE DEF i
    <3>2. b + 4 * i \in Pages(b, blk[b].pages)
      <4>1. i < blk[b].pages
        BY <1>1, <2>1, <2>2, <3>1
      <4> QED
        BY <2>1, <3>1, <4>1, InPages DEF SZ_PAGE
    <3>3. b + 4 * i \in FreeOf(blk)
      BY <3>2 DEF FreeOf
    <3> QED
      BY <3>1, <3>3, <2>1, <1>1, SeparateMeans
  <2> QED
    BY <1>1, <2>1, <2>3, <2>4
<1> QED
  BY <1>1, <1>2 DEF Apart

(* Where the search of km_page_alloc stops.                                *)
LEMMA SearchEnds ==
  ASSUME IsList(blk, free_pages), NEW n, LargeEnough(n) # {}
  PROVE  /\ FirstFit(n) \in LargeEnough(n)
         /\ \A c \in LargeEnough(n) : FirstFit(n) <= c
<1>1. LargeEnough(n) \subseteq Nat
  BY DEF LargeEnough, IsList
<1>2. \E b \in LargeEnough(n) : \A c \in LargeEnough(n) : b <= c
  BY <1>1, LeastNat
<1> QED
  BY <1>2 DEF FirstFit

(* A run of free pages lies in one block, because no two blocks touch: if  *)
(* the search fails there is no such run.                                  *)
LEMMA RunInBlock ==
  ASSUME IsList(blk, free_pages), Coalesced(blk), NEW n \in Nat \ {0},
         NEW a \in FreeOf(blk), Pages(a, n) \subseteq FreeOf(blk)
  PROVE  \E b \in LargeEnough(n) : b <= a
<1>1. PICK b \in DOMAIN blk : a \in Pages(b, blk[b].pages)
  BY DEF FreeOf
<1>2. b \in Nat /\ blk[b].pages \in Nat /\ End(blk, b) = b + 4 * blk[b].pages
  BY BlockTypes DEF End, SZ_PAGE
<1>3. PICK j \in Nat : j < blk[b].pages /\ a = b + 4 * j
  BY <1>1, <1>2, InPages DEF SZ_PAGE
<1>4. ASSUME blk[b].pages < n + j PROVE FALSE
  <2> DEFINE i == blk[b].pages - j
  <2>1. i \in Nat /\ i < n /\ a \in Nat /\ a + 4 * i = End(blk, b)
    BY <1>2, <1>3, <1>4
  <2>2. End(blk, b) \in Pages(a, n)
    BY <2>1, InPages DEF SZ_PAGE
  <2>3. End(blk, b) \in FreeOf(blk)
    BY <2>2
  <2>4. PICK c \in DOMAIN blk : End(blk, b) \in Pages(c, blk[c].pages)
    BY <2>3 DEF FreeOf
  <2>5. c <= End(blk, b) /\ End(blk, b) + SZ_PAGE <= End(blk, c)
    BY <2>4, FreeInBlock
  <2>6. c # b
    BY <2>5, BlockTypes DEF SZ_PAGE
  <2>7. ~(c < b)
    BY <2>5, BlockTypes, SMTT(30) DEF IsList, SZ_PAGE
  <2>8. ~(b < c)
    BY <2>5, BlockTypes DEF IsList, Coalesced
  <2> QED
    BY <2>6, <2>7, <2>8, BlockTypes
<1>5. b <= a /\ blk[b].pages >= n
  BY <1>2, <1>3, <1>4
<1> QED
  BY <1>5 DEF LargeEnough

-----------------------------------------------------------------------------
(* The operations, one by one: each keeps the page list sound and is a     *)
(* step of the abstract allocator.                                         *)

LEMMA SetMinus ==
  ASSUME NEW S, NEW T, IsFiniteSet(S), S \cap T = T
  PROVE  IsFiniteSet(S \ T) /\ Cardinality(S \ T) = Cardinality(S) - Cardinality(T)
<1>1. IsFiniteSet(S \ T) /\ Cardinality(S \ T) = Cardinality(S) - Cardinality(S \cap T)
  BY FS_Difference
<1> QED
  BY <1>1

LEMMA SetPlus ==
  ASSUME NEW S, NEW T, IsFiniteSet(S), IsFiniteSet(T), S \cap T = {}
  PROVE  /\ IsFiniteSet(S \cup T)
         /\ Cardinality(S \cup T) = Cardinality(S) + Cardinality(T)
<1>1. /\ IsFiniteSet(S \cup T)
      /\ Cardinality(S \cup T) = Cardinality(S) + Cardinality(T) - Cardinality(S \cap T)
  BY FS_Union
<1>2. Cardinality(S \cap T) = 0
  BY FS_EmptySet
<1>3. Cardinality(S) \in Nat /\ Cardinality(T) \in Nat
  BY FS_CardinalityType
<1> QED
  BY <1>1, <1>2, <1>3

LEMMA TakeKept ==
  ASSUME ListKept, NEW b \in DOMAIN blk, NEW n \in Nat \ {0},
         n <= blk[b].pages, TakePages(b, n)
  PROVE  /\ ListKept' /\ FreeOf(blk') = FreeOf(blk) \ Pages(b, n)
         /\ Pages(b, n) \subseteq FreeOf(blk) /\ b \in FreeOf(blk)
<1>1. /\ IsList(blk', free_pages') /\ Coalesced(blk')
      /\ FreeOf(blk') = FreeOf(blk) \ Pages(b, n)
  BY TakenIsList DEF TakePages, ListKept
<1>2. b \in Nat /\ blk[b].pages \in Nat
  BY BlockTypes DEF ListKept
<1>3. Pages(b, n) \subseteq FreeOf(blk)
  <2>1. ASSUME NEW x \in Pages(b, n) PROVE x \in Pages(b, blk[b].pages)
    <3>1. PICK i \in Nat : i < n /\ x = b + SZ_PAGE * i
      BY <1>2, InPages
    <3>2. i < blk[b].pages
      BY <1>2, <3>1
    <3> QED
      BY <1>2, <3>1, <3>2, InPages
  <2> QED
    BY <2>1 DEF FreeOf
<1>4. b \in FreeOf(blk)
  <2>1. 0 \in Nat /\ 0 < n /\ b = b + SZ_PAGE * 0
    BY <1>2 DEF SZ_PAGE
  <2>2. b \in Pages(b, n)
    BY <1>2, <2>1, InPages
  <2> QED
    BY <1>3, <2>2
<1>5. IsFiniteSet(FreeOf(blk')) /\ Cardinality(FreeOf(blk')) = n_pages - n
  <2>1. FreeOf(blk) \cap Pages(b, n) = Pages(b, n)
    BY <1>3
  <2>2. Cardinality(Pages(b, n)) = n
    BY <1>2, PagesCount
  <2> QED
    BY <1>1, <2>1, <2>2, SetMinus DEF ListKept
<1> QED
  BY <1>1, <1>3, <1>4, <1>5 DEF ListKept, TakePages

LEMMA PutKept ==
  ASSUME ListKept, NEW a \in Nat \ {0}, NEW n \in Nat \ {0}, Apart(a, n, blk),
         IsList(blk', free_pages'), Coalesced(blk'),
         FreeOf(blk') = FreeOf(blk) \cup Pages(a, n), n_pages' = n_pages + n
  PROVE  ListKept'
<1>1. FreeOf(blk) \cap Pages(a, n) = {}
  <2>1. ASSUME NEW x \in FreeOf(blk), x \in Pages(a, n) PROVE FALSE
    <3>1. PICK b \in DOMAIN blk : x \in Pages(b, blk[b].pages)
      BY DEF FreeOf
    <3>2. b <= x /\ x + SZ_PAGE <= End(blk, b) /\ x \in Nat
      BY <3>1, FreeInBlock DEF ListKept
    <3>3. PICK i \in Nat : i < n /\ x = a + SZ_PAGE * i
      BY <2>1, InPages
    <3> QED
      BY <3>2, <3>3, BlockTypes DEF Apart, ListKept, SZ_PAGE
  <2> QED
    BY <2>1
<1>2. IsFiniteSet(Pages(a, n)) /\ Cardinality(Pages(a, n)) = n
  BY PagesCount
<1>3. IsFiniteSet(FreeOf(blk)) /\ n_pages = Cardinality(FreeOf(blk)) /\ n_pages \in Nat
  BY FS_CardinalityType DEF ListKept
<1>4. /\ IsFiniteSet(FreeOf(blk) \cup Pages(a, n))
      /\ Cardinality(FreeOf(blk) \cup Pages(a, n)) = n_pages + n
  BY <1>1, <1>2, <1>3, SetPlus
<1> QED
  BY <1>3, <1>4 DEF ListKept

LEMMA AllocStep ==
  ASSUME KInv, NEW n \in Counts, km_page_alloc(n)
  PROVE  ListKept' /\ A!Alloc(n)
<1> n \in Nat
  BY KmemAssumption
<1> USE DEF km_page_alloc
<1>1. ListKept /\ IsList(blk, free_pages) /\ Coalesced(blk)
  BY DEF KInv, ListKept
<1>2. \A a : A!Run(a, n) = Pages(a, n)
  BY DEF A!Run, Pages, A!SZ_PAGE, SZ_PAGE
<1>3. A!Fits(n) = {a \in FreeOf(blk) : Pages(a, n) \subseteq FreeOf(blk)}
  BY <1>2 DEF A!Fits, FreeSet, FreeOf
<1>4. CASE n < 1 \/ LargeEnough(n) = {}
  <2>1. ret' = NULL /\ UNCHANGED <<free_pages, blk, n_pages, held, free_slices, sheld>>
    BY <1>4 DEF pages, slices
  <2>2. n = 0 \/ A!Fits(n) = {}
    BY <1>1, <1>3, <1>4, RunInBlock
  <2>3. ListKept'
    BY <1>1, <2>1 DEF ListKept
  <2> QED
    BY <2>1, <2>2, <2>3 DEF A!Alloc, A!NULL, NULL, FreeSet, Pages
<1>5. CASE ~(n < 1 \/ LargeEnough(n) = {})
  <2> DEFINE b == FirstFit(n)
  <2>1. b \in DOMAIN blk /\ n <= blk[b].pages /\ \A c \in LargeEnough(n) : b <= c
    BY <1>1, <1>5, SearchEnds DEF LargeEnough
  <2>2. /\ TakePages(b, n) /\ held' = held \cup Pages(b, n) /\ ret' = b
        /\ UNCHANGED <<free_slices, sheld>>
    BY <1>5 DEF slices
  <2> HIDE DEF b
  <2>3. /\ ListKept' /\ FreeOf(blk') = FreeOf(blk) \ Pages(b, n)
        /\ Pages(b, n) \subseteq FreeOf(blk) /\ b \in FreeOf(blk)
    BY <1>1, <1>5, <2>1, <2>2, TakeKept
  <2>4. b \in A!Fits(n)
    BY <1>3, <2>3
  <2>5. \A a \in A!Fits(n) : b <= a
    <3>1. ASSUME NEW a \in A!Fits(n) PROVE b <= a
      <4>1. PICK c \in LargeEnough(n) : c <= a
        BY <1>1, <1>3, <1>5, RunInBlock
      <4>2. b <= c /\ b \in Nat /\ c \in Nat /\ a \in Nat
        BY <4>1, <2>1, <1>1, <1>3, SeparateMeans, BlockTypes DEF KInv, LargeEnough
      <4> QED
        BY <4>1, <4>2
    <3> QED
      BY <3>1
  <2>6. FreeSet' = FreeSet \ Pages(b, n)
    BY <2>3 DEF FreeSet, FreeOf
  <2> QED
    BY <1>2, <1>5, <2>2, <2>3, <2>4, <2>5, <2>6 DEF A!Alloc
<1> QED
  BY <1>4, <1>5

LEMMA FreeStep ==
  ASSUME KInv, NEW a \in held, NEW n \in Nat \ {0}, km_page_free_multi(a, n)
  PROVE  ListKept' /\ A!Free(a, n)
<1> USE DEF km_page_free_multi
<1>1. ListKept /\ IsList(blk, free_pages) /\ Coalesced(blk)
  BY DEF KInv, ListKept
<1>2. a \in Nat \ {0} /\ Apart(a, n, blk)
  BY <1>1, HeldApart DEF KInv
<1> DEFINE f == MergedLeft(a, n)
<1>3. /\ IsList(f, HeadWith(a)) /\ Used(a) \in DOMAIN f /\ f[Used(a)].next = Curr(a)
      /\ \A b, c \in DOMAIN f : End(f, b) = c => b = Used(a)
      /\ FreeOf(f) = FreeOf(blk) \cup Pages(a, n)
  BY <1>1, <1>2, MergedLeftIsList
<1>4. blk' = MergedRight(f, Used(a), Curr(a)) /\ free_pages' = HeadWith(a)
  BY DEF Used, Touches
<1> HIDE DEF f, km_page_free_multi
<1>5. IsList(blk', free_pages') /\ Coalesced(blk') /\ FreeOf(blk') = FreeOf(f)
  <2> DEFINE u == Used(a)
             g == MergedRight(f, u, f[u].next)
  <2>1. /\ IsList(f, HeadWith(a)) /\ u \in DOMAIN f
        /\ \A b, c \in DOMAIN f : End(f, b) = c => b = u
    BY <1>3
  <2>2. blk' = g
    BY <1>3, <1>4
  <2> HIDE DEF u
  <2>3. IsList(g, HeadWith(a)) /\ Coalesced(g) /\ FreeOf(g) = FreeOf(f)
    BY <2>1, MergedRightIsList
  <2> QED
    BY <1>4, <2>2, <2>3
<1>6. ListKept'
  BY <1>1, <1>2, <1>3, <1>5, PutKept DEF km_page_free_multi
<1>7. FreeSet' = FreeSet \cup Pages(a, n)
  BY <1>3, <1>5 DEF FreeSet, FreeOf
<1> QED
  BY <1>6, <1>7 DEF km_page_free_multi, A!Free, A!Run, A!SZ_PAGE, Pages, SZ_PAGE, slices

(* km_init: a region that is used becomes a block of its own.              *)
LEMMA AddBlockStep ==
  ASSUME ListKept, NEW a \in Nat \ {0}, NEW n \in Nat \ {0},
         \A b \in DOMAIN blk : a + SZ_PAGE * n < b \/ End(blk, b) < a,
         free_pages' = HeadWith(a), blk' = Linked(a, n),
         n_pages' = IF free_pages = NULL THEN n ELSE n_pages + n
  PROVE  /\ ListKept' /\ FreeOf(blk') = FreeOf(blk) \cup Pages(a, n)
         /\ \A c \in DOMAIN blk' :
              \/ c = a /\ End(blk', c) = a + SZ_PAGE * n
              \/ c \in DOMAIN blk /\ End(blk', c) = End(blk, c)
<1>1. IsList(blk, free_pages) /\ Coalesced(blk)
  BY DEF ListKept
<1>2. Apart(a, n, blk)
  BY <1>1, BlockTypes DEF Apart, SZ_PAGE
<1>3. /\ IsList(blk', free_pages') /\ DOMAIN blk' = DOMAIN blk \cup {a}
      /\ blk'[a] = [pages |-> n, next |-> Curr(a)]
      /\ \A b \in DOMAIN blk : b # a /\ blk'[b].pages = blk[b].pages
  BY <1>1, <1>2, LinkedIsList, ZenonT(30)
<1>4. FreeOf(blk') = FreeOf(blk) \cup Pages(a, n)
  BY <1>1, <1>2, LinkedFree
<1>5. ASSUME NEW c \in DOMAIN blk'
      PROVE  \/ c = a /\ End(blk', c) = a + SZ_PAGE * n
             \/ c \in DOMAIN blk /\ End(blk', c) = End(blk, c)
  BY <1>3 DEF End
<1>6. Coalesced(blk')
  <2>1. ASSUME NEW b \in DOMAIN blk', NEW c \in DOMAIN blk', End(blk', b) = c
        PROVE  FALSE
    BY <2>1, <1>1, <1>3, <1>5, BlockTypes DEF Coalesced, SZ_PAGE
  <2> QED
    BY <2>1 DEF Coalesced
<1>7. n_pages' = n_pages + n
  <2>1. CASE free_pages = NULL
    <3>1. DOMAIN blk = {}
      BY <1>1, <2>1, BlockTypes DEF IsList, NULL
    <3>2. FreeOf(blk) = {}
      BY <3>1 DEF FreeOf
    <3>3. n_pages = 0
      BY <3>2, FS_EmptySet DEF ListKept
    <3> QED
      BY <2>1, <3>3
  <2> QED
    BY <2>1
<1> QED
  BY <1>2, <1>3, <1>4, <1>5, <1>6, <1>7, PutKept

LEMMA InitStep ==
  ASSUME KInv, InitRegion
  PROVE  ListKept' /\ BootKept' /\ KmemTypeOK' /\ A!Grow
<1> DEFINE r == Head(regions)
           a == BaseOf(r)
           n == WholePages(r)
<1>1. /\ ~km_initialized /\ regions # << >> /\ regions' = Tail(regions)
      /\ km_initialized' \in BOOLEAN
      /\ UNCHANGED <<free_slices, n_slices, sheld, held, ret>>
  BY DEF InitRegion, slices
<1>2. ListKept /\ regions \in Seq(Region) /\ free_slices \in Seq(Nat)
  BY DEF KInv, KmemTypeOK
<1>3. /\ held = {} /\ sheld = {} /\ free_slices = << >> /\ Spaced(regions)
      /\ \A i \in DOMAIN regions : Yields(regions[i]) =>
           \A b \in DOMAIN blk :
             \/ BaseOf(regions[i]) + SZ_PAGE * WholePages(regions[i]) < b
             \/ End(blk, b) < BaseOf(regions[i])
  BY <1>1 DEF KInv, BootKept
<1>4. /\ DOMAIN regions = 1..Len(regions) /\ Len(regions) \in Nat /\ Len(regions) > 0
      /\ r = regions[1] /\ 1 \in DOMAIN regions /\ r \in Region
      /\ regions' \in Seq(Region)
      /\ \A i \in DOMAIN regions' :
           i + 1 \in DOMAIN regions /\ i + 1 # 1 /\ regions'[i] = regions[i + 1]
  BY <1>1, <1>2
<1>5. KmemTypeOK'
  BY <1>1, <1>2, <1>4 DEF KmemTypeOK
<1>6. Spaced(regions')
  <2>1. \A i, j \in DOMAIN regions' : i # j => i + 1 # j + 1
    BY <1>4
  <2> QED
    BY <2>1, <1>3, <1>4 DEF Spaced
<1>7. CASE UNCHANGED pages
  <2>1. UNCHANGED <<free_pages, blk, n_pages>>
    BY <1>7 DEF pages
  <2>2. ListKept' /\ FreeSet' = FreeSet
    BY <1>2, <2>1 DEF ListKept, FreeSet, Pages
  <2>3. BootKept'
    BY <1>1, <1>3, <1>4, <1>6, <2>1 DEF BootKept
  <2>4. A!Grow
    BY <1>1, <1>3, <2>2 DEF A!Grow, A!Separate, KInv
  <2> QED
    BY <1>5, <2>2, <2>3, <2>4
<1>8. CASE ~UNCHANGED pages
  <2>1. /\ Yields(r) /\ a \in Nat \ {0} /\ n \in Nat \ {0}
        /\ free_pages' = HeadWith(a) /\ blk' = Linked(a, n)
        /\ n_pages' = IF free_pages = NULL THEN n ELSE n_pages + n
    <3>1. ~Skipped(r) /\ add_block(a, Endpt(r) - a)
      BY <1>8 DEF InitRegion
    <3>2. a \in Nat \ {0} /\ Endpt(r) \in Nat
      BY <1>4, KmemAssumption DEF BaseOf, Endpt, Region
    <3>3. ~(Endpt(r) - a < SZ_PAGE)
      BY <1>8, <3>1 DEF add_block
    <3>4. n \in Nat \ {0}
      BY <3>2, <3>3 DEF WholePages, SZ_PAGE
    <3> QED
      BY <3>1, <3>2, <3>3, <3>4 DEF add_block, Yields, WholePages
  <2>2. \A b \in DOMAIN blk : a + SZ_PAGE * n < b \/ End(blk, b) < a
    BY <2>1, <1>3, <1>4
  <2> HIDE DEF a, n, r
  <2>3. /\ ListKept' /\ FreeOf(blk') = FreeOf(blk) \cup Pages(a, n)
        /\ \A c \in DOMAIN blk' :
              \/ c = a /\ End(blk', c) = a + SZ_PAGE * n
              \/ c \in DOMAIN blk /\ End(blk', c) = End(blk, c)
    BY <1>2, <2>1, <2>2, AddBlockStep
  <2>4. ASSUME NEW i \in DOMAIN regions', Yields(regions'[i]), NEW b \in DOMAIN blk'
        PROVE  \/ BaseOf(regions'[i]) + SZ_PAGE * WholePages(regions'[i]) < b
               \/ End(blk', b) < BaseOf(regions'[i])
    <3>1. i + 1 \in DOMAIN regions /\ i + 1 # 1 /\ regions'[i] = regions[i + 1]
      BY <1>4
    <3>2. CASE b \in DOMAIN blk /\ End(blk', b) = End(blk, b)
      BY <3>1, <3>2, <2>4, <1>3
    <3>3. CASE b = a /\ End(blk', b) = a + SZ_PAGE * n
      <4>1. Below(regions[i + 1], r) \/ Below(r, regions[i + 1])
        BY <3>1, <2>1, <2>4, <1>3, <1>4 DEF Spaced
      <4> QED
        BY <3>1, <3>3, <4>1 DEF Below, a, n
    <3> QED
      BY <2>3, <3>2, <3>3
  <2>5. BootKept'
    BY <1>1, <1>3, <1>6, <2>4 DEF BootKept
  <2>6. A!Grow
    <3>1. FreeSet = FreeOf(blk) /\ FreeSet' = FreeOf(blk')
      BY DEF FreeSet, FreeOf
    <3>2. \A x, y \in FreeSet' : x = y \/ x + SZ_PAGE <= y \/ y + SZ_PAGE <= x
      BY <2>3, <3>1, ListPagesDisjoint DEF ListKept
    <3>3. FreeOf(blk) \subseteq Nat \ {0}
      BY SeparateMeans DEF KInv
    <3>4. Pages(a, n) \subseteq Nat \ {0}
      BY <2>1 DEF Pages, SZ_PAGE
    <3>5. FreeSet' \subseteq Nat \ {0} /\ FreeSet \subseteq FreeSet'
      BY <2>3, <3>1, <3>3, <3>4
    <3> QED
      BY <1>1, <1>3, <3>2, <3>5 DEF A!Grow, A!NULL, A!Disjoint, A!SZ_PAGE, SZ_PAGE
  <2> QED
    BY <1>5, <2>3, <2>5, <2>6
<1> QED
  BY <1>7, <1>8

(* The slices: the front of the list is handed out, or a page is cut up.   *)
LEMMA SliceAllocStep ==
  ASSUME KInv, km_slice_alloc
  PROVE  /\ ListKept' /\ KmemTypeOK' /\ SlicesOnce'
         /\ A!SliceGrant \/ A!SliceCarve \/ UNCHANGED A!avars
<1> USE DEF km_slice_alloc
<1>1. /\ ListKept /\ regions \in Seq(Region) /\ free_slices \in Seq(Nat) /\ SlicesOnce
      /\ UNCHANGED <<regions, km_initialized, held>> /\ km_initialized \in BOOLEAN
  BY DEF KInv, KmemTypeOK, boot
<1>2. CASE free_slices # << >>
  <2>1. /\ ret' = Head(free_slices) /\ free_slices' = Tail(free_slices)
        /\ sheld' = sheld \cup {Head(free_slices)}
        /\ UNCHANGED <<free_pages, blk, n_pages>>
    BY <1>2 DEF pages
  <2>2. /\ DOMAIN free_slices = 1..Len(free_slices) /\ Len(free_slices) \in Nat
        /\ Len(free_slices) > 0 /\ Head(free_slices) = free_slices[1]
        /\ free_slices' \in Seq(Nat)
        /\ DOMAIN free_slices' = 1..(Len(free_slices) - 1)
        /\ \A i \in DOMAIN free_slices' : free_slices'[i] = free_slices[i + 1]
    BY <1>1, <1>2, <2>1
  <2>3. SlicesOnce'
    <3>1. ASSUME NEW i \in DOMAIN free_slices', NEW j \in DOMAIN free_slices',
                 free_slices'[i] = free_slices'[j]
          PROVE  i = j
      <4>1. i + 1 \in DOMAIN free_slices /\ j + 1 \in DOMAIN free_slices
        BY <2>2
      <4>2. i + 1 = j + 1
        BY <1>1, <2>2, <3>1, <4>1 DEF SlicesOnce
      <4> QED
        BY <2>2, <4>2
    <3> QED
      BY <3>1 DEF SlicesOnce
  <2>4. SliceSet' = SliceSet \ {free_slices[1]} /\ free_slices[1] \in SliceSet
    <3>1. ASSUME NEW s \in SliceSet' PROVE s \in SliceSet \ {free_slices[1]}
      <4>1. PICK i \in DOMAIN free_slices' : s = free_slices'[i]
        BY DEF SliceSet
      <4>2. /\ i + 1 \in DOMAIN free_slices /\ i + 1 # 1 /\ 1 \in DOMAIN free_slices
            /\ s = free_slices[i + 1]
        BY <2>2, <4>1
      <4> QED
        BY <1>1, <4>2 DEF SliceSet, SlicesOnce
    <3>2. ASSUME NEW s \in SliceSet, s # free_slices[1] PROVE s \in SliceSet'
      <4>1. PICK i \in DOMAIN free_slices : s = free_slices[i]
        BY DEF SliceSet
      <4>2. i - 1 \in DOMAIN free_slices' /\ (i - 1) + 1 = i
        BY <2>2, <3>2, <4>1
      <4>3. s = free_slices'[i - 1]
        BY <2>2, <4>1, <4>2
      <4> QED
        BY <4>2, <4>3 DEF SliceSet
    <3>3. free_slices[1] \in SliceSet
      BY <2>2 DEF SliceSet
    <3> QED
      BY <3>1, <3>2, <3>3
  <2>5. ListKept' /\ FreeSet' = FreeSet
    BY <1>1, <2>1 DEF ListKept, FreeSet, Pages
  <2>6. A!SliceGrant
    BY <1>1, <2>1, <2>2, <2>4, <2>5 DEF A!SliceGrant, SliceSet
  <2> QED
    BY <1>1, <2>2, <2>3, <2>5, <2>6 DEF KmemTypeOK
<1>3. CASE free_slices = << >> /\ LargeEnough(1) = {}
  <2>1. UNCHANGED <<free_pages, blk, n_pages, free_slices, sheld, ret>>
    BY <1>3 DEF carve_slices, pages, slices
  <2>2. ListKept' /\ FreeSet' = FreeSet
    BY <1>1, <2>1 DEF ListKept, FreeSet, Pages
  <2> QED
    BY <1>1, <2>1, <2>2 DEF KmemTypeOK, SlicesOnce, A!avars
<1>4. CASE free_slices = << >> /\ LargeEnough(1) # {}
  <2> DEFINE p == FirstFit(1)
  <2>1. /\ TakePages(p, 1) /\ free_slices' = <<p + 2, p + 1, p>>
        /\ sheld' = sheld \cup {p + 3} /\ ret' = p + 3
    BY <1>4 DEF carve_slices, SZ_SLICE
  <2>2. p \in DOMAIN blk /\ 1 <= blk[p].pages /\ p \in Nat
    BY <1>1, <1>4, SearchEnds, BlockTypes DEF LargeEnough, ListKept
  <2> HIDE DEF p
  <2>3. ListKept' /\ FreeOf(blk') = FreeOf(blk) \ Pages(p, 1) /\ p \in FreeOf(blk)
    BY <1>1, <2>1, <2>2, TakeKept
  <2>4. Pages(p, 1) = {p}
    BY <2>2 DEF Pages, SZ_PAGE
  <2>5. FreeSet' = FreeSet \ {p} /\ p \in FreeSet
    BY <2>3, <2>4 DEF FreeSet, FreeOf
  <2>6. /\ free_slices' \in Seq(Nat) /\ DOMAIN free_slices' = 1..3
        /\ free_slices'[1] = p + 2 /\ free_slices'[2] = p + 1 /\ free_slices'[3] = p
    BY <2>1, <2>2
  <2>7. SlicesOnce'
    BY <2>2, <2>6 DEF SlicesOnce
  <2>8. SliceSet' = {p + 2, p + 1, p}
    BY <2>6 DEF SliceSet
  <2>9. SliceSet = {}
    BY <1>4 DEF SliceSet
  <2>10. A!SlicesOf(p) = {p, p + 1, p + 2, p + 3}
    BY <2>2 DEF A!SlicesOf, A!SZ_SLICE
  <2>11. A!SliceCarve
    <3>1. p + 3 \in A!SlicesOf(p) /\ SliceSet' = A!SlicesOf(p) \ {p + 3}
      BY <2>2, <2>8, <2>10
    <3> QED
      BY <3>1, <1>1, <2>1, <2>5, <2>9 DEF A!SliceCarve, SliceSet
  <2> QED
    BY <1>1, <2>3, <2>6, <2>7, <2>11 DEF KmemTypeOK
<1> QED
  BY <1>2, <1>3, <1>4

(* ... and a slice that comes back is put in front.                        *)
LEMMA SliceFreeStep ==
  ASSUME KInv, NEW s \in sheld, km_slice_free(s)
  PROVE  ListKept' /\ KmemTypeOK' /\ SlicesOnce' /\ A!SliceReturn(s)
<1> USE DEF km_slice_free
<1>1. /\ ListKept /\ regions \in Seq(Region) /\ free_slices \in Seq(Nat) /\ SlicesOnce
      /\ UNCHANGED <<regions, km_initialized, held, free_pages, blk, n_pages, ret>>
      /\ km_initialized \in BOOLEAN
  BY DEF KInv, KmemTypeOK, boot, pages
<1>2. s \in Nat /\ s \notin SliceSet
  BY SeparateMeans DEF KInv, A!Separate
<1>3. /\ DOMAIN free_slices = 1..Len(free_slices) /\ Len(free_slices) \in Nat
      /\ free_slices' \in Seq(Nat)
      /\ DOMAIN free_slices' = 1..(Len(free_slices) + 1) /\ free_slices'[1] = s
      /\ \A i \in DOMAIN free_slices : free_slices'[i + 1] = free_slices[i]
  BY <1>1, <1>2, SMTT(30)
<1>4. \A i \in DOMAIN free_slices' \ {1} :
        i - 1 \in DOMAIN free_slices /\ free_slices'[i] = free_slices[i - 1]
  <2>1. ASSUME NEW i \in DOMAIN free_slices' \ {1}
        PROVE  i - 1 \in DOMAIN free_slices /\ (i - 1) + 1 = i
    BY <1>3
  <2> QED
    BY <2>1, <1>3
<1>5. \A i \in DOMAIN free_slices : free_slices[i] # s
  BY <1>2 DEF SliceSet
<1>6. SlicesOnce'
  <2>1. ASSUME NEW i \in DOMAIN free_slices', NEW j \in DOMAIN free_slices',
               free_slices'[i] = free_slices'[j], i # 1, j # 1
        PROVE  i = j
    <3>1. i - 1 = j - 1
      BY <1>1, <1>4, <2>1 DEF SlicesOnce
    <3> QED
      BY <1>3, <3>1
  <2>2. \A i \in DOMAIN free_slices' \ {1} : free_slices'[i] # s
    BY <1>4, <1>5
  <2>3. ASSUME NEW i \in DOMAIN free_slices', NEW j \in DOMAIN free_slices',
               free_slices'[i] = free_slices'[j]
        PROVE  i = j
    <3> HIDE DEF km_slice_free
    <3> QED
      BY <1>3, <2>1, <2>2, <2>3
  <2> QED
    BY <2>3 DEF SlicesOnce
<1>7. SliceSet' = SliceSet \cup {s}
  <2>1. ASSUME NEW t \in SliceSet' PROVE t \in SliceSet \cup {s}
    BY <1>3, <1>4 DEF SliceSet
  <2>2. ASSUME NEW t \in SliceSet PROVE t \in SliceSet'
    <3>1. PICK i \in DOMAIN free_slices : t = free_slices[i]
      BY DEF SliceSet
    <3>2. i + 1 \in DOMAIN free_slices' /\ t = free_slices'[i + 1]
      BY <1>3, <3>1
    <3> QED
      BY <3>2 DEF SliceSet
  <2>3. s \in SliceSet'
    <3>1. 1 \in DOMAIN free_slices' /\ s = free_slices'[1]
      BY <1>3
    <3> QED
      BY <3>1 DEF SliceSet
  <2> QED
    BY <2>1, <2>2, <2>3
<1>8. ListKept' /\ FreeSet' = FreeSet
  BY <1>1 DEF ListKept, FreeSet, Pages
<1>9. A!SliceReturn(s)
  BY <1>1, <1>7, <1>8 DEF A!SliceReturn, SliceSet
<1> QED
  BY <1>1, <1>3, <1>6, <1>8, <1>9 DEF KmemTypeOK

-----------------------------------------------------------------------------
(* The theorems.                                                           *)

LEMMA KInvInit == KInit => KInv
<1> SUFFICES ASSUME KInit PROVE KInv
  OBVIOUS
<1> USE DEF KInit
<1>1. DOMAIN blk = {} /\ FreeOf(blk) = {}
  BY DEF FreeOf
<1>2. KmemTypeOK
  <2>1. regions \in Seq(Region)
    BY KmemAssumption
  <2>2. free_slices \in Seq(Nat)
    OBVIOUS
  <2>3. km_initialized \in BOOLEAN
    OBVIOUS
  <2> QED
    BY <2>1, <2>2, <2>3 DEF KmemTypeOK
<1>3. ListKept
  <2>1. blk \in [DOMAIN blk -> Header]
    BY <1>1
  <2> QED
    BY <1>1, <2>1, FS_EmptySet DEF ListKept, IsList, Coalesced
<1>4. A!Separate
  BY <1>1 DEF A!Separate, FreeSet, FreeOf
<1>5. SlicesOnce
  BY DEF SlicesOnce
<1>6. BootKept
  BY <1>1, MapsAssumption DEF BootKept
<1> QED
  BY <1>2, <1>3, <1>4, <1>5, <1>6 DEF KInv

(* Every step keeps the invariant and is a step of the allocator.          *)
LEMMA KInvNext ==
  KInv /\ [KNext]_kvars => KInv' /\ [A!ANext]_A!avars
<1> SUFFICES ASSUME KInv, [KNext]_kvars PROVE KInv' /\ [A!ANext]_A!avars
  OBVIOUS
<1>1. SUFFICES /\ KmemTypeOK' /\ ListKept' /\ SlicesOnce' /\ BootKept'
               /\ [A!ANext]_A!avars
  BY A!SeparateKept DEF KInv
<1>2. CASE InitRegion
  <2>1. SlicesOnce'
    BY <1>2 DEF InitRegion, slices, KInv, SlicesOnce
  <2> QED
    BY <1>2, <2>1, InitStep DEF A!ANext
<1>3. ASSUME Running, UNCHANGED boot PROVE BootKept' /\ (free_slices' \in Seq(Nat) => KmemTypeOK')
  BY <1>3 DEF Running, boot, BootKept, KInv, KmemTypeOK
<1>4. ASSUME UNCHANGED slices PROVE SlicesOnce' /\ free_slices' \in Seq(Nat)
  BY <1>4 DEF slices, SlicesOnce, KInv, KmemTypeOK
<1>5. ASSUME NEW n \in Counts, km_page_alloc(n)
      PROVE  /\ KmemTypeOK' /\ ListKept' /\ SlicesOnce' /\ BootKept'
             /\ [A!ANext]_A!avars
  <2>1. Running /\ UNCHANGED boot /\ UNCHANGED slices
    BY <1>5 DEF km_page_alloc
  <2> QED
    BY <1>3, <1>4, <1>5, <2>1, AllocStep DEF A!ANext
<1>6. ASSUME NEW a \in held, NEW n \in (Counts \ {0}) \cup {1}, km_page_free_multi(a, n)
      PROVE  /\ KmemTypeOK' /\ ListKept' /\ SlicesOnce' /\ BootKept'
             /\ [A!ANext]_A!avars
  <2>1. Running /\ UNCHANGED boot /\ UNCHANGED slices
    BY <1>6 DEF km_page_free_multi
  <2>2. n \in Nat \ {0} /\ n \in Counts \cup {1}
    BY KmemAssumption
  <2> QED
    BY <1>3, <1>4, <1>6, <2>1, <2>2, FreeStep DEF A!ANext
<1>7. CASE km_slice_alloc
  <2>1. Running /\ UNCHANGED boot
    BY <1>7 DEF km_slice_alloc
  <2> QED
    BY <1>3, <1>7, <2>1, SliceAllocStep DEF A!ANext
<1>8. ASSUME NEW s \in sheld, km_slice_free(s)
      PROVE  /\ KmemTypeOK' /\ ListKept' /\ SlicesOnce' /\ BootKept'
             /\ [A!ANext]_A!avars
  <2>1. Running /\ UNCHANGED boot
    BY <1>8 DEF km_slice_free
  <2> QED
    BY <1>3, <1>8, <2>1, SliceFreeStep DEF A!ANext
<1>9. CASE UNCHANGED <<boot, pages, slices, held, ret>>
  <2>1. UNCHANGED <<regions, km_initialized, free_pages, blk, n_pages,
                    free_slices, n_slices, sheld, held, ret>>
    BY <1>9 DEF boot, pages, slices
  <2>2. FreeSet' = FreeSet /\ KmemTypeOK' /\ ListKept' /\ SlicesOnce' /\ BootKept'
    BY <2>1 DEF KInv, KmemTypeOK, ListKept, SlicesOnce, BootKept, FreeSet, Pages
  <2> QED
    BY <2>1, <2>2 DEF A!avars
<1> QED
  BY <1>2, <1>5, <1>6, <1>7, <1>8, <1>9
  DEF KNext, PageAlloc, PageFree, PageFreeMulti, km_page_free, SliceFree,
      AllocTooEarly, Halted, kvars

(* The page list of kmem.c is in address order, without overlap and fully  *)
(* coalesced, and n_pages counts it, whatever the BIOS reports and the     *)
(* callers do.                                                             *)
THEOREM PageListAlwaysSound == KSpec => []PageListSound
<1>1. KInv => PageListSound
  <2> SUFFICES ASSUME KInv PROVE PageListSound
    OBVIOUS
  <2>1. IsList(blk, free_pages) /\ Coalesced(blk) /\ n_pages = Cardinality(FreeSet)
    BY DEF KInv, ListKept, FreeOf, FreeSet
  <2>2. ASSUME NEW S, S \subseteq Nat, NEW m \in S, \A x \in S : m <= x
        PROVE  m = Min(S)
    <3>1. \A x \in S : (\A y \in S : x <= y) => x = m
      BY <2>2
    <3> QED
      BY <2>2, <3>1 DEF Min
  <2>3. IF blk = << >> THEN free_pages = NULL ELSE free_pages = Min(DOMAIN blk)
    <3>1. blk = << >> => DOMAIN blk = {}
      OBVIOUS
    <3>2. DOMAIN blk = {} => blk = << >>
      BY <2>1 DEF IsList
    <3>3. DOMAIN blk # {} => free_pages = Min(DOMAIN blk)
      BY <2>1, <2>2 DEF IsList
    <3> QED
      BY <2>1, <3>1, <3>2, <3>3 DEF IsList
  <2>4. ASSUME NEW b \in DOMAIN blk
        PROVE  LET higher == {c \in DOMAIN blk : c > b} IN
               IF higher = {} THEN blk[b].next = NULL
               ELSE blk[b].next = Min(higher) /\ EndOf(b) < Min(higher)
    <3> DEFINE higher == {c \in DOMAIN blk : c > b}
    <3>1. LinksUp(blk, b) /\ DOMAIN blk \subseteq Nat
      BY <2>1 DEF IsList
    <3>2. CASE higher = {}
      BY <3>1, <3>2 DEF LinksUp
    <3>3. CASE higher # {}
      <4>1. blk[b].next \in higher /\ \A c \in higher : blk[b].next <= c
        BY <3>1, <3>3 DEF LinksUp
      <4>2. blk[b].next = Min(higher)
        BY <2>2, <3>1, <4>1
      <4>3. EndOf(b) < blk[b].next
        <5>1. EndOf(b) = End(blk, b) /\ End(blk, b) \in Nat
          BY <2>1, BlockTypes DEF EndOf, End
        <5>2. End(blk, b) <= blk[b].next /\ End(blk, b) # blk[b].next
          BY <2>1, <4>1 DEF IsList, Coalesced
        <5> QED
          BY <3>1, <4>1, <5>1, <5>2
      <4> QED
        BY <3>3, <4>2, <4>3
    <3> QED
      BY <3>2, <3>3
  <2> QED
    BY <2>1, <2>3, <2>4 DEF PageListSound
<1> QED
  BY <1>1, KInvInit, KInvNext, PTL DEF KSpec

(* kmem.c implements the allocator its header comment promises.            *)
THEOREM KmemImplementsAllocator == KSpec => ImplementsAllocator
<1>1. KInit => A!AInit
  BY DEF KInit, A!AInit, A!NULL, NULL, FreeSet
<1> QED
  BY <1>1, KInvInit, KInvNext, PTL DEF KSpec, ImplementsAllocator, A!ASpec

(* No byte of memory is ever in two hands.                                 *)
THEOREM KmemSeparate == KSpec => []A!Separate
<1>1. KInv => A!Separate
  BY DEF KInv
<1> QED
  BY <1>1, KInvInit, KInvNext, PTL DEF KSpec

-----------------------------------------------------------------------------
(* The loops over the page list themselves.                                *)

(* A walk that is not at its end after i turns has passed i blocks, so it  *)
(* ends within as many turns as there are blocks.                          *)
Passed(c) == {b \in DOMAIN blk : b < c}

LEMMA HeadersFinite ==
  ASSUME ListKept
  PROVE  IsFiniteSet(DOMAIN blk) /\ DOMAIN blk \subseteq FreeOf(blk)
<1>1. ASSUME NEW b \in DOMAIN blk PROVE b \in FreeOf(blk)
  <2>1. 0 \in Nat /\ 0 < blk[b].pages /\ b = b + SZ_PAGE * 0 /\ b \in Nat
        /\ blk[b].pages \in Nat
    BY BlockTypes DEF SZ_PAGE, ListKept
  <2>2. b \in Pages(b, blk[b].pages)
    BY <2>1, InPages
  <2> QED
    BY <2>2 DEF FreeOf
<1>2. DOMAIN blk \in SUBSET FreeOf(blk)
  BY <1>1
<1> QED
  BY <1>2, FS_Subset DEF ListKept

LEMMA PassedGrows ==
  ASSUME ListKept, NEW c \in DOMAIN blk, blk[c].next # NULL
  PROVE  /\ blk[c].next \in DOMAIN blk
         /\ Cardinality(Passed(blk[c].next)) = Cardinality(Passed(c)) + 1
         /\ Cardinality(Passed(c)) \in Nat
<1>1. IsList(blk, free_pages) /\ LinksUp(blk, c)
  BY DEF ListKept, IsList
<1>2. blk[c].next \in DOMAIN blk /\ Passed(blk[c].next) = Passed(c) \cup {c}
  BY <1>1, BlockTypes DEF LinksUp, Passed
<1>3. c \notin Passed(c)
  BY <1>1, BlockTypes DEF Passed
<1>4. IsFiniteSet(Passed(c))
  <2>1. Passed(c) \in SUBSET DOMAIN blk
    BY DEF Passed
  <2> QED
    BY <2>1, HeadersFinite, FS_Subset
<1> QED
  BY <1>2, <1>3, <1>4, FS_AddElement, FS_CardinalityType

LEMMA PassedBound ==
  ASSUME ListKept, NEW c \in DOMAIN blk
  PROVE  /\ Cardinality(DOMAIN blk) \in Nat /\ Cardinality(Passed(c)) \in Nat
         /\ Cardinality(Passed(c)) < Cardinality(DOMAIN blk)
<1>1. IsList(blk, free_pages)
  BY DEF ListKept
<1>2. IsFiniteSet(DOMAIN blk)
  BY HeadersFinite
<1>3. Passed(c) \in SUBSET DOMAIN blk /\ c \notin Passed(c)
  BY <1>1, BlockTypes DEF Passed
<1>4. /\ IsFiniteSet(Passed(c)) /\ Cardinality(Passed(c)) <= Cardinality(DOMAIN blk)
      /\ Cardinality(Passed(c)) # Cardinality(DOMAIN blk)
  BY <1>2, <1>3, FS_Subset
<1> QED
  BY <1>2, <1>4, FS_CardinalityType

(* The walk to address a, turn by turn.                                    *)
LEMMA WalkedEnds ==
  ASSUME ListKept, NEW a \in Nat \ {0}, a \notin DOMAIN blk
  PROVE  Prev(a) = {Walked(a)[1]} \ {NULL} /\ Curr(a) = Walked(a)[2]
<1> DEFINE n == Cardinality(DOMAIN blk)
           W(f) == [i \in 0..n |->
                      IF i = 0 THEN <<NULL, free_pages>>
                      ELSE LET c == f[i - 1][2] IN
                           IF c = NULL \/ c >= a THEN f[i - 1] ELSE <<c, blk[c].next>>]
           at == CHOOSE f : f = W(f)
<1>1. Walked(a) = at[n]
  BY DEF Walked
<1>2. IsList(blk, free_pages) /\ n \in Nat
  BY HeadersFinite, FS_CardinalityType DEF ListKept
<1> HIDE DEF n
<1>3. at = W(at)
  <2> DEFINE D == DOMAIN blk \cup {NULL}
             S == D \X D
             g == [t \in Nat \X S |->
                     IF t[2][2] = NULL \/ t[2][2] >= a THEN t[2]
                     ELSE <<t[2][2], blk[t[2][2]].next>>]
  <2>1. free_pages \in D /\ \A b \in DOMAIN blk : blk[b].next \in D
    BY <1>2 DEF IsList, LinksUp
  <2>2. <<NULL, free_pages>> \in S /\ g \in [Nat \X S -> S]
    BY <2>1
  <2>3. PICK f \in [0..n -> S] :
          f[0] = <<NULL, free_pages>> /\ \A i \in 1..n : f[i] = g[<<i, f[i - 1]>>]
    <3> DEFINE x == <<NULL, free_pages>>
    <3> HIDE DEF S, g, x, W, at
    <3>1. x \in S /\ g \in [Nat \X S -> S] /\ n \in Nat
      BY <1>2, <2>2 DEF x
    <3>2. LoopRuns(x, g, n, S) # {}
      BY <3>1, Iterates
    <3> QED
      BY <3>2 DEF x, LoopRuns
  <2>4. f = W(f)
    <3>1. ASSUME NEW i \in 0..n PROVE f[i] = W(f)[i]
      <4>1. CASE i = 0
        BY <2>3, <4>1
      <4>2. CASE i # 0
        <5>1. i \in 1..n /\ i - 1 \in 0..n
          BY <1>2, <4>2
        <5>2. f[i] = g[<<i, f[i - 1]>>] /\ f[i - 1] \in S
          BY <2>3, <5>1
        <5> QED
          BY <4>2, <5>2
      <4> QED
        BY <4>1, <4>2
    <3> QED
      BY <3>1
  <2> QED
    BY <2>4
<1> HIDE DEF at
<1>10. 0 \in 0..n /\ W(at)[0] = <<NULL, free_pages>>
  BY <1>2
<1>11. at[0] = <<NULL, free_pages>>
  <2> HIDE DEF W
  <2> QED
    BY <1>3, <1>10
<1> DEFINE Good(i) ==
      /\ at[i] = <<at[i][1], at[i][2]>>
      /\ at[i][2] = NULL \/ at[i][2] \in DOMAIN blk
      /\ \/ at[i][1] = NULL /\ at[i][2] = free_pages
         \/ at[i][1] \in DOMAIN blk /\ at[i][1] < a /\ at[i][2] = blk[at[i][1]].next
      /\ at[i][2] = NULL \/ at[i][2] >= a \/ Cardinality(Passed(at[i][2])) >= i
           Bad == {i \in 0..n : ~Good(i)}
<1>4. ASSUME NEW i \in Bad, \A j \in Bad : i <= j PROVE FALSE
  <2>1. CASE i = 0
    <3>1. at[0] = <<NULL, free_pages>>
      BY <1>11
    <3>2. free_pages = NULL \/ free_pages \in DOMAIN blk
      BY <1>2 DEF IsList
    <3>3. free_pages \in DOMAIN blk => Cardinality(Passed(free_pages)) >= 0
      BY PassedBound
    <3> QED
      BY <2>1, <3>1, <3>2, <3>3
  <2>2. CASE i # 0
    <3> DEFINE j == i - 1
               c == at[j][2]
    <3>1. j \in 0..n /\ j \notin Bad /\ j + 1 = i /\ i \in 0..n
      <4> HIDE DEF Good
      <4>1. i \in 0..n /\ Bad \subseteq Int
        BY <1>4
      <4> QED
        BY <4>1, <1>2, <1>4, <2>2
    <3>2. Good(j)
      BY <3>1
    <3>3. at[i] = IF c = NULL \/ c >= a THEN at[j] ELSE <<c, blk[c].next>>
      BY <1>3, <2>2, <3>1
    <3> HIDE DEF j
    <3>4. CASE c = NULL \/ c >= a
      BY <3>1, <3>2, <3>3, <3>4
    <3>5. CASE ~(c = NULL \/ c >= a)
      <4>1. c \in DOMAIN blk /\ c < a /\ at[i] = <<c, blk[c].next>>
        BY <3>2, <3>3, <3>5, <1>2, BlockTypes
      <4>2. LinksUp(blk, c)
        BY <1>2, <4>1 DEF IsList
      <4>3. Cardinality(Passed(c)) >= j
        BY <3>2, <3>5
      <4>4. blk[c].next = NULL \/ (/\ blk[c].next \in DOMAIN blk
                                   /\ Cardinality(Passed(blk[c].next)) >= i)
        BY <3>1, <4>1, <4>3, PassedGrows, PassedBound
      <4> HIDE DEF c
      <4> QED
        BY <4>1, <4>4
    <3> QED
      BY <3>4, <3>5
  <2> QED
    BY <2>1, <2>2
<1>5. Bad = {}
  <2> HIDE DEF Good
  <2>1. Bad \subseteq Nat
    BY <1>2
  <2> QED
    BY <2>1, <1>4, LeastNat
<1>6. Good(n)
  BY <1>2, <1>5
<1> DEFINE p == at[n][1]
           c == at[n][2]
<1>7. c = NULL \/ c >= a
  BY <1>6, PassedBound DEF n
<1>8. CASE p = NULL /\ c = free_pages
  <2>1. ASSUME NEW b \in DOMAIN blk PROVE a < b
    BY <1>2, <1>7, <1>8, BlockTypes DEF IsList, NULL
  <2>2. Prev(a) = {}
    BY <2>1, <1>2, BlockTypes DEF Prev
  <2>3. Curr(a) = free_pages
    BY <2>2 DEF Curr
  <2> QED
    BY <1>1, <1>8, <2>2, <2>3
<1>9. CASE p \in DOMAIN blk /\ p < a /\ c = blk[p].next
  <2>1. p \in Prev(a) /\ p # NULL
    BY <1>2, <1>7, <1>9, BlockTypes DEF Prev, NULL
  <2>2. Prev(a) = {p} /\ Curr(a) = blk[p].next
    BY <1>2, <2>1, WalkEnds
  <2> QED
    BY <1>1, <1>9, <2>1, <2>2
<1> QED
  BY <1>6, <1>8, <1>9

(* The search for count pages, turn by turn.                               *)
LEMMA SearchedEnds ==
  ASSUME ListKept, NEW count \in Nat
  PROVE  Searched(count) =
           IF LargeEnough(count) = {} THEN NULL ELSE FirstFit(count)
<1> DEFINE n == Cardinality(DOMAIN blk)
           W(f) == [i \in 0..n |->
                      IF i = 0 THEN free_pages
                      ELSE LET c == f[i - 1] IN
                           IF c = NULL \/ blk[c].pages >= count THEN c ELSE blk[c].next]
           at == CHOOSE f : f = W(f)
<1>1. Searched(count) = at[n]
  BY DEF Searched
<1>2. IsList(blk, free_pages) /\ n \in Nat
  BY HeadersFinite, FS_CardinalityType DEF ListKept
<1> HIDE DEF n
<1>3. at = W(at)
  <2> DEFINE S == DOMAIN blk \cup {NULL}
             g == [t \in Nat \X S |->
                     IF t[2] = NULL \/ blk[t[2]].pages >= count THEN t[2]
                     ELSE blk[t[2]].next]
  <2>1. free_pages \in S /\ \A b \in DOMAIN blk : blk[b].next \in S
    BY <1>2 DEF IsList, LinksUp
  <2>2. g \in [Nat \X S -> S]
    BY <2>1
  <2>3. PICK f \in [0..n -> S] :
          f[0] = free_pages /\ \A i \in 1..n : f[i] = g[<<i, f[i - 1]>>]
    <3> HIDE DEF S, g, W, at
    <3>1. LoopRuns(free_pages, g, n, S) # {}
      BY <1>2, <2>1, <2>2, Iterates
    <3> QED
      BY <3>1 DEF LoopRuns
  <2>4. f = W(f)
    <3>1. ASSUME NEW i \in 0..n PROVE f[i] = W(f)[i]
      <4>1. CASE i = 0
        BY <2>3, <4>1
      <4>2. CASE i # 0
        <5>1. i \in 1..n /\ i - 1 \in 0..n
          BY <1>2, <4>2
        <5>2. f[i] = g[<<i, f[i - 1]>>] /\ f[i - 1] \in S
          BY <2>3, <5>1
        <5> QED
          BY <4>2, <5>2
      <4> QED
        BY <4>1, <4>2
    <3> QED
      BY <3>1
  <2> QED
    BY <2>4
<1> HIDE DEF at
<1>4. 0 \in 0..n /\ W(at)[0] = free_pages
  BY <1>2
<1>5. at[0] = free_pages
  <2> HIDE DEF W
  <2> QED
    BY <1>3, <1>4
<1> DEFINE Small(b) == blk[b].pages < count
           Good(i) ==
      /\ \/ at[i] = NULL /\ \A b \in DOMAIN blk : Small(b)
         \/ at[i] \in DOMAIN blk /\ \A b \in DOMAIN blk : b < at[i] => Small(b)
      /\ \/ at[i] = NULL \/ blk[at[i]].pages >= count
         \/ Cardinality(Passed(at[i])) >= i
           Bad == {i \in 0..n : ~Good(i)}
<1>6. ASSUME NEW i \in Bad, \A j \in Bad : i <= j PROVE FALSE
  <2>1. CASE i = 0
    <3>1. (free_pages = NULL /\ DOMAIN blk = {}) \/ free_pages \in DOMAIN blk
      BY <1>2 DEF IsList
    <3>2. free_pages \in DOMAIN blk => Cardinality(Passed(free_pages)) >= 0
      BY PassedBound
    <3>3. free_pages \in DOMAIN blk => \A b \in DOMAIN blk : ~(b < free_pages)
      BY <1>2, BlockTypes DEF IsList
    <3> QED
      BY <1>5, <2>1, <3>1, <3>2, <3>3
  <2>2. CASE i # 0
    <3> DEFINE j == i - 1
               c == at[j]
    <3>1. j \in 0..n /\ j \notin Bad /\ j + 1 = i /\ i \in 0..n
      <4> HIDE DEF Good
      <4>1. i \in 0..n /\ Bad \subseteq Int
        BY <1>6
      <4> QED
        BY <4>1, <1>2, <1>6, <2>2
    <3>2. Good(j)
      BY <3>1
    <3>3. at[i] = IF c = NULL \/ blk[c].pages >= count THEN c ELSE blk[c].next
      BY <1>3, <2>2, <3>1
    <3> HIDE DEF j
    <3>4. CASE c = NULL \/ blk[c].pages >= count
      BY <3>1, <3>2, <3>3, <3>4
    <3>5. CASE ~(c = NULL \/ blk[c].pages >= count)
      <4>1. c \in DOMAIN blk /\ Small(c) /\ at[i] = blk[c].next
        BY <3>2, <3>3, <3>5, <1>2, BlockTypes
      <4>2. LinksUp(blk, c)
        BY <1>2, <4>1 DEF IsList
      <4>3. Cardinality(Passed(c)) >= j /\ \A b \in DOMAIN blk : b < c => Small(b)
        BY <3>2, <3>5, <4>1
      <4>4. blk[c].next = NULL \/ (/\ blk[c].next \in DOMAIN blk
                                   /\ Cardinality(Passed(blk[c].next)) >= i)
        BY <3>1, <4>1, <4>3, PassedGrows, PassedBound
      <4> HIDE DEF c, Small
      <4>5. \A b \in DOMAIN blk : b <= c => Small(b)
        BY <1>2, <4>1, <4>3, BlockTypes
      <4>6. \/ blk[c].next = NULL /\ \A b \in DOMAIN blk : Small(b)
            \/ blk[c].next \in DOMAIN blk
               /\ \A b \in DOMAIN blk : b < blk[c].next => Small(b)
        BY <1>2, <4>1, <4>2, <4>5, BlockTypes DEF LinksUp
      <4> QED
        BY <4>1, <4>4, <4>6
    <3> QED
      BY <3>4, <3>5
  <2> QED
    BY <2>1, <2>2
<1>7. Bad = {}
  <2> HIDE DEF Good
  <2>1. Bad \subseteq Nat
    BY <1>2
  <2> QED
    BY <2>1, <1>6, LeastNat
<1>8. Good(n)
  BY <1>2, <1>7
<1>9. CASE at[n] = NULL
  <2>1. at[n] \notin DOMAIN blk
    BY <1>2, <1>9 DEF IsList, NULL
  <2>2. LargeEnough(count) = {}
    BY <1>2, <1>8, <2>1, BlockTypes DEF LargeEnough
  <2> QED
    BY <1>1, <1>9, <2>2
<1>10. CASE at[n] # NULL
  <2>1. at[n] \in DOMAIN blk /\ blk[at[n]].pages >= count
    BY <1>8, <1>10, PassedBound DEF n
  <2>2. at[n] \in LargeEnough(count) /\ \A b \in LargeEnough(count) : at[n] <= b
    BY <1>2, <1>8, <1>10, <2>1, BlockTypes DEF LargeEnough
  <2>3. FirstFit(count) = at[n]
    <3>1. FirstFit(count) \in LargeEnough(count) /\ FirstFit(count) <= at[n]
      BY <1>2, <2>2, SearchEnds
    <3>2. FirstFit(count) \in Nat /\ at[n] \in Nat
      BY <1>2, <2>1, <3>1, BlockTypes DEF LargeEnough
    <3> QED
      BY <2>2, <3>1, <3>2
  <2> QED
    BY <1>1, <2>2, <2>3
<1> QED
  BY <1>9, <1>10

(* The loops of add_block, km_page_free_multi and km_page_alloc end, and   *)
(* they end where the model says.                                          *)
THEOREM LoopsAlwaysEndThere == KSpec => []LoopsEndThere
<1>1. KInv => LoopsEndThere
  <2> SUFFICES ASSUME KInv PROVE LoopsEndThere
    OBVIOUS
  <2>1. ListKept
    BY DEF KInv
  <2>2. \A a \in held : a \in Nat \ {0} /\ a \notin DOMAIN blk
    BY <2>1, HeadersFinite, SeparateMeans DEF KInv
  <2>3. \A m \in Counts \ {0} : m \in Nat
    BY KmemAssumption
  <2> QED
    BY <2>1, <2>2, <2>3, WalkedEnds, SearchedEnds DEF LoopsEndThere
<1> QED
  BY <1>1, KInvInit, KInvNext, PTL DEF KSpec
=============================================================================
