---------------------------- MODULE ScreenProofs ----------------------------
(***************************************************************************)
(* The screen of cio.c, for screens of every size: whatever calls of the   *)
(* kernel follow one another, the cursor stays in the scrolling region,    *)
(* the region shows the end of an endless paper, output into the region    *)
(* changes nothing outside it, and cio_printf writes the string sprint     *)
(* builds.                                                                 *)
(*                                                                         *)
(* The screen and the paper are related by Shows.  Each operator of cio.c  *)
(* has a lemma that says what it gives when it is given a screen and, if   *)
(* it writes at the cursor, that the paper typed on is shown afterwards.   *)
(***************************************************************************)
EXTENDS MCDevices, ProofBasics, FiniteSetTheorems, SequenceTheorems, TLAPS

-----------------------------------------------------------------------------
(* The screen.                                                             *)

(* The region lies on the screen and the cursor in the region; where a     *)
(* scroll is due, it is at the left margin.                                *)
InRegion(v) ==
  /\ 0 <= v.min_x /\ v.min_x <= v.max_x /\ v.max_x <= SCREEN_MAX_X
  /\ 0 <= v.min_y /\ v.min_y <= v.max_y /\ v.max_y <= SCREEN_MAX_Y
  /\ v.min_x <= v.x /\ v.x <= v.max_x
  /\ v.min_y <= v.y /\ v.y <= v.max_y + 1
  /\ v.y = v.max_y + 1 => v.x = v.min_x

Screens ==
  {v \in [screen : [Cells -> Int], min_x : Int, min_y : Int, max_x : Int, max_y : Int,
          x : Int, y : Int] : InRegion(v)}

(* The region of w is that of v, ...                                       *)
SameRegion(v, w) ==
  w.min_x = v.min_x /\ w.min_y = v.min_y /\ w.max_x = v.max_x /\ w.max_y = v.max_y

(* ... and what is outside is the same.                                    *)
KeepsOutside(v, w) ==
  /\ w \in Screens /\ SameRegion(v, w)
  /\ \A p \in Cells : p \notin Region(v) => w.screen[p] = v.screen[p]

LEMMA ScreenIs ==
  ASSUME NEW v \in Screens
  PROVE  /\ v.screen \in [Cells -> Int] /\ InRegion(v)
         /\ v.min_x \in Int /\ v.min_y \in Int /\ v.max_x \in Int /\ v.max_y \in Int
         /\ v.x \in Int /\ v.y \in Int
         /\ v = [screen |-> v.screen, min_x |-> v.min_x, min_y |-> v.min_y,
                 max_x |-> v.max_x, max_y |-> v.max_y, x |-> v.x, y |-> v.y]
         /\ SCREEN_MAX_X \in Nat /\ SCREEN_MAX_Y \in Nat
BY CioAssumption DEF Screens

LEMMA OutsideSelf ==
  ASSUME NEW v \in Screens
  PROVE  KeepsOutside(v, v)
BY DEF KeepsOutside, SameRegion

LEMMA OutsideTrans ==
  ASSUME NEW u, NEW v, NEW w, KeepsOutside(u, v), KeepsOutside(v, w)
  PROVE  KeepsOutside(u, w)
<1>1. Region(v) = Region(u)
  BY DEF KeepsOutside, SameRegion, Region
<1> QED
  BY <1>1 DEF KeepsOutside, SameRegion

(* A place of the region is a place of the screen.                         *)
LEMMA RegionOnScreen ==
  ASSUME NEW v \in Screens
  PROVE  /\ Region(v) \subseteq Cells
         /\ v.y <= v.max_y => <<v.x, v.y>> \in Region(v)
         /\ <<v.min_x, v.min_y>> \in Region(v)
<1>1. InRegion(v) /\ SCREEN_MAX_X \in Nat /\ SCREEN_MAX_Y \in Nat
      /\ v.min_x \in Int /\ v.min_y \in Int /\ v.max_x \in Int /\ v.max_y \in Int
      /\ v.x \in Int /\ v.y \in Int
  BY ScreenIs
<1>2. v.min_x..v.max_x \subseteq 0..SCREEN_MAX_X /\ v.min_y..v.max_y \subseteq 0..SCREEN_MAX_Y
  BY <1>1 DEF InRegion
<1>3. v.x \in v.min_x..v.max_x /\ v.min_x \in v.min_x..v.max_x /\ v.min_y \in v.min_y..v.max_y
  BY <1>1 DEF InRegion
<1>4. v.y <= v.max_y => v.y \in v.min_y..v.max_y
  BY <1>1 DEF InRegion
<1> QED
  BY <1>2, <1>3, <1>4 DEF Region, Cells

(* The screen with other contents and another cursor.                      *)
Redrawn(v, scr, x, y) ==
  [screen |-> scr, min_x |-> v.min_x, min_y |-> v.min_y, max_x |-> v.max_x,
   max_y |-> v.max_y, x |-> x, y |-> y]

LEMMA AsDrawn ==
  ASSUME NEW v \in Screens
  PROVE  v = Redrawn(v, v.screen, v.x, v.y)
BY ScreenIs DEF Redrawn

LEMMA SetScreen ==
  ASSUME NEW v, NEW scr, NEW x, NEW y, NEW z
  PROVE  [Redrawn(v, scr, x, y) EXCEPT !.screen = z] = Redrawn(v, z, x, y)
BY DEF Redrawn

LEMMA SetX ==
  ASSUME NEW v, NEW scr, NEW x, NEW y, NEW a
  PROVE  [Redrawn(v, scr, x, y) EXCEPT !.x = a] = Redrawn(v, scr, a, y)
BY DEF Redrawn

LEMMA SetY ==
  ASSUME NEW v, NEW scr, NEW x, NEW y, NEW b
  PROVE  [Redrawn(v, scr, x, y) EXCEPT !.y = b] = Redrawn(v, scr, x, b)
BY DEF Redrawn

LEMMA SetBoth ==
  ASSUME NEW v, NEW scr, NEW x, NEW y, NEW a, NEW b
  PROVE  [Redrawn(v, scr, x, y) EXCEPT !.x = a, !.y = b] = Redrawn(v, scr, a, b)
<1>1. [Redrawn(v, scr, x, y) EXCEPT !.x = a, !.y = b]
        = [[Redrawn(v, scr, x, y) EXCEPT !.x = a] EXCEPT !.y = b]
  BY Zenon
<1>2. [Redrawn(v, scr, x, y) EXCEPT !.x = a] = Redrawn(v, scr, a, y)
  BY SetX
<1>3. [Redrawn(v, scr, a, y) EXCEPT !.y = b] = Redrawn(v, scr, a, b)
  BY SetY
<1> QED
  BY <1>1, <1>2, <1>3, Zenon

LEMMA RedrawnIs ==
  ASSUME NEW v \in Screens, NEW scr \in [Cells -> Int], NEW x \in Int, NEW y \in Int
  PROVE  LET w == Redrawn(v, scr, x, y) IN
         /\ w.screen = scr /\ w.x = x /\ w.y = y /\ SameRegion(v, w)
         /\ w \in [screen : [Cells -> Int], min_x : Int, min_y : Int, max_x : Int,
                   max_y : Int, x : Int, y : Int]
<1> DEFINE w == Redrawn(v, scr, x, y)
<1>1. v.min_x \in Int /\ v.min_y \in Int /\ v.max_x \in Int /\ v.max_y \in Int
  BY ScreenIs
<1>2. w.screen = scr /\ w.x = x /\ w.y = y /\ SameRegion(v, w)
  BY DEF SameRegion, Redrawn
<1>3. w \in [screen : [Cells -> Int], min_x : Int, min_y : Int, max_x : Int,
             max_y : Int, x : Int, y : Int]
  BY <1>1 DEF Redrawn
<1> QED
  BY <1>2, <1>3

LEMMA RedrawnKeeps ==
  ASSUME NEW v \in Screens, NEW scr \in [Cells -> Int], NEW x \in v.min_x..v.max_x,
         NEW y \in v.min_y..v.max_y + 1, y = v.max_y + 1 => x = v.min_x,
         \A p \in Cells : p \notin Region(v) => scr[p] = v.screen[p]
  PROVE  KeepsOutside(v, Redrawn(v, scr, x, y))
<1> DEFINE w == Redrawn(v, scr, x, y)
<1>1. InRegion(v) /\ v.min_x \in Int /\ v.min_y \in Int /\ v.max_x \in Int /\ v.max_y \in Int
  BY ScreenIs
<1>2. x \in Int /\ y \in Int
  BY <1>1
<1>3. /\ w.screen = scr /\ w.x = x /\ w.y = y /\ SameRegion(v, w)
      /\ w \in [screen : [Cells -> Int], min_x : Int, min_y : Int, max_x : Int,
                max_y : Int, x : Int, y : Int]
  BY <1>2, RedrawnIs
<1> HIDE DEF w
<1>4. InRegion(w)
  BY <1>1, <1>2, <1>3 DEF InRegion, SameRegion
<1> QED
  BY <1>3, <1>4 DEF KeepsOutside, Screens, w

-----------------------------------------------------------------------------
(* The screen and the paper.                                               *)

(* The lines of the paper of v.                                            *)
Strips(v) == [1..Width(v) -> Int]
Papers(v) == [lines : Seq(Strips(v)), col : Int, row : Int]

(* The region of v shows the end of the paper, and the typewriter is where *)
(* the cursor is.                                                          *)
Shows(v, t) ==
  LET gone == Len(t.lines) - Height(v) IN
  /\ t \in Papers(v) /\ gone >= 0
  /\ t.col = v.x - v.min_x + 1
  /\ t.row = v.y - v.min_y + 1 + gone
  /\ \A x \in v.min_x..v.max_x, y \in v.min_y..v.max_y :
       v.screen[<<x, y>>] = t.lines[gone + y - v.min_y + 1][x - v.min_x + 1]

LEMMA SizeIs ==
  ASSUME NEW v \in Screens
  PROVE  /\ Width(v) \in Nat /\ Height(v) \in Nat /\ Width(v) >= 1 /\ Height(v) >= 1
         /\ Width(v) = v.max_x - v.min_x + 1 /\ Height(v) = v.max_y - v.min_y + 1
<1>1. v.max_x - v.min_x \in Nat /\ v.max_y - v.min_y \in Nat
  BY ScreenIs DEF InRegion
<1> QED
  BY <1>1 DEF Width, Height

(* The frame and the cursor in numbers.                                    *)
LEMMA Bounds ==
  ASSUME NEW v \in Screens
  PROVE  \E a \in Int, b \in Int, c \in Int, d \in Int, x \in Int, y \in Int,
            w \in Int, h \in Int :
           /\ a = v.min_x /\ b = v.min_y /\ c = v.max_x /\ d = v.max_y
           /\ x = v.x /\ y = v.y /\ w = Width(v) /\ h = Height(v)
           /\ 0 <= a /\ a <= c /\ 0 <= b /\ b <= d /\ a <= x /\ x <= c
           /\ b <= y /\ y <= d + 1
           /\ w = c - a + 1 /\ h = d - b + 1 /\ w >= 1 /\ h >= 1
           /\ y = d + 1 => x = a
<1>1. InRegion(v) /\ v.min_x \in Int /\ v.min_y \in Int /\ v.max_x \in Int /\ v.max_y \in Int
      /\ v.x \in Int /\ v.y \in Int
  BY ScreenIs
<1>2. Width(v) \in Int /\ Height(v) \in Int /\ Width(v) >= 1 /\ Height(v) >= 1
      /\ Width(v) = v.max_x - v.min_x + 1 /\ Height(v) = v.max_y - v.min_y + 1
  BY SizeIs
<1>3. /\ 0 <= v.min_x /\ v.min_x <= v.max_x /\ 0 <= v.min_y /\ v.min_y <= v.max_y
      /\ v.min_x <= v.x /\ v.x <= v.max_x /\ v.min_y <= v.y /\ v.y <= v.max_y + 1
      /\ v.y = v.max_y + 1 => v.x = v.min_x
  BY <1>1 DEF InRegion
<1> DEFINE P(a, b, c, d, x, y, w, h) ==
           /\ a = v.min_x /\ b = v.min_y /\ c = v.max_x /\ d = v.max_y
           /\ x = v.x /\ y = v.y /\ w = Width(v) /\ h = Height(v)
           /\ 0 <= a /\ a <= c /\ 0 <= b /\ b <= d /\ a <= x /\ x <= c
           /\ b <= y /\ y <= d + 1
           /\ w = c - a + 1 /\ h = d - b + 1 /\ w >= 1 /\ h >= 1
           /\ y = d + 1 => x = a
<1>4. P(v.min_x, v.min_y, v.max_x, v.max_y, v.x, v.y, Width(v), Height(v))
  BY <1>2, <1>3, Zenon
<1>5. \E a \in Int, b \in Int, c \in Int, d \in Int, x \in Int, y \in Int,
         w \in Int, h \in Int : P(a, b, c, d, x, y, w, h)
  <2> HIDE DEF P
  <2> QED
    BY <1>1, <1>2, <1>4, Zenon
<1> QED
  BY <1>5

LEMMA SameSize ==
  ASSUME NEW v, NEW w, SameRegion(v, w)
  PROVE  /\ Width(w) = Width(v) /\ Height(w) = Height(v) /\ Papers(w) = Papers(v)
         /\ Region(w) = Region(v)
BY DEF SameRegion, Width, Height, Papers, Strips, Region

LEMMA ShowsIs ==
  ASSUME NEW v \in Screens, NEW t, Shows(v, t)
  PROVE  /\ t \in Papers(v) /\ t.lines \in Seq(Strips(v)) /\ t.col \in 1..Width(v)
         /\ Len(t.lines) \in Nat /\ Len(t.lines) >= Height(v) /\ t.row \in Nat \ {0}
         /\ t.row <= Len(t.lines) + 1
         /\ v.y <= v.max_y => t.row <= Len(t.lines)
         /\ v.y = v.max_y + 1 => t.row = Len(t.lines) + 1
<1>1. t \in Papers(v) /\ t.lines \in Seq(Strips(v))
  BY DEF Shows, Papers
<1>2. Len(t.lines) \in Nat
  BY <1>1
<1>3. Len(t.lines) - Height(v) >= 0 /\ t.col = v.x - v.min_x + 1
      /\ t.row = v.y - v.min_y + 1 + (Len(t.lines) - Height(v))
  BY DEF Shows
<1>4. PICK a \in Int, b \in Int, c \in Int, d \in Int, x \in Int, y \in Int,
          w \in Int, h \in Int :
        /\ a = v.min_x /\ b = v.min_y /\ c = v.max_x /\ d = v.max_y
        /\ x = v.x /\ y = v.y /\ w = Width(v) /\ h = Height(v)
        /\ a <= x /\ x <= c /\ b <= y /\ y <= d + 1 /\ w = c - a + 1 /\ h = d - b + 1
        /\ h >= 1
  BY Bounds
<1>5. PICK l \in Nat : l = Len(t.lines)
  BY <1>2
<1>6. t.col = x - a + 1 /\ t.row = y - b + 1 + (l - h) /\ l - h >= 0
  BY <1>3, <1>4, <1>5, Zenon
<1>7. x - a + 1 \in 1..w
  BY <1>4
<1>8. l - h >= 0
  BY <1>6
<1>9. /\ y - b + 1 + (l - h) \in Nat \ {0} /\ y - b + 1 + (l - h) <= l + 1
      /\ y <= d => y - b + 1 + (l - h) <= l
      /\ y = d + 1 => y - b + 1 + (l - h) = l + 1
      /\ l >= h
  BY <1>4, <1>8
<1>10. /\ t.row \in Nat \ {0} /\ t.row <= l + 1
       /\ y <= d => t.row <= l
       /\ y = d + 1 => t.row = l + 1
       /\ t.col \in 1..w /\ l >= h
  BY <1>6, <1>7, <1>9, Zenon
<1> QED
  BY <1>1, <1>4, <1>5, <1>10, Zenon

(* ... with the paper: the frame, the cursor, the size of the region, and  *)
(* the paper's length, row and column.                                     *)
Sums(a, b, c, d, x, y, w, h, l, r, k) ==
  /\ a \in Int /\ b \in Int /\ c \in Int /\ d \in Int /\ x \in Int /\ y \in Int
  /\ w \in Int /\ h \in Int /\ l \in Int /\ r \in Int /\ k \in Int
  /\ 0 <= a /\ a <= c /\ 0 <= b /\ b <= d /\ a <= x /\ x <= c
  /\ b <= y /\ y <= d + 1
  /\ w = c - a + 1 /\ h = d - b + 1 /\ w >= 1 /\ h >= 1
  /\ y = d + 1 => x = a
  /\ l >= h /\ k = x - a + 1 /\ r = y - b + 1 + (l - h)

LEMMA FrameIs ==
  ASSUME NEW v \in Screens, NEW t, Shows(v, t)
  PROVE  Sums(v.min_x, v.min_y, v.max_x, v.max_y, v.x, v.y, Width(v), Height(v),
              Len(t.lines), t.row, t.col)
<1> DEFINE l == Len(t.lines)
           r == t.row
           k == t.col
<1>1. PICK a \in Int, b \in Int, c \in Int, d \in Int, x \in Int, y \in Int,
           w \in Int, h \in Int :
           /\ a = v.min_x /\ b = v.min_y /\ c = v.max_x /\ d = v.max_y
           /\ x = v.x /\ y = v.y /\ w = Width(v) /\ h = Height(v)
           /\ 0 <= a /\ a <= c /\ 0 <= b /\ b <= d /\ a <= x /\ x <= c
           /\ b <= y /\ y <= d + 1
           /\ w = c - a + 1 /\ h = d - b + 1 /\ w >= 1 /\ h >= 1
           /\ y = d + 1 => x = a
  BY Bounds
<1>2. t \in Papers(v) /\ l \in Nat /\ l >= Height(v)
  BY ShowsIs
<1>3. r \in Int /\ k \in Int
  BY <1>2 DEF Papers
<1>4. k = v.x - v.min_x + 1 /\ r = v.y - v.min_y + 1 + (l - Height(v))
  BY DEF Shows
<1>5. Sums(v.min_x, v.min_y, v.max_x, v.max_y, v.x, v.y, Width(v), Height(v), l, r, k)
  <2> HIDE DEF l, r, k
  <2>1. l >= h /\ k = x - a + 1 /\ r = y - b + 1 + (l - h)
    BY <1>1, <1>2, <1>4, Zenon
  <2>2. l \in Int
    BY <1>2
  <2>3. Sums(a, b, c, d, x, y, w, h, l, r, k)
    BY <1>1, <1>3, <2>1, <2>2, Zenon DEF Sums
  <2> QED
    BY <1>1, <2>3, Zenon
<1> QED
  BY <1>5

(* A screen drawn anew in the region shows a paper of the same length if   *)
(* they agree on each place.                                               *)
LEMMA RedrawnShows ==
  ASSUME NEW v \in Screens, NEW t \in Papers(v), NEW u, Shows(v, t),
         NEW scr \in [Cells -> Int], NEW x \in v.min_x..v.max_x,
         NEW y \in v.min_y..v.max_y + 1, y = v.max_y + 1 => x = v.min_x,
         \A p \in Cells : p \notin Region(v) => scr[p] = v.screen[p],
         u \in Papers(v), Len(u.lines) = Len(t.lines),
         u.col = x - v.min_x + 1, u.row - t.row = y - v.y,
         \A a \in v.min_x..v.max_x, b \in v.min_y..v.max_y :
           scr[<<a, b>>] = u.lines[Len(t.lines) - Height(v) + b - v.min_y + 1][a - v.min_x + 1]
  PROVE  LET w == Redrawn(v, scr, x, y) IN KeepsOutside(v, w) /\ Shows(w, u)
<1> DEFINE w == Redrawn(v, scr, x, y)
<1>0. v.min_x \in Int /\ v.min_y \in Int /\ v.max_x \in Int /\ v.max_y \in Int
      /\ v.x \in Int /\ v.y \in Int
  BY ScreenIs
<1>1. KeepsOutside(v, w)
  BY RedrawnKeeps
<1>2. x \in Int /\ y \in Int
  BY <1>0
<1>3. w.screen = scr /\ w.x = x /\ w.y = y /\ SameRegion(v, w)
  BY <1>2, RedrawnIs
<1> HIDE DEF w
<1>4. Width(w) = Width(v) /\ Height(w) = Height(v) /\ Papers(w) = Papers(v)
  BY <1>3, SameSize
<1>5. u.row \in Int /\ t.row \in Int /\ Len(t.lines) \in Nat /\ Height(v) \in Nat
  BY SizeIs DEF Papers
<1>6. t.row = v.y - v.min_y + 1 + (Len(t.lines) - Height(v)) /\ Len(t.lines) - Height(v) >= 0
  BY DEF Shows
<1>7. u.row = y - v.min_y + 1 + (Len(t.lines) - Height(v))
  <2>1. PICK a \in Int, b \in Int, r \in Int, s \in Int, l \in Int, h \in Int :
          /\ a = v.y /\ b = v.min_y /\ r = u.row /\ s = t.row
          /\ l = Len(t.lines) /\ h = Height(v)
    <3>1. Len(t.lines) \in Int /\ Height(v) \in Int
      BY <1>5
    <3> QED
      BY <1>0, <1>5, <3>1, Zenon
  <2>2. r - s = y - a /\ s = a - b + 1 + (l - h)
    BY <1>6, <2>1, Zenon
  <2>3. r = y - b + 1 + (l - h)
    BY <1>2, <2>2
  <2> QED
    BY <2>1, <2>3, Zenon
<1>8. Shows(w, u)
  <2>1. u \in Papers(w) /\ Len(u.lines) - Height(w) >= 0 /\ u.col = w.x - w.min_x + 1
        /\ u.row = w.y - w.min_y + 1 + (Len(u.lines) - Height(w))
    BY <1>3, <1>4, <1>6, <1>7 DEF SameRegion
  <2>2. ASSUME NEW a \in w.min_x..w.max_x, NEW b \in w.min_y..w.max_y
        PROVE  w.screen[<<a, b>>] =
                 u.lines[Len(u.lines) - Height(w) + b - w.min_y + 1][a - w.min_x + 1]
    BY <1>3, <1>4 DEF SameRegion
  <2> QED
    BY <2>1, <2>2 DEF Shows
<1> QED
  BY <1>1, <1>8 DEF w

-----------------------------------------------------------------------------
(* One character.                                                          *)

Stroke(v, c) == [v.screen EXCEPT ![<<v.x, v.y>>] = c]
Rest(v) == [p \in Cells |-> IF p[1] \in v.x..v.max_x /\ p[2] = v.y THEN SPACE ELSE v.screen[p]]

(* cio_putchar where no scroll is due.                                     *)
LEMMA PutcharIs ==
  ASSUME NEW v \in Screens, NEW c \in Int, v.y <= v.max_y
  PROVE  cio_putchar(v, c) =
           CASE c = NEWLINE -> Redrawn(v, Rest(v), v.min_x, v.y + 1)
             [] c = RETURN -> Redrawn(v, v.screen, v.min_x, v.y)
             [] OTHER -> IF v.x + 1 > v.max_x
                         THEN Redrawn(v, Stroke(v, c), v.min_x, v.y + 1)
                         ELSE Redrawn(v, Stroke(v, c), v.x + 1, v.y)
<1>1. /\ v = Redrawn(v, v.screen, v.x, v.y)
      /\ v.max_x \in Int /\ v.y \in Int /\ v.x \in Int /\ v.max_y \in Int
  <2>1. v = Redrawn(v, v.screen, v.x, v.y)
    BY AsDrawn
  <2>2. v.max_x \in Int /\ v.y \in Int /\ v.x \in Int /\ v.max_y \in Int
    BY ScreenIs
  <2> QED
    BY <2>1, <2>2, Zenon
<1>3. Scrolled(v) = v
  <2>1. ~(v.y > v.max_y)
    BY <1>1
  <2> QED
    BY <2>1, Zenon DEF Scrolled
<1>4. putchar_at(v, v.x, v.y, c) = Redrawn(v, Stroke(v, c), v.x, v.y)
  <2>1. <<v.x, v.y>> \in Cells
    BY RegionOnScreen
  <2>2. putchar_at(v, v.x, v.y, c) = [v EXCEPT !.screen = Stroke(v, c)]
    BY <2>1 DEF putchar_at, Stroke
  <2>3. [Redrawn(v, v.screen, v.x, v.y) EXCEPT !.screen = Stroke(v, c)]
          = Redrawn(v, Stroke(v, c), v.x, v.y)
    BY SetScreen
  <2> QED
    BY <1>1, <2>2, <2>3, Zenon
<1>5. Erased(v, v.x, v.max_x, v.y) = Redrawn(v, Rest(v), v.x, v.y)
  <2>1. Erased(v, v.x, v.max_x, v.y) = [v EXCEPT !.screen = Rest(v)]
    BY DEF Erased, Rest
  <2>2. [Redrawn(v, v.screen, v.x, v.y) EXCEPT !.screen = Rest(v)]
          = Redrawn(v, Rest(v), v.x, v.y)
    BY SetScreen
  <2> QED
    BY <1>1, <2>1, <2>2, Zenon
<1> DEFINE s == Redrawn(v, Stroke(v, c), v.x, v.y)
           z == Redrawn(v, Rest(v), v.x, v.y)
           A == [z EXCEPT !.x = v.min_x, !.y = v.y + 1]
           B == [v EXCEPT !.x = v.min_x]
           C == [s EXCEPT !.x = v.min_x, !.y = v.y + 1]
           D == [s EXCEPT !.x = v.x + 1]
<1>6. cio_putchar(v, c) =
        CASE c = NEWLINE -> A
          [] c = RETURN -> B
          [] OTHER -> IF v.x + 1 > v.max_x THEN C ELSE D
  <2> DEFINE t == Scrolled(v)
             put == putchar_at(t, t.x, t.y, c)
  <2>1. cio_putchar(v, c) =
        CASE c = NEWLINE -> [Erased(t, t.x, t.max_x, t.y) EXCEPT !.x = t.min_x, !.y = t.y + 1]
          [] c = RETURN -> [t EXCEPT !.x = t.min_x]
          [] OTHER -> IF t.x + 1 > t.max_x THEN [put EXCEPT !.x = t.min_x, !.y = t.y + 1]
                      ELSE [put EXCEPT !.x = t.x + 1]
    BY DEF cio_putchar
  <2>2. t = v
    BY <1>3
  <2> HIDE DEF t
  <2> QED
    BY <1>4, <1>5, <2>1, <2>2, Zenon
<1>7. A = Redrawn(v, Rest(v), v.min_x, v.y + 1)
  <2>1. [z EXCEPT !.x = v.min_x] = Redrawn(v, Rest(v), v.min_x, v.y)
    BY SetX
  <2>2. [Redrawn(v, Rest(v), v.min_x, v.y) EXCEPT !.y = v.y + 1]
          = Redrawn(v, Rest(v), v.min_x, v.y + 1)
    BY SetY
  <2> QED
    BY <2>1, <2>2, Zenon
<1>8. B = Redrawn(v, v.screen, v.min_x, v.y)
  <2>1. [Redrawn(v, v.screen, v.x, v.y) EXCEPT !.x = v.min_x]
          = Redrawn(v, v.screen, v.min_x, v.y)
    BY SetX
  <2> QED
    BY <1>1, <2>1, Zenon
<1>9. C = Redrawn(v, Stroke(v, c), v.min_x, v.y + 1)
  <2>1. [s EXCEPT !.x = v.min_x] = Redrawn(v, Stroke(v, c), v.min_x, v.y)
    BY SetX
  <2>2. [Redrawn(v, Stroke(v, c), v.min_x, v.y) EXCEPT !.y = v.y + 1]
          = Redrawn(v, Stroke(v, c), v.min_x, v.y + 1)
    BY SetY
  <2> QED
    BY <2>1, <2>2, Zenon
<1>10. D = Redrawn(v, Stroke(v, c), v.x + 1, v.y)
  BY SetX
<1> HIDE DEF A, B, C, D
<1> QED
  BY <1>6, <1>7, <1>8, <1>9, <1>10

(* Typed where there is a line.                                            *)
LEMMA TypedIs ==
  ASSUME NEW v \in Screens, NEW t \in Papers(v), NEW c \in Int, t.row <= Len(t.lines),
         t.row \in Nat \ {0}, t.col \in 1..Width(v)
  PROVE  LET cut == [i \in 1..Width(v) |-> IF i < t.col THEN t.lines[t.row][i] ELSE SPACE]
             hit == [t.lines[t.row] EXCEPT ![t.col] = c]
         IN /\ Typed(t, c, Width(v)) =
                 CASE c = NEWLINE -> [lines |-> [t.lines EXCEPT ![t.row] = cut],
                                      col |-> 1, row |-> t.row + 1]
                   [] c = RETURN -> [lines |-> t.lines, col |-> 1, row |-> t.row]
                   [] OTHER ->
                        IF t.col = Width(v)
                        THEN [lines |-> [t.lines EXCEPT ![t.row] = hit], col |-> 1,
                              row |-> t.row + 1]
                        ELSE [lines |-> [t.lines EXCEPT ![t.row] = hit],
                              col |-> t.col + 1, row |-> t.row]
            /\ cut \in Strips(v) /\ hit \in Strips(v)
<1>1. t.lines \in Seq(Strips(v)) /\ t.row \in 1..Len(t.lines) /\ Len(t.lines) \in Nat
  BY DEF Papers
<1>2. t.lines[t.row] \in [1..Width(v) -> Int] /\ SPACE \in Int
  BY <1>1 DEF Strips, SPACE
<1>3. ~(t.row > Len(t.lines))
  BY <1>1
<1> DEFINE w == Width(v)
           cut == [i \in 1..w |-> IF i < t.col THEN t.lines[t.row][i] ELSE SPACE]
           hit == [t.lines[t.row] EXCEPT ![t.col] = c]
<1> HIDE DEF w
<1>4. cut \in [1..w -> Int] /\ hit \in [1..w -> Int]
  BY <1>2 DEF w
<1> DEFINE A == [lines |-> [t.lines EXCEPT ![t.row] = cut], col |-> 1, row |-> t.row + 1]
           B == [lines |-> t.lines, col |-> 1, row |-> t.row]
           one == [t.lines EXCEPT ![t.row] = hit]
           C == [lines |-> one, col |-> 1, row |-> t.row + 1]
           D == [lines |-> one, col |-> t.col + 1, row |-> t.row]
           down == [lines |-> t.lines, col |-> 1, row |-> t.row + 1]
           A1 == [down EXCEPT !.lines[t.row] = [i \in 1..w |-> IF i < t.col THEN @[i] ELSE SPACE]]
           C1 == [down EXCEPT !.lines = one]
<1>5. Typed(t, c, w) = CASE c = NEWLINE -> A1 [] c = RETURN -> B
                         [] OTHER -> IF t.col = w THEN C1 ELSE D
  <2> DEFINE L == IF t.row > Len(t.lines) THEN Append(t.lines, [i \in 1..w |-> SPACE])
                  ELSE t.lines
             fall == [lines |-> L, col |-> 1, row |-> t.row + 1]
             struck == [L EXCEPT ![t.row] = [@ EXCEPT ![t.col] = c]]
  <2>1. Typed(t, c, w) =
          CASE c = NEWLINE ->
                 [fall EXCEPT !.lines[t.row] =
                   [i \in 1..w |-> IF i < t.col THEN @[i] ELSE SPACE]]
            [] c = RETURN -> [lines |-> L, col |-> 1, row |-> t.row]
            [] OTHER -> IF t.col = w THEN [fall EXCEPT !.lines = struck]
                        ELSE [lines |-> struck, col |-> t.col + 1, row |-> t.row]
    BY DEF Typed
  <2>2. L = t.lines
    BY <1>3
  <2> HIDE DEF L
  <2> QED
    BY <2>1, <2>2, Zenon
<1>6. A1 = A
  <2> DEFINE two == [t.lines EXCEPT ![t.row] = cut]
  <2>1. down.lines = t.lines
    OBVIOUS
  <2>2. A1 = [down EXCEPT !.lines = [down.lines EXCEPT ![t.row] =
                              [i \in 1..w |-> IF i < t.col THEN down.lines[t.row][i] ELSE SPACE]]]
    OBVIOUS
  <2>3. A1 = [down EXCEPT !.lines = two]
    BY <2>1, <2>2, Zenon
  <2> HIDE DEF two
  <2>4. [down EXCEPT !.lines = two] = [lines |-> two, col |-> 1, row |-> t.row + 1]
    OBVIOUS
  <2> QED
    BY <2>3, <2>4, Zenon DEF two
<1>7. C1 = C
  <2> HIDE DEF one
  <2> QED
    OBVIOUS
<1> HIDE DEF A1, C1, A, B, C, D
<1>8. Typed(t, c, w) = CASE c = NEWLINE -> A [] c = RETURN -> B
                         [] OTHER -> IF t.col = w THEN C ELSE D
  BY <1>5, <1>6, <1>7, Zenon
<1> QED
  BY <1>4, <1>8, Zenon DEF w, Strips, A, B, C, D

(* The line of the cursor is replaced by `strip' on screen and paper.      *)
LEMMA StripShows ==
  ASSUME NEW v \in Screens, NEW t, Shows(v, t), v.y <= v.max_y, NEW strip \in Strips(v),
         NEW scr \in [Cells -> Int], NEW x \in v.min_x..v.max_x, NEW y \in {v.y, v.y + 1},
         y = v.max_y + 1 => x = v.min_x,
         \A p \in Cells : p \notin Region(v) => scr[p] = v.screen[p],
         \A a \in v.min_x..v.max_x, b \in v.min_y..v.max_y :
           scr[<<a, b>>] = IF b = v.y THEN strip[a - v.min_x + 1] ELSE v.screen[<<a, b>>]
  PROVE  LET w == Redrawn(v, scr, x, y)
             u == [lines |-> [t.lines EXCEPT ![t.row] = strip],
                   col |-> x - v.min_x + 1, row |-> t.row + (y - v.y)]
         IN KeepsOutside(v, w) /\ Shows(w, u)
<1> DEFINE lines == [t.lines EXCEPT ![t.row] = strip]
           u == [lines |-> lines, col |-> x - v.min_x + 1, row |-> t.row + (y - v.y)]
           At(b) == Len(t.lines) - Height(v) + b - v.min_y + 1
<1>1. /\ t \in Papers(v) /\ t.lines \in Seq(Strips(v)) /\ t.row \in 1..Len(t.lines)
      /\ Len(t.lines) \in Nat /\ Len(t.lines) >= Height(v)
  BY ShowsIs
<1>2. /\ v.min_x \in Int /\ v.min_y \in Int /\ v.max_x \in Int /\ v.max_y \in Int
      /\ v.x \in Int /\ v.y \in Int /\ InRegion(v)
  BY ScreenIs
<1>3. lines \in Seq(Strips(v)) /\ Len(lines) = Len(t.lines)
      /\ lines[t.row] = strip /\ \A i \in 1..Len(t.lines) : i # t.row => lines[i] = t.lines[i]
  BY <1>1
<1>4. y \in v.min_y..v.max_y + 1 /\ x \in Int /\ y \in Int
  BY <1>2 DEF InRegion
<1>5. t.row \in Int
  BY <1>1
<1>6. u.row - t.row = y - v.y
  BY <1>2, <1>4, <1>5
<1>7. u \in Papers(v) /\ u.lines = lines /\ u.col = x - v.min_x + 1
  <2>1. x - v.min_x + 1 \in Int /\ t.row + (y - v.y) \in Int
    BY <1>2, <1>4, <1>5
  <2> HIDE DEF lines
  <2> QED
    BY <1>3, <2>1 DEF Papers
<1>8. t.row = v.y - v.min_y + 1 + (Len(t.lines) - Height(v))
  BY DEF Shows
<1>9. Height(v) = v.max_y - v.min_y + 1 /\ Height(v) \in Nat
  BY SizeIs
<1> DEFINE a1 == v.min_x
           b1 == v.min_y
           c1 == v.max_x
           d1 == v.max_y
           x1 == v.x
           y1 == v.y
           w1 == Width(v)
           h1 == Height(v)
           l1 == Len(t.lines)
           r1 == t.row
           k1 == t.col
<1>0. Sums(a1, b1, c1, d1, x1, y1, w1, h1, l1, r1, k1)
  BY FrameIs
<1> HIDE DEF a1, b1, c1, d1, x1, y1, w1, h1, l1, r1, k1
<1>10. ASSUME NEW a \in v.min_x..v.max_x, NEW b \in v.min_y..v.max_y
       PROVE  scr[<<a, b>>] = lines[At(b)][a - v.min_x + 1]
  <2>1. At(b) \in 1..Len(t.lines) /\ (At(b) = t.row <=> b = v.y)
    <3>1. b \in b1..d1
      BY DEF b1, d1
    <3>2. l1 - h1 + b - b1 + 1 \in 1..l1 /\ (l1 - h1 + b - b1 + 1 = r1 <=> b = y1)
      BY <1>0, <3>1 DEF Sums
    <3> QED
      BY <3>2, Zenon DEF b1, h1, l1, r1, y1
  <2>2. v.screen[<<a, b>>] = t.lines[At(b)][a - v.min_x + 1]
    BY DEF Shows
  <2> HIDE DEF At, lines
  <2> QED
    BY <1>3, <2>1, <2>2
<1> HIDE DEF u, lines
<1>11. u \in Papers(v) /\ Len(u.lines) = Len(t.lines)
  BY <1>3, <1>7
<1>12. \A a \in v.min_x..v.max_x, b \in v.min_y..v.max_y :
         scr[<<a, b>>] = u.lines[Len(t.lines) - Height(v) + b - v.min_y + 1][a - v.min_x + 1]
  BY <1>7, <1>10, Zenon
<1>13. LET w == Redrawn(v, scr, x, y) IN KeepsOutside(v, w) /\ Shows(w, u)
  BY <1>1, <1>4, <1>6, <1>7, <1>11, <1>12, RedrawnShows
<1> QED
  BY <1>13 DEF u, lines

LEMMA PutShows ==
  ASSUME NEW v \in Screens, NEW t, Shows(v, t), v.y <= v.max_y, NEW c \in Int
  PROVE  /\ KeepsOutside(v, cio_putchar(v, c))
         /\ Shows(cio_putchar(v, c), Typed(t, c, Width(v)))
<1> DEFINE cut == [i \in 1..Width(v) |-> IF i < t.col THEN t.lines[t.row][i] ELSE SPACE]
           hit == [t.lines[t.row] EXCEPT ![t.col] = c]
           Line(s) == [t.lines EXCEPT ![t.row] = s]
           OnLine(s) == [i \in 1..Width(v) |-> s[i]]
<1>1. /\ t \in Papers(v) /\ t.lines \in Seq(Strips(v)) /\ t.row \in Nat \ {0}
      /\ t.row <= Len(t.lines) /\ t.col \in 1..Width(v) /\ Len(t.lines) \in Nat
      /\ t.row \in 1..Len(t.lines)
  BY ShowsIs
<1>2. /\ v.min_x \in Int /\ v.min_y \in Int /\ v.max_x \in Int /\ v.max_y \in Int
      /\ v.x \in Int /\ v.y \in Int /\ InRegion(v) /\ v.screen \in [Cells -> Int]
  BY ScreenIs
<1>3. /\ Typed(t, c, Width(v)) =
           CASE c = NEWLINE -> [lines |-> Line(cut), col |-> 1, row |-> t.row + 1]
             [] c = RETURN -> [lines |-> t.lines, col |-> 1, row |-> t.row]
             [] OTHER -> IF t.col = Width(v)
                         THEN [lines |-> Line(hit), col |-> 1, row |-> t.row + 1]
                         ELSE [lines |-> Line(hit), col |-> t.col + 1, row |-> t.row]
      /\ cut \in Strips(v) /\ hit \in Strips(v)
  BY <1>1, TypedIs
<1>4. /\ t.col = v.x - v.min_x + 1
      /\ t.row = v.y - v.min_y + 1 + (Len(t.lines) - Height(v))
  BY DEF Shows
<1>5. Width(v) = v.max_x - v.min_x + 1 /\ Height(v) = v.max_y - v.min_y + 1
      /\ Width(v) \in Nat /\ Height(v) \in Nat
  BY SizeIs
<1>6. t.lines[t.row] \in Strips(v) /\ t.lines[t.row] \in [1..Width(v) -> Int]
  BY <1>1 DEF Strips
<1> DEFINE a1 == v.min_x
           b1 == v.min_y
           c1 == v.max_x
           d1 == v.max_y
           x1 == v.x
           y1 == v.y
           w1 == Width(v)
           h1 == Height(v)
           l1 == Len(t.lines)
           r1 == t.row
           k1 == t.col
<1>0. Sums(a1, b1, c1, d1, x1, y1, w1, h1, l1, r1, k1)
  BY FrameIs
<1> HIDE DEF a1, b1, c1, d1, x1, y1, w1, h1, l1, r1, k1
<1>7. ASSUME NEW a \in v.min_x..v.max_x
      PROVE  /\ <<a, v.y>> \in Cells /\ a - v.min_x + 1 \in 1..Width(v)
             /\ v.screen[<<a, v.y>>] = t.lines[t.row][a - v.min_x + 1]
  <2>1. v.y \in v.min_y..v.max_y
    BY <1>2 DEF InRegion
  <2>2. v.screen[<<a, v.y>>] =
          t.lines[Len(t.lines) - Height(v) + v.y - v.min_y + 1][a - v.min_x + 1]
    BY <2>1 DEF Shows
  <2>3. Len(t.lines) - Height(v) + v.y - v.min_y + 1 = t.row
    <3>1. l1 - h1 + y1 - b1 + 1 = r1
      BY <1>0 DEF Sums
    <3> QED
      BY <3>1, Zenon DEF l1, h1, y1, b1, r1
  <2>4. <<a, v.y>> \in Region(v)
    BY <2>1 DEF Region
  <2>5. a - v.min_x + 1 \in 1..Width(v)
    BY <1>2, <1>5
  <2> QED
    BY <2>2, <2>3, <2>4, <2>5, RegionOnScreen
<1>8. <<v.x, v.y>> \in Cells /\ <<v.x, v.y>> \in Region(v) /\ v.x \in v.min_x..v.max_x
  <2>1. v.x \in v.min_x..v.max_x /\ v.y \in v.min_y..v.max_y
    BY <1>2 DEF InRegion
  <2> QED
    BY <1>7, <2>1 DEF Region
<1>9. ASSUME NEW a \in v.min_x..v.max_x, NEW b \in v.min_y..v.max_y
      PROVE  <<a, b>> \in Cells
  <2>1. <<a, b>> \in Region(v)
    BY DEF Region
  <2> QED
    BY <2>1, RegionOnScreen
<1> HIDE DEF Line
<1>10. CASE c = NEWLINE
  <2> DEFINE scr == Rest(v)
  <2>1. scr \in [Cells -> Int]
    BY <1>2 DEF Rest, SPACE
  <2>2. ASSUME NEW p \in Cells, p \notin Region(v) PROVE scr[p] = v.screen[p]
    <3>1. ~(p[1] \in v.x..v.max_x /\ p[2] = v.y)
      <4>1. SUFFICES ASSUME p[1] \in v.x..v.max_x, p[2] = v.y PROVE FALSE
        OBVIOUS
      <4>2. p[1] \in v.min_x..v.max_x /\ p[2] \in v.min_y..v.max_y
        BY <1>2, <4>1 DEF InRegion
      <4>3. p = <<p[1], p[2]>>
        BY DEF Cells
      <4> QED
        BY <2>2, <4>2, <4>3 DEF Region
    <3> QED
      BY <3>1 DEF Rest
  <2>3. ASSUME NEW a \in v.min_x..v.max_x, NEW b \in v.min_y..v.max_y
        PROVE  scr[<<a, b>>] = IF b = v.y THEN cut[a - v.min_x + 1] ELSE v.screen[<<a, b>>]
    <3>1. scr[<<a, b>>] = IF a \in v.x..v.max_x /\ b = v.y THEN SPACE ELSE v.screen[<<a, b>>]
      BY <1>9 DEF Rest
    <3>2. a \in v.x..v.max_x <=> ~(a - v.min_x + 1 < t.col)
      BY <1>2, <1>4
    <3>3. a - v.min_x + 1 \in 1..Width(v)
      BY <1>7
    <3>4. cut[a - v.min_x + 1] = IF a \in v.x..v.max_x THEN SPACE
                                 ELSE t.lines[t.row][a - v.min_x + 1]
      BY <3>2, <3>3
    <3> QED
      BY <1>7, <3>1, <3>4
  <2>4. v.min_x \in v.min_x..v.max_x /\ v.min_x - v.min_x + 1 = 1
        /\ t.row + ((v.y + 1) - v.y) = t.row + 1
    <3>1. v.min_x \in v.min_x..v.max_x /\ v.min_x - v.min_x + 1 = 1 /\ (v.y + 1) - v.y = 1
      BY <1>2 DEF InRegion
    <3> QED
      BY <3>1, Zenon
  <2>5. LET w == Redrawn(v, scr, v.min_x, v.y + 1)
            u == [lines |-> [t.lines EXCEPT ![t.row] = cut],
                  col |-> v.min_x - v.min_x + 1, row |-> t.row + ((v.y + 1) - v.y)]
        IN KeepsOutside(v, w) /\ Shows(w, u)
    <3>1. cut \in Strips(v)
      BY <1>3
    <3> DEFINE x == v.min_x
               y == v.y + 1
    <3>3. x \in v.min_x..v.max_x /\ y \in {v.y, v.y + 1} /\ (y = v.max_y + 1 => x = v.min_x)
      BY <2>4
    <3> HIDE DEF scr, cut, x, y
    <3>4. LET w == Redrawn(v, scr, x, y)
              u == [lines |-> [t.lines EXCEPT ![t.row] = cut],
                    col |-> x - v.min_x + 1, row |-> t.row + (y - v.y)]
          IN KeepsOutside(v, w) /\ Shows(w, u)
      BY <2>1, <2>2, <2>3, <3>1, <3>3, StripShows
    <3> QED
      BY <3>4, Zenon DEF x, y
  <2>6. Typed(t, c, Width(v)) = [lines |-> Line(cut), col |-> 1, row |-> t.row + 1]
    <3> HIDE DEF cut, hit
    <3> QED
      BY <1>3, <1>10 DEF NEWLINE, RETURN
  <2>7. cio_putchar(v, c) = Redrawn(v, scr, v.min_x, v.y + 1)
    <3>1. cio_putchar(v, c) = CASE c = NEWLINE -> Redrawn(v, Rest(v), v.min_x, v.y + 1)
             [] c = RETURN -> Redrawn(v, v.screen, v.min_x, v.y)
             [] OTHER -> IF v.x + 1 > v.max_x
                         THEN Redrawn(v, Stroke(v, c), v.min_x, v.y + 1)
                         ELSE Redrawn(v, Stroke(v, c), v.x + 1, v.y)
      BY PutcharIs
    <3> QED
      BY <1>10, <3>1 DEF scr, NEWLINE, RETURN
  <2> HIDE DEF scr, cut
  <2> QED
    BY <2>4, <2>5, <2>6, <2>7, Zenon DEF Line
<1>11. CASE c = RETURN
  <2> DEFINE same == t.lines[t.row]
  <2>1. \A a \in v.min_x..v.max_x, b \in v.min_y..v.max_y :
          v.screen[<<a, b>>] = IF b = v.y THEN same[a - v.min_x + 1] ELSE v.screen[<<a, b>>]
    BY <1>7
  <2>2. v.min_x \in v.min_x..v.max_x /\ v.min_x - v.min_x + 1 = 1
        /\ t.row + (v.y - v.y) = t.row /\ v.y # v.max_y + 1
    BY <1>1, <1>2 DEF InRegion
  <2>3. [t.lines EXCEPT ![t.row] = same] = t.lines
    BY <1>1
  <2> HIDE DEF same
  <2>4. LET w == Redrawn(v, v.screen, v.min_x, v.y)
            u == [lines |-> [t.lines EXCEPT ![t.row] = same],
                  col |-> v.min_x - v.min_x + 1, row |-> t.row + (v.y - v.y)]
        IN KeepsOutside(v, w) /\ Shows(w, u)
    <3>1. same \in Strips(v)
      BY <1>6 DEF same
    <3> QED
      BY <1>2, <2>1, <2>2, <3>1, StripShows
  <2>5. Typed(t, c, Width(v)) = [lines |-> t.lines, col |-> 1, row |-> t.row]
    BY <1>3, <1>11 DEF NEWLINE, RETURN
  <2>6. cio_putchar(v, c) = Redrawn(v, v.screen, v.min_x, v.y)
    BY <1>11, PutcharIs DEF NEWLINE, RETURN
  <2> QED
    BY <2>2, <2>3, <2>4, <2>5, <2>6
<1>12. CASE c # NEWLINE /\ c # RETURN
  <2> DEFINE scr == Stroke(v, c)
             end == v.x + 1 > v.max_x
             x == IF end THEN v.min_x ELSE v.x + 1
             y == IF end THEN v.y + 1 ELSE v.y
  <2>1. scr \in [Cells -> Int] /\ scr[<<v.x, v.y>>] = c
        /\ \A p \in Cells : p # <<v.x, v.y>> => scr[p] = v.screen[p]
    BY <1>2, <1>8 DEF Stroke
  <2>2. \A p \in Cells : p \notin Region(v) => scr[p] = v.screen[p]
    BY <1>8, <2>1
  <2>3. ASSUME NEW a \in v.min_x..v.max_x, NEW b \in v.min_y..v.max_y
        PROVE  scr[<<a, b>>] = IF b = v.y THEN hit[a - v.min_x + 1] ELSE v.screen[<<a, b>>]
    <3>1. a = v.x <=> a - v.min_x + 1 = t.col
      BY <1>2, <1>4
    <3>2. hit[a - v.min_x + 1] = IF a = v.x THEN c ELSE t.lines[t.row][a - v.min_x + 1]
      BY <1>6, <1>7, <3>1
    <3>3. scr[<<a, b>>] = IF a = v.x /\ b = v.y THEN c ELSE v.screen[<<a, b>>]
      <4>1. <<a, b>> = <<v.x, v.y>> <=> a = v.x /\ b = v.y
        OBVIOUS
      <4> HIDE DEF scr
      <4> QED
        BY <1>9, <2>1, <4>1
    <3> HIDE DEF hit, scr
    <3> QED
      BY <1>7, <3>2, <3>3
  <2>4. /\ x \in v.min_x..v.max_x /\ y \in {v.y, v.y + 1} /\ (y = v.max_y + 1 => x = v.min_x)
        /\ x - v.min_x + 1 = IF end THEN 1 ELSE t.col + 1
        /\ t.row + (y - v.y) = IF end THEN t.row + 1 ELSE t.row
        /\ end <=> t.col = Width(v)
    <3>1. y1 <= d1
      BY DEF y1, d1
    <3>2. CASE x1 + 1 > c1
      <4>1. /\ a1 \in a1..c1 /\ a1 - a1 + 1 = 1 /\ r1 + (y1 + 1 - y1) = r1 + 1 /\ k1 = w1
        BY <1>0, <3>2 DEF Sums
      <4>2. end /\ x = a1 /\ y = y1 + 1
        BY <3>2, Zenon DEF a1, b1, c1, d1, x1, y1, w1, h1, l1, r1, k1
      <4> HIDE DEF end, x, y
      <4>3. /\ x \in a1..c1 /\ y \in {y1, y1 + 1} /\ (y = d1 + 1 => x = a1)
            /\ x - a1 + 1 = IF end THEN 1 ELSE k1 + 1
            /\ r1 + (y - y1) = IF end THEN r1 + 1 ELSE r1
            /\ end <=> k1 = w1
        BY <1>0, <4>1, <4>2 DEF Sums
      <4> QED
        BY <4>3, Zenon DEF a1, b1, c1, d1, x1, y1, w1, h1, l1, r1, k1
    <3>3. CASE ~(x1 + 1 > c1)
      <4>1. /\ x1 + 1 \in a1..c1 /\ x1 + 1 - a1 + 1 = k1 + 1 /\ r1 + (y1 - y1) = r1
            /\ k1 # w1 /\ y1 # d1 + 1
        BY <1>0, <3>1, <3>3 DEF Sums
      <4>2. ~end /\ x = x1 + 1 /\ y = y1
        BY <3>3, Zenon DEF a1, b1, c1, d1, x1, y1, w1, h1, l1, r1, k1
      <4> HIDE DEF end, x, y
      <4>3. /\ x \in a1..c1 /\ y \in {y1, y1 + 1} /\ (y = d1 + 1 => x = a1)
            /\ x - a1 + 1 = IF end THEN 1 ELSE k1 + 1
            /\ r1 + (y - y1) = IF end THEN r1 + 1 ELSE r1
            /\ end <=> k1 = w1
        BY <1>0, <4>1, <4>2 DEF Sums
      <4> QED
        BY <4>3, Zenon DEF a1, b1, c1, d1, x1, y1, w1, h1, l1, r1, k1
    <3> QED
      BY <3>2, <3>3
  <2>5. cio_putchar(v, c) = Redrawn(v, scr, x, y)
    BY <1>12, PutcharIs
  <2>6. Typed(t, c, Width(v)) = [lines |-> Line(hit), col |-> IF end THEN 1 ELSE t.col + 1,
                                 row |-> IF end THEN t.row + 1 ELSE t.row]
    BY <1>3, <1>12, <2>4
  <2> HIDE DEF scr, x, y, end, hit
  <2>7. LET w == Redrawn(v, scr, x, y)
            u == [lines |-> [t.lines EXCEPT ![t.row] = hit],
                  col |-> x - v.min_x + 1, row |-> t.row + (y - v.y)]
        IN KeepsOutside(v, w) /\ Shows(w, u)
    BY <1>3, <2>1, <2>2, <2>3, <2>4, StripShows
  <2> QED
    BY <2>4, <2>5, <2>6, <2>7 DEF Line
<1> QED
  BY <1>10, <1>11, <1>12

-----------------------------------------------------------------------------
(* Scrolling.                                                              *)

Cleared(v) == [p \in Cells |-> IF p \in Region(v) THEN SPACE ELSE v.screen[p]]
Risen(v, n) ==
  [p \in Cells |-> IF p \notin Region(v) THEN v.screen[p]
                   ELSE IF p[2] <= v.max_y - n THEN v.screen[<<p[1], p[2] + n>>] ELSE SPACE]

LEMMA ScrollIs ==
  ASSUME NEW v \in Screens, NEW n \in Nat
  PROVE  /\ cio_clearscroll(v) = Redrawn(v, Cleared(v), v.x, v.y)
         /\ cio_scroll(v, n) = IF n > v.max_y - v.min_y
                               THEN Redrawn(v, Cleared(v), v.min_x, v.min_y)
                               ELSE Redrawn(v, Risen(v, n), v.x, v.y)
<1>1. v = Redrawn(v, v.screen, v.x, v.y)
  BY AsDrawn
<1>2. cio_clearscroll(v) = Redrawn(v, Cleared(v), v.x, v.y)
  <2>1. cio_clearscroll(v) = [v EXCEPT !.screen = Cleared(v)]
    BY DEF cio_clearscroll, Cleared
  <2>2. [Redrawn(v, v.screen, v.x, v.y) EXCEPT !.screen = Cleared(v)]
          = Redrawn(v, Cleared(v), v.x, v.y)
    BY SetScreen
  <2> QED
    BY <1>1, <2>1, <2>2, Zenon
<1>3. CASE n > v.max_y - v.min_y
  <2>1. cio_scroll(v, n) = [cio_clearscroll(v) EXCEPT !.x = v.min_x, !.y = v.min_y]
    BY <1>3, Zenon DEF cio_scroll
  <2> DEFINE z == Redrawn(v, Cleared(v), v.x, v.y)
  <2>4. [z EXCEPT !.x = v.min_x] = Redrawn(v, Cleared(v), v.min_x, v.y)
    BY SetX
  <2>5. [Redrawn(v, Cleared(v), v.min_x, v.y) EXCEPT !.y = v.min_y]
          = Redrawn(v, Cleared(v), v.min_x, v.min_y)
    BY SetY
  <2> HIDE DEF z
  <2>6. [z EXCEPT !.x = v.min_x, !.y = v.min_y]
          = [[z EXCEPT !.x = v.min_x] EXCEPT !.y = v.min_y]
    BY Zenon
  <2>2. [z EXCEPT !.x = v.min_x, !.y = v.min_y] = Redrawn(v, Cleared(v), v.min_x, v.min_y)
    BY <2>4, <2>5, <2>6, Zenon
  <2>3. cio_scroll(v, n) = Redrawn(v, Cleared(v), v.min_x, v.min_y)
    BY <1>2, <2>1, <2>2, Zenon DEF z
  <2> QED
    BY <1>2, <1>3, <2>3, Zenon
<1>4. CASE ~(n > v.max_y - v.min_y)
  <2>1. cio_scroll(v, n) = [v EXCEPT !.screen = Risen(v, n)]
    BY <1>4 DEF cio_scroll, Risen
  <2>2. [Redrawn(v, v.screen, v.x, v.y) EXCEPT !.screen = Risen(v, n)]
          = Redrawn(v, Risen(v, n), v.x, v.y)
    BY SetScreen
  <2>3. cio_scroll(v, n) = Redrawn(v, Risen(v, n), v.x, v.y)
    BY <1>1, <2>1, <2>2, Zenon
  <2> QED
    BY <1>2, <1>4, <2>3, Zenon
<1> QED
  BY <1>3, <1>4

LEMMA RisenIs ==
  ASSUME NEW v \in Screens, NEW n \in Nat
  PROVE  /\ Cleared(v) \in [Cells -> Int] /\ Risen(v, n) \in [Cells -> Int]
         /\ \A p \in Cells : p \notin Region(v) => /\ Cleared(v)[p] = v.screen[p]
                                                  /\ Risen(v, n)[p] = v.screen[p]
<1>1. v.screen \in [Cells -> Int] /\ SPACE \in Int
      /\ v.min_x \in Int /\ v.min_y \in Int /\ v.max_x \in Int /\ v.max_y \in Int
  BY ScreenIs DEF SPACE
<1>2. ASSUME NEW p \in Region(v), p[2] <= v.max_y - n PROVE <<p[1], p[2] + n>> \in Cells
  <2>1. p[1] \in v.min_x..v.max_x /\ p[2] \in v.min_y..v.max_y
    BY DEF Region
  <2>2. p[2] + n \in v.min_y..v.max_y
    BY <1>1, <1>2, <2>1
  <2>3. <<p[1], p[2] + n>> \in Region(v)
    BY <2>1, <2>2 DEF Region
  <2> QED
    BY <2>3, RegionOnScreen
<1>3. Cleared(v) \in [Cells -> Int]
  BY <1>1 DEF Cleared
<1>4. Risen(v, n) \in [Cells -> Int]
  BY <1>1, <1>2 DEF Risen
<1> QED
  BY <1>3, <1>4 DEF Cleared, Risen

(* cio_clearscroll and cio_scroll draw in the region only.                 *)
LEMMA ScrollKeeps ==
  ASSUME NEW v \in Screens, NEW n \in Nat
  PROVE  KeepsOutside(v, cio_clearscroll(v)) /\ KeepsOutside(v, cio_scroll(v, n))
<1>1. v.x \in v.min_x..v.max_x /\ v.y \in v.min_y..v.max_y + 1
      /\ v.min_x \in v.min_x..v.max_x /\ v.min_y \in v.min_y..v.max_y + 1
      /\ (v.y = v.max_y + 1 => v.x = v.min_x)
  BY ScreenIs DEF InRegion
<1>2. /\ Cleared(v) \in [Cells -> Int] /\ Risen(v, n) \in [Cells -> Int]
      /\ \A p \in Cells : p \notin Region(v) => Cleared(v)[p] = v.screen[p]
      /\ \A p \in Cells : p \notin Region(v) => Risen(v, n)[p] = v.screen[p]
  BY RisenIs
<1>3. KeepsOutside(v, Redrawn(v, Cleared(v), v.x, v.y))
  BY <1>1, <1>2, RedrawnKeeps
<1>4. KeepsOutside(v, Redrawn(v, Risen(v, n), v.x, v.y))
  BY <1>1, <1>2, RedrawnKeeps
<1>5. KeepsOutside(v, Redrawn(v, Cleared(v), v.min_x, v.min_y))
  BY <1>1, <1>2, RedrawnKeeps
<1> QED
  BY <1>3, <1>4, <1>5, ScrollIs

(* A scroll that is due is a blank line more on the paper.                 *)
LEMMA ScrolledShows ==
  ASSUME NEW v \in Screens, NEW t, Shows(v, t), v.y = v.max_y + 1
  PROVE  LET s == Scrolled(v)
             u == [lines |-> Append(t.lines, Blank(v)), col |-> t.col, row |-> t.row]
         IN KeepsOutside(v, s) /\ Shows(s, u) /\ s.y = s.max_y
<1> DEFINE scr == IF v.max_y = v.min_y THEN Cleared(v) ELSE Risen(v, 1)
           s == Redrawn(v, scr, v.min_x, v.max_y)
           lines == Append(t.lines, Blank(v))
           u == [lines |-> lines, col |-> t.col, row |-> t.row]
<1>1. /\ v.min_x \in Int /\ v.min_y \in Int /\ v.max_x \in Int /\ v.max_y \in Int
      /\ v.x \in Int /\ v.y \in Int /\ InRegion(v) /\ v.screen \in [Cells -> Int]
  BY ScreenIs
<1>2. /\ t \in Papers(v) /\ t.lines \in Seq(Strips(v)) /\ t.row = Len(t.lines) + 1
      /\ Len(t.lines) \in Nat /\ Len(t.lines) >= Height(v)
  BY ShowsIs
<1>3. Height(v) = v.max_y - v.min_y + 1 /\ Width(v) = v.max_x - v.min_x + 1
      /\ Height(v) \in Nat /\ Width(v) \in Nat
  BY SizeIs
<1>4. Scrolled(v) = s
  <2>2. v.y > v.max_y /\ v.y - v.max_y = 1 /\ (1 > v.max_y - v.min_y <=> v.max_y = v.min_y)
        /\ v.x = v.min_x
    BY <1>1 DEF InRegion
  <2>3. Scrolled(v) = [cio_scroll(v, 1) EXCEPT !.y = v.max_y]
    BY <2>2 DEF Scrolled
  <2>4. cio_scroll(v, 1) = IF v.max_y = v.min_y THEN Redrawn(v, Cleared(v), v.min_x, v.min_y)
                           ELSE Redrawn(v, Risen(v, 1), v.min_x, v.y)
    BY <2>2, ScrollIs
  <2>5. CASE v.max_y = v.min_y
    <3>1. Scrolled(v) = [Redrawn(v, Cleared(v), v.min_x, v.min_y) EXCEPT !.y = v.max_y]
      BY <2>3, <2>4, <2>5, Zenon
    <3>2. Scrolled(v) = Redrawn(v, Cleared(v), v.min_x, v.max_y)
      BY <3>1, SetY
    <3> QED
      BY <2>5, <3>2
  <2>6. CASE v.max_y # v.min_y
    <3>1. Scrolled(v) = [Redrawn(v, Risen(v, 1), v.min_x, v.y) EXCEPT !.y = v.max_y]
      BY <2>3, <2>4, <2>6, Zenon
    <3>2. Scrolled(v) = Redrawn(v, Risen(v, 1), v.min_x, v.max_y)
      BY <3>1, SetY
    <3> QED
      BY <2>6, <3>2
  <2> QED
    BY <2>5, <2>6
<1>5. scr \in [Cells -> Int] /\ \A p \in Cells : p \notin Region(v) => scr[p] = v.screen[p]
  BY RisenIs
<1>6. v.min_x \in v.min_x..v.max_x /\ v.max_y \in v.min_y..v.max_y + 1 /\ v.max_y # v.max_y + 1
  BY <1>1 DEF InRegion
<1>7. ASSUME NEW a \in v.min_x..v.max_x, NEW b \in v.min_y..v.max_y
      PROVE  /\ b < v.max_y => scr[<<a, b>>] = v.screen[<<a, b + 1>>]
             /\ b = v.max_y => scr[<<a, b>>] = SPACE
  <2>1. <<a, b>> \in Region(v) /\ <<a, b>> \in Cells
    BY RegionOnScreen DEF Region
  <2>2. Cleared(v)[<<a, b>>] = SPACE
    BY <2>1 DEF Cleared
  <2>3. Risen(v, 1)[<<a, b>>] = IF b <= v.max_y - 1 THEN v.screen[<<a, b + 1>>] ELSE SPACE
    BY <2>1 DEF Risen
  <2>4. /\ b < v.max_y => b <= v.max_y - 1 /\ v.max_y # v.min_y
        /\ b = v.max_y => ~(b <= v.max_y - 1)
    BY <1>1
  <2> QED
    BY <2>2, <2>3, <2>4
<1> HIDE DEF scr
<1>8. KeepsOutside(v, s)
  BY <1>5, <1>6, RedrawnKeeps
<1>9. s.screen = scr /\ s.x = v.min_x /\ s.y = v.max_y /\ SameRegion(v, s)
  BY <1>1, <1>5, RedrawnIs
<1> HIDE DEF s
<1>10. Width(s) = Width(v) /\ Height(s) = Height(v) /\ Papers(s) = Papers(v)
  BY <1>9, SameSize
<1>11. Blank(v) \in Strips(v) /\ \A i \in 1..Width(v) : Blank(v)[i] = SPACE
  BY DEF Blank, Strips, SPACE
<1>12. lines \in Seq(Strips(v)) /\ Len(lines) = Len(t.lines) + 1
       /\ lines[Len(t.lines) + 1] = Blank(v)
       /\ \A i \in 1..Len(t.lines) : lines[i] = t.lines[i]
  BY <1>2, <1>11
<1> HIDE DEF lines
<1>13. u \in Papers(v) /\ u.lines = lines /\ u.col = t.col /\ u.row = t.row
  BY <1>2, <1>12 DEF Papers
<1> HIDE DEF u
<1>14. t.col = v.x - v.min_x + 1
  BY DEF Shows
<1> DEFINE a1 == v.min_x
           b1 == v.min_y
           c1 == v.max_x
           d1 == v.max_y
           x1 == v.x
           y1 == v.y
           w1 == Width(v)
           h1 == Height(v)
           l1 == Len(t.lines)
           r1 == t.row
           k1 == t.col
<1>0. Sums(a1, b1, c1, d1, x1, y1, w1, h1, l1, r1, k1)
  BY FrameIs
<1> HIDE DEF a1, b1, c1, d1, x1, y1, w1, h1, l1, r1, k1
<1>15. Shows(s, u)
  <2>1. Len(u.lines) - Height(s) >= 0
    BY <1>1, <1>2, <1>3, <1>10, <1>12, <1>13
  <2>2. u.col = s.x - s.min_x + 1
    BY <1>1, <1>9, <1>13, <1>14 DEF InRegion, SameRegion
  <2>3. u.row = s.y - s.min_y + 1 + (Len(u.lines) - Height(s))
    <3>1. s.y = v.max_y /\ s.min_y = v.min_y
      BY <1>9 DEF SameRegion
    <3> QED
      BY <1>1, <1>2, <1>3, <1>10, <1>12, <1>13, <3>1
  <2>4. ASSUME NEW a \in s.min_x..s.max_x, NEW b \in s.min_y..s.max_y
        PROVE  s.screen[<<a, b>>] =
                 u.lines[Len(u.lines) - Height(s) + b - s.min_y + 1][a - s.min_x + 1]
    <3>1. a \in v.min_x..v.max_x /\ b \in v.min_y..v.max_y /\ s.min_x = v.min_x
          /\ s.min_y = v.min_y
      BY <1>9 DEF SameRegion
    <3> DEFINE at == (l1 + 1) - h1 + b - b1 + 1
    <3>2. Len(u.lines) - Height(s) + b - s.min_y + 1 = at
      BY <1>10, <1>12, <1>13, <3>1, Zenon DEF l1, h1, b1
    <3>5. a \in a1..c1 /\ b \in b1..d1
      BY <3>1, Zenon DEF a1, b1, c1, d1
    <3>6. a - a1 + 1 \in 1..w1
      BY <1>0, <3>5 DEF Sums
    <3>3. CASE b < d1
      <4>1. b + 1 \in b1..d1 /\ at \in 1..l1 /\ at = l1 - h1 + (b + 1) - b1 + 1
        BY <1>0, <3>3, <3>5 DEF Sums
      <4> HIDE DEF at
      <4>2. v.screen[<<a, b + 1>>] = t.lines[at][a - v.min_x + 1]
        <5>1. b + 1 \in v.min_y..v.max_y
          BY <4>1, Zenon DEF b1, d1
        <5>2. v.screen[<<a, b + 1>>] =
                t.lines[Len(t.lines) - Height(v) + (b + 1) - v.min_y + 1][a - v.min_x + 1]
          BY <3>1, <5>1 DEF Shows
        <5> QED
          BY <4>1, <5>2, Zenon DEF l1, h1, b1
      <4>3. scr[<<a, b>>] = v.screen[<<a, b + 1>>]
        BY <1>7, <3>1, <3>3, Zenon DEF d1
      <4>4. lines[at] = t.lines[at]
        BY <1>12, <4>1, Zenon DEF l1
      <4> QED
        BY <1>9, <1>13, <3>1, <3>2, <4>2, <4>3, <4>4, Zenon
    <3>4. CASE b = d1
      <4>1. at = l1 + 1
        BY <1>0, <3>4 DEF Sums
      <4> HIDE DEF at
      <4>2. scr[<<a, b>>] = SPACE
        BY <1>7, <3>1, <3>4, Zenon DEF d1
      <4>3. lines[at] = Blank(v)
        BY <1>12, <4>1, Zenon DEF l1
      <4>4. Blank(v)[a - v.min_x + 1] = SPACE
        BY <1>11, <3>6, Zenon DEF a1, w1
      <4> QED
        BY <1>9, <1>13, <3>1, <3>2, <4>2, <4>3, <4>4, Zenon
    <3>7. b < d1 \/ b = d1
      BY <1>0, <3>5 DEF Sums
    <3> QED
      BY <3>3, <3>4, <3>7
  <2>5. u \in Papers(s)
    BY <1>10, <1>13
  <2> QED
    BY <2>1, <2>2, <2>3, <2>4, <2>5 DEF Shows
<1>16. s.y = s.max_y
  BY <1>9 DEF SameRegion
<1> QED
  BY <1>4, <1>8, <1>15, <1>16 DEF u, lines

(* cio_putchar draws in the region only, and the region goes on to show    *)
(* the end of the paper.                                                   *)
LEMMA PutcharShows ==
  ASSUME NEW v \in Screens, NEW t, Shows(v, t), NEW c \in Int
  PROVE  /\ KeepsOutside(v, cio_putchar(v, c))
         /\ Shows(cio_putchar(v, c), Typed(t, c, Width(v)))
<1>1. v.y \in Int /\ v.max_y \in Int /\ v.y <= v.max_y + 1
  BY ScreenIs DEF InRegion
<1>2. CASE v.y <= v.max_y
  BY <1>2, PutShows
<1>3. CASE v.y = v.max_y + 1
  <2> DEFINE s == Scrolled(v)
             u == [lines |-> Append(t.lines, Blank(v)), col |-> t.col, row |-> t.row]
  <2>1. KeepsOutside(v, s) /\ Shows(s, u) /\ s.y = s.max_y
    BY <1>3, ScrolledShows
  <2>2. s \in Screens /\ Width(s) = Width(v)
    BY <2>1, SameSize DEF KeepsOutside
  <2>3. s.y \in Int /\ s.max_y \in Int
    BY <2>2, ScreenIs
  <2>4. Scrolled(s) = s
    <3> HIDE DEF s
    <3> QED
      BY <2>1, <2>3 DEF Scrolled
  <2>5. cio_putchar(v, c) = cio_putchar(s, c)
    BY <2>4 DEF cio_putchar
  <2>6. Typed(t, c, Width(v)) = Typed(u, c, Width(v))
    <3>1. t.lines \in Seq(Strips(v)) /\ t.row = Len(t.lines) + 1 /\ Len(t.lines) \in Nat
      BY <1>3, ShowsIs
    <3>2. Blank(v) \in Strips(v) /\ Blank(v) = [i \in 1..Width(v) |-> SPACE]
      BY DEF Blank, Strips, SPACE
    <3>3. Len(u.lines) = Len(t.lines) + 1 /\ u.row = t.row /\ u.col = t.col
          /\ u.lines = Append(t.lines, Blank(v))
      BY <3>1, <3>2
    <3>4. t.row > Len(t.lines) /\ ~(u.row > Len(u.lines))
      BY <3>1, <3>3
    <3> HIDE DEF u
    <3> QED
      BY <3>2, <3>3, <3>4 DEF Typed
  <2> HIDE DEF s, u
  <2>7. KeepsOutside(s, cio_putchar(s, c)) /\ Shows(cio_putchar(s, c), Typed(u, c, Width(s)))
    BY <2>1, <2>2, <2>3, PutShows
  <2> QED
    BY <2>1, <2>2, <2>5, <2>6, <2>7, OutsideTrans
<1> QED
  BY <1>1, <1>2, <1>3

-----------------------------------------------------------------------------
(* Texts.                                                                  *)

(* New paper shows what the region shows.                                  *)
LEMMA FreshShows ==
  ASSUME NEW v \in Screens
  PROVE  Shows(v, [lines |-> Window(v), col |-> v.x - v.min_x + 1, row |-> v.y - v.min_y + 1])
<1> DEFINE win == Window(v)
           t == [lines |-> win, col |-> v.x - v.min_x + 1, row |-> v.y - v.min_y + 1]
<1>1. /\ v.min_x \in Int /\ v.min_y \in Int /\ v.max_x \in Int /\ v.max_y \in Int
      /\ v.x \in Int /\ v.y \in Int /\ v.screen \in [Cells -> Int]
  BY ScreenIs
<1>2. Height(v) = v.max_y - v.min_y + 1 /\ Width(v) = v.max_x - v.min_x + 1
      /\ Height(v) \in Nat /\ Width(v) \in Nat
  BY SizeIs
<1>3. ASSUME NEW j \in 1..Height(v), NEW i \in 1..Width(v)
      PROVE  v.screen[<<v.min_x + i - 1, v.min_y + j - 1>>] \in Int
  <2>1. v.min_x + i - 1 \in v.min_x..v.max_x /\ v.min_y + j - 1 \in v.min_y..v.max_y
    BY <1>1, <1>2
  <2>2. <<v.min_x + i - 1, v.min_y + j - 1>> \in Region(v)
    BY <2>1 DEF Region
  <2> QED
    BY <1>1, <2>2, RegionOnScreen
<1>4. ASSUME NEW j \in 1..Height(v)
      PROVE  [i \in 1..Width(v) |-> v.screen[<<v.min_x + i - 1, v.min_y + j - 1>>]] \in Strips(v)
  BY <1>3 DEF Strips
<1>5. win \in [1..Height(v) -> Strips(v)]
  BY <1>4 DEF Window
<1>6. win \in Seq(Strips(v)) /\ Len(win) = Height(v)
  BY <1>2, <1>5
<1> HIDE DEF win
<1>7. ASSUME NEW a \in v.min_x..v.max_x, NEW b \in v.min_y..v.max_y
      PROVE  v.screen[<<a, b>>] = win[Len(win) - Height(v) + b - v.min_y + 1][a - v.min_x + 1]
  <2> DEFINE j == b - v.min_y + 1
             i == a - v.min_x + 1
  <2>1. j \in 1..Height(v) /\ i \in 1..Width(v) /\ v.min_x + i - 1 = a /\ v.min_y + j - 1 = b
        /\ Len(win) - Height(v) + b - v.min_y + 1 = j
    <3>1. j \in 1..Height(v) /\ i \in 1..Width(v) /\ v.min_x + i - 1 = a /\ v.min_y + j - 1 = b
      BY <1>1, <1>2
    <3>2. Len(win) - Height(v) = 0
      BY <1>2, <1>6
    <3>3. 0 + (b - v.min_y) + 1 = b - v.min_y + 1
      BY <1>1
    <3>4. Len(win) - Height(v) + b - v.min_y + 1 = j
      BY <3>2, <3>3, Zenon
    <3> QED
      BY <3>1, <3>4
  <2> HIDE DEF i, j
  <2>2. win[j][i] = v.screen[<<v.min_x + i - 1, v.min_y + j - 1>>]
    BY <2>1 DEF Window, win
  <2> QED
    BY <2>1, <2>2 DEF i
<1>8. t \in Papers(v)
  BY <1>1, <1>6 DEF Papers
<1>9. t.lines = win /\ t.col = v.x - v.min_x + 1 /\ t.row = v.y - v.min_y + 1
  OBVIOUS
<1> HIDE DEF t
<1>10. Len(t.lines) - Height(v) = 0
  BY <1>2, <1>6, <1>9
<1>11. Shows(v, t)
  <2>1. v.y - v.min_y + 1 = v.y - v.min_y + 1 + 0
    BY <1>1
  <2>2. t.row = v.y - v.min_y + 1 + (Len(t.lines) - Height(v))
    BY <1>9, <1>10, <2>1, Zenon
  <2>3. Len(t.lines) - Height(v) >= 0
    BY <1>10
  <2>4. \A a \in v.min_x..v.max_x, b \in v.min_y..v.max_y :
          v.screen[<<a, b>>] =
            t.lines[Len(t.lines) - Height(v) + b - v.min_y + 1][a - v.min_x + 1]
    BY <1>7, <1>9, Zenon
  <2> QED
    BY <1>8, <1>9, <2>2, <2>3, <2>4 DEF Shows
<1> QED
  BY <1>11 DEF t, win

LEMMA PutcharKeeps ==
  ASSUME NEW v \in Screens, NEW c \in Int
  PROVE  KeepsOutside(v, cio_putchar(v, c))
BY FreshShows, PutcharShows

(* cio_puts, character by character.                                       *)
LEMMA PutsRun ==
  ASSUME NEW v \in Screens, NEW str \in Seq(Int)
  PROVE  \E f \in [0..Len(str) -> Screens] :
           /\ f[0] = v /\ \A i \in 1..Len(str) : f[i] = cio_putchar(f[i - 1], str[i])
           /\ cio_puts(v, str) = f[Len(str)]
<1> DEFINE n == Len(str)
           W(f) == [i \in 0..n |-> IF i = 0 THEN v ELSE cio_putchar(f[i - 1], str[i])]
           run == CHOOSE f : f = W(f)
           g == [q \in Nat \X Screens |->
                   IF q[1] \in 1..n THEN cio_putchar(q[2], str[q[1]]) ELSE q[2]]
<1>1. cio_puts(v, str) = run[n]
  BY DEF cio_puts
<1>2. n \in Nat /\ \A i \in 1..n : str[i] \in Int
  OBVIOUS
<1> HIDE DEF n
<1>3. g \in [Nat \X Screens -> Screens]
  BY <1>2, PutcharKeeps DEF KeepsOutside
<1>4. PICK f \in [0..n -> Screens] : f[0] = v /\ \A i \in 1..n : f[i] = g[<<i, f[i - 1]>>]
  <2> HIDE DEF g, W, run
  <2>1. LoopRuns(v, g, n, Screens) # {}
    BY <1>2, <1>3, Iterates
  <2> QED
    BY <2>1 DEF LoopRuns
<1>5. ASSUME NEW i \in 1..n PROVE f[i] = cio_putchar(f[i - 1], str[i])
  <2>1. i \in Nat /\ i - 1 \in 0..n /\ f[i - 1] \in Screens
    BY <1>2, <1>4
  <2>2. g[<<i, f[i - 1]>>] = cio_putchar(f[i - 1], str[i])
    BY <2>1
  <2> HIDE DEF g
  <2> QED
    BY <1>4, <2>2
<1> HIDE DEF g
<1>6. f = W(f)
  <2>1. ASSUME NEW i \in 0..n PROVE f[i] = W(f)[i]
    <3>1. i = 0 \/ i \in 1..n
      BY <1>2
    <3> QED
      BY <1>4, <1>5, <3>1
  <2> QED
    BY <1>4, <2>1
<1>7. run = W(run)
  BY <1>6
<1> HIDE DEF run
<1>8. run[0] = v /\ \A i \in 1..n : run[i] = cio_putchar(run[i - 1], str[i])
  <2>1. 0 \in 0..n /\ 1..n \subseteq 0..n /\ \A i \in 1..n : i # 0
    BY <1>2
  <2>2. W(run)[0] = v /\ \A i \in 1..n : W(run)[i] = cio_putchar(run[i - 1], str[i])
    BY <2>1
  <2> HIDE DEF W
  <2> QED
    BY <1>7, <2>2
<1>9. run \in [0..n -> Screens]
  <2> DEFINE T == {i \in 0..n : run[i] \in Screens}
  <2>1. 0 \in T
    BY <1>2, <1>8
  <2>2. ASSUME NEW i \in 1..n, i - 1 \in T PROVE i \in T
    <3>1. run[i - 1] \in Screens /\ i \in 0..n /\ str[i] \in Int
      BY <1>2, <2>2
    <3>2. KeepsOutside(run[i - 1], cio_putchar(run[i - 1], str[i]))
      BY <3>1, PutcharKeeps
    <3> QED
      BY <1>8, <3>1, <3>2 DEF KeepsOutside
  <2> HIDE DEF T
  <2>3. 0..n \subseteq T
    BY <1>2, <2>1, <2>2, UpTo
  <2>4. run = [i \in 0..n |-> run[i]]
    <3>1. W(run) = [i \in 0..n |-> W(run)[i]]
      OBVIOUS
    <3> HIDE DEF W
    <3>2. \A X : X = W(run) => X = [i \in 0..n |-> X[i]]
      BY <3>1
    <3> QED
      BY <1>7, <3>2
  <2> QED
    BY <2>3, <2>4 DEF T
<1> QED
  BY <1>1, <1>8, <1>9 DEF n

(* What the paper of a screen of this region can be.                       *)
PapersOf(v) == {t \in Papers(v) : \E w \in Screens : SameRegion(v, w) /\ Shows(w, t)}

LEMMA PaperTyped ==
  ASSUME NEW v \in Screens, NEW t \in PapersOf(v), NEW c \in Int
  PROVE  Typed(t, c, Width(v)) \in PapersOf(v)
<1>1. PICK w \in Screens : SameRegion(v, w) /\ Shows(w, t)
  BY DEF PapersOf
<1>2. Width(w) = Width(v) /\ Papers(w) = Papers(v)
  BY <1>1, SameSize
<1> DEFINE z == cio_putchar(w, c)
           u == Typed(t, c, Width(v))
<1>3. KeepsOutside(w, z) /\ Shows(z, u)
  BY <1>1, <1>2, PutcharShows
<1> HIDE DEF z, u
<1>4. z \in Screens /\ SameRegion(v, z) /\ Papers(z) = Papers(v)
  BY <1>1, <1>2, <1>3, SameSize DEF KeepsOutside, SameRegion
<1>5. u \in Papers(v)
  BY <1>3, <1>4 DEF Shows
<1> QED
  BY <1>3, <1>4, <1>5 DEF PapersOf, u

(* TypedAll, character by character.                                       *)
LEMMA TypedRun ==
  ASSUME NEW v \in Screens, NEW t \in PapersOf(v), NEW str \in Seq(Int)
  PROVE  \E f \in [0..Len(str) -> PapersOf(v)] :
           /\ f[0] = t /\ \A i \in 1..Len(str) : f[i] = Typed(f[i - 1], str[i], Width(v))
           /\ TypedAll(t, str, Width(v)) = f[Len(str)]
<1> DEFINE n == Len(str)
           S == PapersOf(v)
           k == Width(v)
           W(f) == [i \in 0..n |-> IF i = 0 THEN t ELSE Typed(f[i - 1], str[i], k)]
           run == CHOOSE f : f = W(f)
           g == [q \in Nat \X S |->
                   IF q[1] \in 1..n THEN Typed(q[2], str[q[1]], k) ELSE q[2]]
<1>1. TypedAll(t, str, k) = run[n]
  BY DEF TypedAll
<1>2. n \in Nat /\ \A i \in 1..n : str[i] \in Int
  OBVIOUS
<1> HIDE DEF n
<1>3. t \in S /\ \A u \in S, c \in Int : Typed(u, c, k) \in S
  BY PaperTyped
<1> HIDE DEF S, k
<1>4. g \in [Nat \X S -> S]
  BY <1>2, <1>3
<1>5. PICK f \in [0..n -> S] : f[0] = t /\ \A i \in 1..n : f[i] = g[<<i, f[i - 1]>>]
  <2> HIDE DEF g, W, run
  <2>1. LoopRuns(t, g, n, S) # {}
    BY <1>2, <1>3, <1>4, Iterates
  <2> QED
    BY <2>1 DEF LoopRuns
<1>6. ASSUME NEW i \in 1..n PROVE f[i] = Typed(f[i - 1], str[i], k)
  <2>1. i \in Nat /\ i - 1 \in 0..n /\ f[i - 1] \in S
    BY <1>2, <1>5
  <2>2. g[<<i, f[i - 1]>>] = Typed(f[i - 1], str[i], k)
    BY <2>1
  <2> HIDE DEF g
  <2> QED
    BY <1>5, <2>2
<1> HIDE DEF g
<1>7. f = W(f)
  <2>1. ASSUME NEW i \in 0..n PROVE f[i] = W(f)[i]
    <3>1. i = 0 \/ i \in 1..n
      BY <1>2
    <3> QED
      BY <1>5, <1>6, <3>1
  <2> QED
    BY <1>5, <2>1
<1>8. run = W(run)
  BY <1>7
<1> HIDE DEF run
<1>9. run[0] = t /\ \A i \in 1..n : run[i] = Typed(run[i - 1], str[i], k)
  <2>1. 0 \in 0..n /\ 1..n \subseteq 0..n /\ \A i \in 1..n : i # 0
    BY <1>2
  <2>2. W(run)[0] = t /\ \A i \in 1..n : W(run)[i] = Typed(run[i - 1], str[i], k)
    BY <2>1
  <2> HIDE DEF W
  <2> QED
    BY <1>8, <2>2
<1>10. run \in [0..n -> S]
  <2> DEFINE T == {i \in 0..n : run[i] \in S}
  <2>1. 0 \in T
    BY <1>2, <1>3, <1>9
  <2>2. ASSUME NEW i \in 1..n, i - 1 \in T PROVE i \in T
    <3>1. run[i - 1] \in S /\ i \in 0..n /\ str[i] \in Int
      BY <1>2, <2>2
    <3> QED
      BY <1>3, <1>9, <3>1
  <2> HIDE DEF T
  <2>3. 0..n \subseteq T
    BY <1>2, <2>1, <2>2, UpTo
  <2>4. run = [i \in 0..n |-> run[i]]
    <3>1. W(run) = [i \in 0..n |-> W(run)[i]]
      OBVIOUS
    <3> HIDE DEF W
    <3>2. \A X : X = W(run) => X = [i \in 0..n |-> X[i]]
      BY <3>1
    <3> QED
      BY <1>8, <3>2
  <2> QED
    BY <2>3, <2>4 DEF T
<1> QED
  BY <1>1, <1>9, <1>10 DEF n, S, k

(* A text is shown as it is typed.                                         *)
LEMMA PutsShows ==
  ASSUME NEW v \in Screens, NEW t, Shows(v, t), NEW str \in Seq(Int)
  PROVE  /\ KeepsOutside(v, cio_puts(v, str))
         /\ Shows(cio_puts(v, str), TypedAll(t, str, Width(v)))
<1> DEFINE n == Len(str)
<1>1. PICK f \in [0..n -> Screens] :
        /\ f[0] = v /\ \A i \in 1..n : f[i] = cio_putchar(f[i - 1], str[i])
        /\ cio_puts(v, str) = f[n]
  BY PutsRun
<1>2. t \in PapersOf(v)
  BY DEF PapersOf, Shows, SameRegion
<1>3. PICK h \in [0..n -> PapersOf(v)] :
        /\ h[0] = t /\ \A i \in 1..n : h[i] = Typed(h[i - 1], str[i], Width(v))
        /\ TypedAll(t, str, Width(v)) = h[n]
  BY <1>2, TypedRun
<1>4. n \in Nat /\ \A i \in 1..n : str[i] \in Int
  OBVIOUS
<1> HIDE DEF n
<1> DEFINE T == {i \in 0..n : KeepsOutside(v, f[i]) /\ Shows(f[i], h[i])}
<1>5. 0 \in T
  BY <1>1, <1>3, <1>4, OutsideSelf
<1>6. ASSUME NEW i \in 1..n, i - 1 \in T PROVE i \in T
  <2> DEFINE a == f[i - 1]
             b == h[i - 1]
  <2>1. KeepsOutside(v, a) /\ Shows(a, b) /\ a \in Screens /\ str[i] \in Int /\ i \in 0..n
    BY <1>4, <1>6 DEF KeepsOutside
  <2>2. f[i] = cio_putchar(a, str[i]) /\ h[i] = Typed(b, str[i], Width(v))
    BY <1>1, <1>3
  <2> HIDE DEF a, b
  <2>3. Width(a) = Width(v)
    BY <2>1, SameSize DEF KeepsOutside
  <2>4. KeepsOutside(a, cio_putchar(a, str[i]))
        /\ Shows(cio_putchar(a, str[i]), Typed(b, str[i], Width(v)))
    BY <2>1, <2>3, PutcharShows
  <2>5. KeepsOutside(v, f[i]) /\ Shows(f[i], h[i])
    BY <2>1, <2>2, <2>4, OutsideTrans
  <2> QED
    BY <2>1, <2>5
<1> HIDE DEF T
<1>7. 0..n \subseteq T
  BY <1>4, <1>5, <1>6, UpTo
<1>8. n \in T
  BY <1>4, <1>7
<1> QED
  BY <1>1, <1>3, <1>8 DEF T

LEMMA PutsKeeps ==
  ASSUME NEW v \in Screens, NEW str \in Seq(Int)
  PROVE  KeepsOutside(v, cio_puts(v, str)) /\ cio_puts(v, str) \in Screens
BY FreshShows, PutsShows DEF KeepsOutside

LEMMA PutsOne ==
  ASSUME NEW v \in Screens, NEW c \in Int
  PROVE  cio_puts(v, <<c>>) = cio_putchar(v, c)
<1> DEFINE s == <<c>>
<1>1. s \in Seq(Int) /\ Len(s) = 1 /\ s[1] = c
  OBVIOUS
<1> HIDE DEF s
<1>2. PICK f \in [0..Len(s) -> Screens] :
        /\ f[0] = v /\ \A i \in 1..Len(s) : f[i] = cio_putchar(f[i - 1], s[i])
        /\ cio_puts(v, s) = f[Len(s)]
  BY <1>1, PutsRun
<1>3. f[1] = cio_putchar(f[0], c)
  BY <1>1, <1>2
<1> QED
  BY <1>1, <1>2, <1>3 DEF s

LEMMA PutsNone ==
  ASSUME NEW v \in Screens
  PROVE  cio_puts(v, <<>>) = v
<1> DEFINE s == <<>>
<1>1. s \in Seq(Int) /\ Len(s) = 0
  OBVIOUS
<1> HIDE DEF s
<1>2. PICK f \in [0..Len(s) -> Screens] :
        /\ f[0] = v /\ \A i \in 1..Len(s) : f[i] = cio_putchar(f[i - 1], s[i])
        /\ cio_puts(v, s) = f[Len(s)]
  BY <1>1, PutsRun
<1> QED
  BY <1>1, <1>2 DEF s

(* One text after another.                                                 *)
LEMMA PutsBoth ==
  ASSUME NEW v \in Screens, NEW s \in Seq(Int), NEW t \in Seq(Int)
  PROVE  cio_puts(v, s \o t) = cio_puts(cio_puts(v, s), t)
<1> DEFINE m == Len(s)
           n == Len(t)
           w == cio_puts(v, s)
<1>1. /\ s \o t \in Seq(Int) /\ Len(s \o t) = m + n
      /\ \A i \in 1..m : (s \o t)[i] = s[i]
      /\ \A i \in 1..n : (s \o t)[m + i] = t[i]
      /\ m \in Nat /\ n \in Nat
  <2>1. \A i \in 1..Len(s) + Len(t) :
          (s \o t)[i] = IF i <= Len(s) THEN s[i] ELSE t[i - Len(s)]
    BY ConcatProperties
  <2>2. Len(s) \in Nat /\ Len(t) \in Nat /\ s \o t \in Seq(Int) /\ Len(s \o t) = Len(s) + Len(t)
    BY ConcatProperties
  <2>3. ASSUME NEW i \in 1..n PROVE (s \o t)[m + i] = t[i]
    <3>1. m + i \in 1..Len(s) + Len(t) /\ ~(m + i <= Len(s)) /\ m + i - Len(s) = i
      BY <2>2
    <3> QED
      BY <2>1, <3>1
  <2>4. ASSUME NEW i \in 1..m PROVE (s \o t)[i] = s[i]
    <3>1. i \in 1..Len(s) + Len(t) /\ i <= Len(s)
      BY <2>2
    <3> QED
      BY <2>1, <3>1
  <2> QED
    BY <2>2, <2>3, <2>4
<1>2. PICK f \in [0..m + n -> Screens] :
        /\ f[0] = v /\ \A i \in 1..m + n : f[i] = cio_putchar(f[i - 1], (s \o t)[i])
        /\ cio_puts(v, s \o t) = f[m + n]
  BY <1>1, PutsRun
<1>3. PICK g \in [0..m -> Screens] :
        g[0] = v /\ (\A i \in 1..m : g[i] = cio_putchar(g[i - 1], s[i])) /\ w = g[m]
  BY PutsRun
<1>4. w \in Screens
  BY PutsKeeps
<1>5. PICK h \in [0..n -> Screens] :
        /\ h[0] = w /\ \A i \in 1..n : h[i] = cio_putchar(h[i - 1], t[i])
        /\ cio_puts(w, t) = h[n]
  BY <1>4, PutsRun
<1> HIDE DEF m, n, w
<1>6. f[m] = g[m]
  <2> DEFINE T == {i \in 0..m : f[i] = g[i]}
  <2>1. 0 \in T
    BY <1>1, <1>2, <1>3
  <2>2. ASSUME NEW i \in 1..m, i - 1 \in T PROVE i \in T
    <3>1. i \in 1..m + n /\ i \in 0..m
      BY <1>1
    <3>2. f[i] = cio_putchar(f[i - 1], s[i])
      BY <1>1, <1>2, <3>1
    <3> QED
      BY <1>3, <2>2, <3>1, <3>2
  <2> HIDE DEF T
  <2>3. 0..m \subseteq T
    BY <1>1, <2>1, <2>2, UpTo
  <2>4. m \in T
    BY <1>1, <2>3
  <2> QED
    BY <2>4 DEF T
<1>7. f[m + n] = h[n]
  <2> DEFINE T == {i \in 0..n : f[m + i] = h[i]}
  <2>1. 0 \in T
    <3>1. m + 0 = m /\ 0 \in 0..n
      BY <1>1
    <3> QED
      BY <1>3, <1>5, <1>6, <3>1
  <2>2. ASSUME NEW i \in 1..n, i - 1 \in T PROVE i \in T
    <3>1. m + i \in 1..m + n /\ i \in 0..n /\ (m + i) - 1 = m + (i - 1)
      BY <1>1
    <3>2. f[m + i] = cio_putchar(f[(m + i) - 1], (s \o t)[m + i])
      BY <1>2, <3>1
    <3>3. f[m + i] = cio_putchar(f[m + (i - 1)], t[i])
      BY <1>1, <3>1, <3>2
    <3>4. h[i] = cio_putchar(h[i - 1], t[i])
      BY <1>5
    <3>5. f[m + (i - 1)] = h[i - 1]
      BY <2>2
    <3> QED
      BY <3>1, <3>3, <3>4, <3>5
  <2> HIDE DEF T
  <2>3. 0..n \subseteq T
    BY <1>1, <2>1, <2>2, UpTo
  <2>4. n \in T
    BY <1>1, <2>3
  <2> QED
    BY <2>4 DEF T
<1> QED
  BY <1>2, <1>5, <1>7 DEF w

-----------------------------------------------------------------------------
(* Numbers.                                                                *)

(* One call of cvtdec0 that calls f.                                       *)
DecQuotient(v) == IF Quotient(v, 10) < 0 THEN 214748364 ELSE Quotient(v, 10)
DecDigit(v) == (IF Quotient(v, 10) < 0 THEN 8 ELSE Remainder(v, 10)) + ZERO
DecCall(f, v) == (IF DecQuotient(v) # 0 THEN f[DecQuotient(v)] ELSE <<>>) \o <<DecDigit(v)>>

LEMMA DecSmaller ==
  ASSUME NEW v \in Int
  PROVE  /\ DecQuotient(v) \in Nat /\ DecDigit(v) \in Int
         /\ v >= 0 /\ DecQuotient(v) # 0 => DecQuotient(v) < v
<1>1. CASE v < 0
  <2>1. Quotient(v, 10) = (v + 10 - 1) \div 10
    BY <1>1 DEF Quotient
  <2> QED
    BY <1>1, <2>1, SMT DEF DecQuotient, DecDigit, Remainder, ZERO
<1>2. CASE ~(v < 0)
  <2>1. Quotient(v, 10) = v \div 10
    BY <1>2 DEF Quotient
  <2>2. v \div 10 \in Nat /\ (v \div 10 # 0 => v \div 10 < v)
    BY <1>2
  <2>3. ~(Quotient(v, 10) < 0)
    BY <2>1, <2>2
  <2> QED
    BY <1>2, <2>1, <2>2, <2>3, SMT DEF DecQuotient, DecDigit, Remainder, ZERO
<1> QED
  BY <1>1, <1>2

LEMMA DecTyped ==
  ASSUME NEW f \in [Int -> Seq(Int)], NEW v \in Int
  PROVE  DecCall(f, v) \in Seq(Int)
<1>1. DecQuotient(v) \in Int /\ DecDigit(v) \in Int
  BY DecSmaller
<1> DEFINE s == IF DecQuotient(v) # 0 THEN f[DecQuotient(v)] ELSE <<>>
           e == <<DecDigit(v)>>
<1>2. s \in Seq(Int) /\ e \in Seq(Int)
  BY <1>1
<1> HIDE DEF s, e
<1>3. s \o e \in Seq(Int)
  BY <1>2
<1> QED
  BY <1>3 DEF DecCall, s, e

(* The recursion of cvtdec0 comes to an end: its value is a text.          *)
LEMMA Cvtdec0Typed ==
  ASSUME NEW n \in Int
  PROVE  cvtdec0(n) \in Seq(Int)
<1> DEFINE S == [Int -> Seq(Int)]
           W(f) == [v \in Int |-> DecCall(f, v)]
           run == CHOOSE f : f = W(f)
           g == [q \in Nat \X S |-> W(q[2])]
           blank0 == [v \in Int |-> <<>>]
<1>1. cvtdec0(n) = run[n]
  BY SMT DEF cvtdec0, DecCall, DecQuotient, DecDigit
<1>2. blank0 \in S /\ g \in [Nat \X S -> S]
  <2>1. \A f \in S : W(f) \in S
    BY DecTyped
  <2> HIDE DEF W, S
  <2>2. g \in [Nat \X S -> S]
    BY <2>1
  <2>3. blank0 \in S
    BY DEF S
  <2> QED
    BY <2>2, <2>3
<1>3. PICK h \in [Nat -> S] : h[0] = blank0 /\ \A i \in Nat \ {0} : h[i] = g[<<i, h[i - 1]>>]
  <2> HIDE DEF S, g, blank0
  <2>1. EndlessRuns(blank0, g, S) # {}
    BY <1>2, IteratesForever
  <2> QED
    BY <2>1 DEF EndlessRuns
<1>4. ASSUME NEW i \in Nat \ {0}, NEW v \in Int
      PROVE  h[i][v] = DecCall(h[i - 1], v) /\ i - 1 \in Nat
  <2>1. i \in Nat /\ i - 1 \in Nat
    OBVIOUS
  <2>2. h[i - 1] \in S
    BY <1>3, <2>1
  <2>3. g[<<i, h[i - 1]>>] = W(h[i - 1])
    <3> HIDE DEF S, W
    <3> QED
      BY <2>1, <2>2
  <2>4. h[i] = W(h[i - 1])
    BY <1>3, <2>3, Zenon
  <2> QED
    BY <2>1, <2>4
<1> HIDE DEF S, g, blank0, run
<1> DEFINE Stable(v) == \A k \in Nat : k > v => h[k][v] = h[v + 1][v]
           T == {v \in Nat : ~Stable(v)}
<1>5. ASSUME NEW v \in T, \A u \in T : v <= u PROVE FALSE
  <2> DEFINE q == DecQuotient(v)
  <2>1. v \in Nat /\ q \in Nat /\ (q # 0 => q < v)
    BY DecSmaller
  <2>2. q # 0 => Stable(q)
    BY <1>5, <2>1
  <2> HIDE DEF q
  <2>3. ASSUME NEW k \in Nat, k > v PROVE h[k][v] = h[v + 1][v]
    <3>1. h[k][v] = DecCall(h[k - 1], v) /\ h[v + 1][v] = DecCall(h[v], v)
      <4>1. k \in Nat \ {0} /\ v + 1 \in Nat \ {0} /\ (v + 1) - 1 = v /\ v \in Int
        BY <2>1, <2>3
      <4>2. h[v + 1][v] = DecCall(h[(v + 1) - 1], v)
        BY <1>4, <4>1
      <4> QED
        BY <1>4, <4>1, <4>2
    <3>2. CASE q = 0
      BY <3>1, <3>2 DEF DecCall, q
    <3>3. CASE q # 0
      <4>1. k - 1 \in Nat /\ k - 1 > q /\ v > q
        BY <2>1, <2>3, <3>3
      <4>2. h[k - 1][q] = h[q + 1][q] /\ h[v][q] = h[q + 1][q]
        BY <2>1, <2>2, <3>3, <4>1
      <4> QED
        BY <3>1, <3>3, <4>2 DEF DecCall, q
    <3> QED
      BY <3>2, <3>3
  <2> QED
    BY <2>3
<1>6. T = {}
  BY <1>5, LeastNat
<1> DEFINE F == [v \in Int |-> IF v >= 0 THEN h[v + 1][v]
                               ELSE DecCall([u \in Int |-> h[u + 1][u]], v)]
           lim == [u \in Int |-> h[u + 1][u]]
<1>7. F = W(F)
  <2>1. ASSUME NEW v \in Int PROVE F[v] = DecCall(F, v)
    <3> DEFINE q == DecQuotient(v)
    <3>1. q \in Nat /\ (v >= 0 /\ q # 0 => q < v)
      BY DecSmaller
    <3> HIDE DEF q
    <3>2. F[q] = h[q + 1][q] /\ lim[q] = h[q + 1][q]
      BY <3>1
    <3>3. CASE v >= 0
      <4>1. F[v] = h[v + 1][v] /\ v + 1 \in Nat \ {0} /\ (v + 1) - 1 = v /\ v \in Nat
        BY <3>3
      <4>2. h[v + 1][v] = DecCall(h[v], v)
        <5>1. h[v + 1][v] = DecCall(h[(v + 1) - 1], v)
          BY <1>4, <4>1
        <5> QED
          BY <4>1, <5>1
      <4>3. q # 0 => h[v][q] = h[q + 1][q]
        <5>1. ASSUME q # 0 PROVE h[v][q] = h[q + 1][q]
          <6>1. Stable(q)
            BY <1>6, <3>1
          <6>2. v > q
            BY <3>1, <3>3, <5>1
          <6> QED
            BY <4>1, <6>1, <6>2
        <5> QED
          BY <5>1
      <4>4. DecCall(h[v], v) = DecCall(F, v)
        <5> HIDE DEF F
        <5> QED
          BY <3>2, <4>3 DEF DecCall, q
      <4> QED
        BY <4>1, <4>2, <4>4
    <3>4. CASE ~(v >= 0)
      <4>1. F[v] = DecCall(lim, v)
        BY <3>4
      <4>2. DecCall(lim, v) = DecCall(F, v)
        <5> HIDE DEF F, lim
        <5> QED
          BY <3>2 DEF DecCall, q
      <4> QED
        BY <4>1, <4>2
    <3> QED
      BY <3>3, <3>4
  <2>2. F = [v \in Int |-> F[v]]
    OBVIOUS
  <2> HIDE DEF F
  <2> QED
    BY <2>1, <2>2
<1> HIDE DEF F, W
<1>8. run = W(run)
  BY <1>7 DEF run
<1>9. ASSUME NEW v \in Int PROVE run[v] = DecCall(run, v)
  <2>1. W(run)[v] = DecCall(run, v)
    BY DEF W
  <2> QED
    BY <1>8, <2>1
<1> DEFINE B == {v \in Nat : run[v] \notin Seq(Int)}
<1>10. ASSUME NEW v \in B, \A u \in B : v <= u PROVE FALSE
  <2> DEFINE q == DecQuotient(v)
  <2>1. v \in Nat /\ q \in Nat /\ (q # 0 => q < v) /\ DecDigit(v) \in Int
    BY DecSmaller
  <2> HIDE DEF q
  <2>2. q # 0 => run[q] \in Seq(Int)
    BY <1>10, <2>1
  <2> DEFINE s == IF q # 0 THEN run[q] ELSE <<>>
             e == <<DecDigit(v)>>
  <2>3. s \in Seq(Int) /\ e \in Seq(Int)
    BY <2>1, <2>2
  <2>4. run[v] = s \o e
    BY <1>9, <2>1 DEF DecCall, q
  <2> HIDE DEF s, e
  <2>5. s \o e \in Seq(Int)
    BY <2>3
  <2> QED
    BY <2>4, <2>5
<1>11. B = {}
  BY <1>10, LeastNat
<1>12. run[n] \in Seq(Int)
  <2> DEFINE q == DecQuotient(n)
  <2>1. q \in Nat /\ DecDigit(n) \in Int
    BY DecSmaller
  <2> HIDE DEF q
  <2>2. run[q] \in Seq(Int)
    BY <1>11, <2>1
  <2> DEFINE s == IF q # 0 THEN run[q] ELSE <<>>
             e == <<DecDigit(n)>>
  <2>3. s \in Seq(Int) /\ e \in Seq(Int)
    BY <2>1, <2>2
  <2>4. run[n] = s \o e
    BY <1>9 DEF DecCall, q
  <2> HIDE DEF s, e
  <2>5. s \o e \in Seq(Int)
    BY <2>3
  <2> QED
    BY <2>4, <2>5
<1> QED
  BY <1>1, <1>12

-----------------------------------------------------------------------------
(* Formats.                                                                *)

(* Where the digits of a directive begin.                                  *)
Sign(fmt, i) == IF fmt[i] = MINUS THEN i + 1 ELSE i
Digits(fmt, i) == IF fmt[Sign(fmt, i)] = ZERO THEN Sign(fmt, i) + 1 ELSE Sign(fmt, i)

Reads(fmt, i, k, e) ==
  /\ fmt \in Seq(Int) /\ i \in Int /\ k \in Int /\ k = Digits(fmt, i)
  /\ e \in k..Len(fmt) /\ fmt[e] \notin ZERO..NINE
  /\ \A o \in k..e-1 : fmt[o] \in ZERO..NINE

SaysOf(d, fmt, i, k, e) ==
  /\ d.code = fmt[e] /\ d.next = e + 1
  /\ d.leftadjust = (fmt[i] = MINUS)
  /\ d.padchar = IF fmt[Sign(fmt, i)] = ZERO THEN ZERO ELSE SPACE
  /\ e = k => d.width = 0
  /\ e = k + 1 => d.width = fmt[k] - ZERO

LEMMA TwoPlaces ==
  ASSUME NEW k \in Int, NEW e \in Int, e = k + 1
  PROVE  /\ k - 1 < k /\ ~(k < k) /\ k - 1 \in k-1..e-1 /\ k \in k-1..e-1 /\ ZERO \in Int
         /\ \A n \in k-1..e-1 : n = k - 1 \/ n = k
         /\ k \in k..e-1 /\ e - 1 = k /\ ZERO..NINE \subseteq Int
BY DEF ZERO, NINE

LEMMA DirectiveIs ==
  ASSUME NEW fmt, NEW i, NEW k, NEW e, Reads(fmt, i, k, e)
  PROVE  SaysOf(Directive(fmt, i), fmt, i, k, e)
<1>0. /\ fmt \in Seq(Int) /\ i \in Int /\ k \in Int /\ k = Digits(fmt, i)
      /\ e \in k..Len(fmt) /\ fmt[e] \notin ZERO..NINE
      /\ \A o \in k..e-1 : fmt[o] \in ZERO..NINE
  BY DEF Reads
<1>10. e \in Int
  BY <1>0
<1> DEFINE Ends(n) == fmt[n] \notin ZERO..NINE /\ \A o \in k..n-1 : fmt[o] \in ZERO..NINE
           c == CHOOSE n \in k..Len(fmt) : Ends(n)
           W(f) == [n \in k-1..e-1 |-> IF n < k THEN 0 ELSE f[n - 1] * 10 + fmt[n] - ZERO]
           width == CHOOSE f : f = W(f)
<1>1. c = e
  <2>1. Len(fmt) \in Nat /\ Ends(e) /\ k \in Int /\ e \in k..Len(fmt)
    BY <1>0
  <2>2. ASSUME NEW n \in k..Len(fmt), Ends(n) PROVE n = e
    <3>1. n < e => FALSE
      BY <1>0, <2>2
    <3>2. e < n => FALSE
      BY <1>0, <2>2
    <3>3. n \in Int /\ e \in Int
      BY <1>0
    <3> QED
      BY <3>1, <3>2, <3>3
  <2> HIDE DEF Ends
  <2>3. c \in k..Len(fmt) /\ Ends(c)
    BY <2>1
  <2> QED
    BY <2>2, <2>3
<1>2. Directive(fmt, i) =
        [leftadjust |-> fmt[i] = MINUS,
         padchar |-> IF fmt[Sign(fmt, i)] = ZERO THEN ZERO ELSE SPACE,
         width |-> width[e - 1], code |-> fmt[e], next |-> e + 1]
  <2> DEFINE D(n) == [leftadjust |-> fmt[i] = MINUS,
         padchar |-> IF fmt[Sign(fmt, i)] = ZERO THEN ZERO ELSE SPACE,
         width |-> (CHOOSE f : f = [m \in k-1..n-1 |-> IF m < k THEN 0
                                     ELSE f[m - 1] * 10 + fmt[m] - ZERO])[n - 1],
         code |-> fmt[n], next |-> n + 1]
  <2>1. Directive(fmt, i) = D(c)
    BY <1>0 DEF Directive, Digits, Sign
  <2> HIDE DEF c
  <2>2. D(c) = D(e)
    BY <1>1
  <2> QED
    BY <2>1, <2>2
<1>3. e = k => width[e - 1] = 0
  <2>1. SUFFICES ASSUME e = k PROVE width[e - 1] = 0
    OBVIOUS
  <2> DEFINE f == [n \in k-1..e-1 |-> 0]
  <2>2. f = W(f)
    BY <1>0, <1>10, <2>1
  <2> HIDE DEF f, W
  <2>3. width = W(width)
    BY <2>2
  <2> HIDE DEF width
  <2>4. W(width)[e - 1] = 0
    BY <1>0, <1>10, <2>1 DEF W
  <2> QED
    BY <2>3, <2>4
<1>4. e = k + 1 => width[e - 1] = fmt[k] - ZERO
  <2>1. SUFFICES ASSUME e = k + 1 PROVE width[e - 1] = fmt[k] - ZERO
    OBVIOUS
  <2>7. /\ k - 1 < k /\ ~(k < k) /\ k - 1 \in k-1..e-1 /\ k \in k-1..e-1 /\ ZERO \in Int
        /\ \A n \in k-1..e-1 : n = k - 1 \/ n = k
        /\ k \in k..e-1 /\ e - 1 = k /\ ZERO..NINE \subseteq Int
    BY <1>0, <1>10, <2>1, TwoPlaces
  <2>0. fmt[k] \in Int
    BY <1>0, <2>7, Zenon
  <2> DEFINE f == [n \in k-1..e-1 |-> IF n < k THEN 0 ELSE fmt[k] - ZERO]
  <2>8. f[k - 1] * 10 + fmt[k] - ZERO = fmt[k] - ZERO
    BY <2>0, <2>7
  <2>2. f = W(f)
    <3>1. \A n \in k-1..e-1 : (IF n < k THEN 0 ELSE fmt[k] - ZERO)
             = IF n < k THEN 0 ELSE f[n - 1] * 10 + fmt[n] - ZERO
      <4> HIDE DEF f
      <4> QED
        BY <2>7, <2>8
    <3> QED
      BY <3>1, Zenon
  <2> HIDE DEF f, W
  <2>3. width = W(width)
    BY <2>2
  <2> HIDE DEF width
  <2>4. W(width)[k - 1] = 0
    BY <2>7 DEF W
  <2>5. W(width)[k] = width[k - 1] * 10 + fmt[k] - ZERO
    BY <2>7 DEF W
  <2>6. width[k - 1] = 0 /\ width[k] = width[k - 1] * 10 + fmt[k] - ZERO
    BY <2>3, <2>4, <2>5, Zenon
  <2>9. 0 * 10 + fmt[k] - ZERO = fmt[k] - ZERO
    BY <2>0, <2>7
  <2> QED
    BY <2>6, <2>7, <2>9, Zenon
<1> HIDE DEF width
<1> DEFINE d == Directive(fmt, i)
<1>5. /\ d.code = fmt[e] /\ d.next = e + 1 /\ d.width = width[e - 1]
      /\ d.leftadjust = (fmt[i] = MINUS)
      /\ d.padchar = IF fmt[Sign(fmt, i)] = ZERO THEN ZERO ELSE SPACE
  BY <1>2
<1> HIDE DEF d
<1> QED
  BY <1>3, <1>4, <1>5, Zenon DEF SaysOf, d

(* The three formats.                                                      *)
F3d == <<PERCENT, 51, 100>>
F2c == <<PERCENT, MINUS, 50, 99, NEWLINE>>
Fs == <<66, PERCENT, 115>>

LEMMA FormatsAre == Formats = {<<F3d, <<7>>>>, <<F2c, <<65>>>>, <<Fs, <<<<65, NEWLINE>>>>>>}
BY DEF Formats, F3d, F2c, Fs

LEMMA FormatTyped ==
  /\ F3d \in Seq(Int) /\ Len(F3d) = 3 /\ F3d[1] = 37 /\ F3d[2] = 51 /\ F3d[3] = 100
  /\ F2c \in Seq(Int) /\ Len(F2c) = 5 /\ F2c[1] = 37 /\ F2c[2] = 45 /\ F2c[3] = 50
  /\ F2c[4] = 99 /\ F2c[5] = 10
  /\ Fs \in Seq(Int) /\ Len(Fs) = 3 /\ Fs[1] = 66 /\ Fs[2] = 37 /\ Fs[3] = 115
BY DEF F3d, F2c, Fs, PERCENT, MINUS, NEWLINE

LEMMA Directives ==
  /\ LET d == Directive(F3d, 2) IN
     d.code = 100 /\ d.next = 4 /\ d.leftadjust = FALSE /\ d.padchar = SPACE /\ d.width = 3
  /\ LET d == Directive(F2c, 2) IN
     d.code = 99 /\ d.next = 5 /\ d.leftadjust = TRUE /\ d.padchar = SPACE /\ d.width = 2
  /\ LET d == Directive(Fs, 3) IN
     d.code = 115 /\ d.next = 4 /\ d.leftadjust = FALSE /\ d.padchar = SPACE /\ d.width = 0
  /\ Directive(F3d, 1).code = 37 /\ Directive(F3d, 1).next = 2
  /\ Directive(F2c, 1).code = 37 /\ Directive(F2c, 1).next = 2
  /\ Directive(Fs, 1).code = 66 /\ Directive(Fs, 1).next = 2
<1>1. LET d == Directive(F3d, 2) IN
      d.code = 100 /\ d.next = 4 /\ d.leftadjust = FALSE /\ d.padchar = SPACE /\ d.width = 3
  <2>1. /\ 2 = Digits(F3d, 2) /\ Sign(F3d, 2) = 2 /\ F3d[2] # ZERO
        /\ F3d[2] # MINUS
    BY FormatTyped DEF Digits, Sign, MINUS, ZERO
  <2>2. Reads(F3d, 2, 2, 3)
    BY <2>1, FormatTyped DEF Reads, ZERO, NINE
  <2> DEFINE d == Directive(F3d, 2)
  <2>3. SaysOf(d, F3d, 2, 2, 3)
    BY <2>2, DirectiveIs
  <2> HIDE DEF d
  <2>4. d.code = 100 /\ d.next = 4
    BY <2>3, FormatTyped DEF SaysOf
  <2>5. d.leftadjust = FALSE /\ d.padchar = SPACE
    BY <2>1, <2>3, Zenon DEF SaysOf
  <2>6. d.width = 3
    <3>1. d.width = F3d[2] - ZERO
      BY <2>3 DEF SaysOf
    <3> QED
      BY <3>1, FormatTyped DEF ZERO
  <2> QED
    BY <2>4, <2>5, <2>6, Zenon DEF d
<1>2. LET d == Directive(F2c, 2) IN
      d.code = 99 /\ d.next = 5 /\ d.leftadjust = TRUE /\ d.padchar = SPACE /\ d.width = 2
  <2>1. /\ 3 = Digits(F2c, 2) /\ Sign(F2c, 2) = 3 /\ F2c[3] # ZERO
        /\ F2c[2] = MINUS
    BY FormatTyped DEF Digits, Sign, MINUS, ZERO
  <2>2. Reads(F2c, 2, 3, 4)
    BY <2>1, FormatTyped DEF Reads, ZERO, NINE
  <2> DEFINE d == Directive(F2c, 2)
  <2>3. SaysOf(d, F2c, 2, 3, 4)
    BY <2>2, DirectiveIs
  <2> HIDE DEF d
  <2>4. d.code = 99 /\ d.next = 5
    BY <2>3, FormatTyped DEF SaysOf
  <2>5. d.leftadjust = TRUE /\ d.padchar = SPACE
    BY <2>1, <2>3, Zenon DEF SaysOf
  <2>6. d.width = 2
    <3>1. d.width = F2c[3] - ZERO
      BY <2>3 DEF SaysOf
    <3> QED
      BY <3>1, FormatTyped DEF ZERO
  <2> QED
    BY <2>4, <2>5, <2>6, Zenon DEF d
<1>3. LET d == Directive(Fs, 3) IN
      d.code = 115 /\ d.next = 4 /\ d.leftadjust = FALSE /\ d.padchar = SPACE /\ d.width = 0
  <2>1. /\ 3 = Digits(Fs, 3) /\ Sign(Fs, 3) = 3 /\ Fs[3] # ZERO
        /\ Fs[3] # MINUS
    BY FormatTyped DEF Digits, Sign, MINUS, ZERO
  <2>2. Reads(Fs, 3, 3, 3)
    BY <2>1, FormatTyped DEF Reads, ZERO, NINE
  <2> DEFINE d == Directive(Fs, 3)
  <2>3. SaysOf(d, Fs, 3, 3, 3)
    BY <2>2, DirectiveIs
  <2> HIDE DEF d
  <2>4. d.code = 115 /\ d.next = 4
    BY <2>3, FormatTyped DEF SaysOf
  <2>5. d.leftadjust = FALSE /\ d.padchar = SPACE
    BY <2>1, <2>3, Zenon DEF SaysOf
  <2>6. d.width = 0
    <3>1. d.width = 0
      BY <2>3 DEF SaysOf
    <3> QED
      BY <3>1, FormatTyped DEF ZERO
  <2> QED
    BY <2>4, <2>5, <2>6, Zenon DEF d
<1>4. ASSUME NEW fmt, fmt \in Seq(Int), Len(fmt) \in Nat \ {0}, fmt[1] \in {37, 66}
      PROVE  Directive(fmt, 1).code = fmt[1] /\ Directive(fmt, 1).next = 2
  <2>1. Digits(fmt, 1) = 1
    BY <1>4 DEF Digits, Sign, MINUS, ZERO
  <2>2. Reads(fmt, 1, 1, 1)
    BY <1>4, <2>1 DEF Reads, ZERO, NINE
  <2> DEFINE d == Directive(fmt, 1)
  <2>3. SaysOf(d, fmt, 1, 1, 1)
    BY <2>2, DirectiveIs
  <2> HIDE DEF d
  <2>4. d.code = fmt[1] /\ d.next = 2
    BY <2>3 DEF SaysOf
  <2> QED
    BY <2>4 DEF d
<1>5. Directive(F3d, 1).code = 37 /\ Directive(F3d, 1).next = 2
  <2>1. F3d \in Seq(Int) /\ Len(F3d) \in Nat \ {0} /\ F3d[1] \in {37, 66} /\ F3d[1] = 37
    BY FormatTyped
  <2> QED
    BY <1>4, <2>1, Zenon
<1>6. Directive(F2c, 1).code = 37 /\ Directive(F2c, 1).next = 2
  <2>1. F2c \in Seq(Int) /\ Len(F2c) \in Nat \ {0} /\ F2c[1] \in {37, 66} /\ F2c[1] = 37
    BY FormatTyped
  <2> QED
    BY <1>4, <2>1, Zenon
<1>7. Directive(Fs, 1).code = 66 /\ Directive(Fs, 1).next = 2
  <2>1. Fs \in Seq(Int) /\ Len(Fs) \in Nat \ {0} /\ Fs[1] \in {37, 66} /\ Fs[1] = 66
    BY FormatTyped
  <2> QED
    BY <1>4, <2>1, Zenon
<1> QED
  BY <1>1, <1>2, <1>3, <1>5, <1>6, <1>7, Zenon

-----------------------------------------------------------------------------
(* sprint.                                                                 *)

(* One call of sprint's recursion that calls f.                            *)
SprintCall(fmt, args, f, p) ==
  LET i == p[1]
      n == p[2]
  IN IF i > Len(fmt) THEN <<>>
     ELSE IF fmt[i] # PERCENT THEN <<fmt[i]>> \o f[<<i + 1, n>>]
     ELSE LET d == Directive(fmt, i + 1)
          IN IF d.code \notin SprintCodes THEN f[<<d.next, n>>]
             ELSE padstr(Converted(d.code, args[n]), d.width, d.leftadjust,
                         d.padchar) \o f[<<d.next, n + 1>>]

(* Where there is a function that calls itself so, sprint's does.          *)
LEMMA SprintIs ==
  ASSUME NEW fmt, NEW args, NEW g,
         g = [p \in Nat \X Nat |-> SprintCall(fmt, args, g, p)]
  PROVE  \E f : /\ sprint(fmt, args) = f[<<1, 1>>]
                /\ \A p \in Nat \X Nat : f[p] = SprintCall(fmt, args, f, p)
<1> DEFINE W(f) == [p \in Nat \X Nat |-> SprintCall(fmt, args, f, p)]
           run == CHOOSE f : f = W(f)
<1>1. sprint(fmt, args) = run[<<1, 1>>]
  BY DEF sprint, SprintCall
<1>2. run = W(run)
  <2>1. g = W(g)
    OBVIOUS
  <2> HIDE DEF W
  <2> QED
    BY <2>1
<1> HIDE DEF run
<1>3. \A p \in Nat \X Nat : run[p] = SprintCall(fmt, args, run, p)
  <2>1. \A p \in Nat \X Nat : W(run)[p] = SprintCall(fmt, args, run, p)
    OBVIOUS
  <2> HIDE DEF W
  <2> QED
    BY <1>2, <2>1
<1> QED
  BY <1>1, <1>3, Zenon

(* What one call does: at the end, at a character, at a directive.         *)
CallSays(fmt, args, f, i, n) ==
  LET c == SprintCall(fmt, args, f, <<i, n>>)
      d == Directive(fmt, i + 1)
  IN /\ i > Len(fmt) => c = <<>>
     /\ ~(i > Len(fmt)) /\ fmt[i] # PERCENT => c = <<fmt[i]>> \o f[<<i + 1, n>>]
     /\ ~(i > Len(fmt)) /\ fmt[i] = PERCENT /\ d.code \notin SprintCodes
          => c = f[<<d.next, n>>]
     /\ ~(i > Len(fmt)) /\ fmt[i] = PERCENT /\ d.code \in SprintCodes
          => c = padstr(Converted(d.code, args[n]), d.width, d.leftadjust, d.padchar)
                   \o f[<<d.next, n + 1>>]

LEMMA SprintCallIs ==
  ASSUME NEW fmt, NEW args, NEW f, NEW i, NEW n
  PROVE  CallSays(fmt, args, f, i, n)
<1> DEFINE C(j, m) ==
      IF j > Len(fmt) THEN <<>>
      ELSE IF fmt[j] # PERCENT THEN <<fmt[j]>> \o f[<<j + 1, m>>]
      ELSE LET d == Directive(fmt, j + 1)
           IN IF d.code \notin SprintCodes THEN f[<<d.next, m>>]
              ELSE padstr(Converted(d.code, args[m]), d.width, d.leftadjust,
                          d.padchar) \o f[<<d.next, m + 1>>]
           p == <<i, n>>
<1>1. SprintCall(fmt, args, f, p) = C(p[1], p[2])
  <2> HIDE DEF p
  <2> QED
    BY Zenon DEF SprintCall
<1>2. p[1] = i /\ p[2] = n
  OBVIOUS
<1>3. SprintCall(fmt, args, f, p) = C(i, n)
  <2> HIDE DEF p
  <2>1. C(p[1], p[2]) = C(i, n)
    <3> HIDE DEF C
    <3> QED
      BY <1>2, Zenon
  <2> QED
    BY <1>1, <2>1, Zenon
<1> QED
  BY <1>3, Zenon DEF CallSays

(* "%3d": the value, padded.                                               *)
Says3d(args, h, n) ==
  /\ \A i \in Nat : i > 3 => SprintCall(F3d, args, h, <<i, n>>) = <<>>
  /\ SprintCall(F3d, args, h, <<2, n>>) = <<51>> \o h[<<3, n>>]
  /\ SprintCall(F3d, args, h, <<3, n>>) = <<100>> \o h[<<4, n>>]
  /\ SprintCall(F3d, args, h, <<1, n>>)
              = padstr(Converted(100, args[n]), 3, FALSE, SPACE) \o h[<<4, n + 1>>]
  /\ SprintCall(F3d, args, h, <<0, n>>)
              = IF F3d[0] # PERCENT THEN <<F3d[0]>> \o h[<<1, n>>] ELSE h[<<2, n>>]

LEMMA Calls3d ==
  ASSUME NEW args, NEW h, NEW n \in Nat
  PROVE  Says3d(args, h, n)
<1>0. \A i : CallSays(F3d, args, h, i, n)
  BY SprintCallIs
<1>1. /\ Len(F3d) = 3 /\ Len(F3d) \in Nat
      /\ F3d[2] = 51 /\ F3d[2] # PERCENT
      /\ F3d[3] = 100 /\ F3d[3] # PERCENT
      /\ F3d[1] = PERCENT
  BY FormatTyped DEF PERCENT
<1>2. /\ Directive(F3d, 2).code = 100 /\ Directive(F3d, 2).next = 4
      /\ Directive(F3d, 2).leftadjust = FALSE /\ Directive(F3d, 2).padchar = SPACE
      /\ Directive(F3d, 2).width = 3
      /\ Directive(F3d, 1).code \notin SprintCodes /\ Directive(F3d, 1).next = 2
      /\ 100 \in SprintCodes
  BY Directives DEF SprintCodes
<1>3. ASSUME NEW i \in Nat, i > 3 PROVE SprintCall(F3d, args, h, <<i, n>>) = <<>>
  <2>1. CallSays(F3d, args, h, i, n)
    BY <1>0
  <2> QED
    BY <2>1, <1>1, <1>3, Zenon DEF CallSays
<1>4. SprintCall(F3d, args, h, <<2, n>>) = <<51>> \o h[<<3, n>>]
  <2>1. 2 \in Nat /\ ~(2 > 3) /\ 2 + 1 = 3
    OBVIOUS
  <2>2. CallSays(F3d, args, h, 2, n)
    BY SprintCallIs
  <2> QED
    BY <1>1, <2>1, <2>2, Zenon DEF CallSays
<1>5. SprintCall(F3d, args, h, <<3, n>>) = <<100>> \o h[<<4, n>>]
  <2>1. 3 \in Nat /\ ~(3 > 3) /\ 3 + 1 = 4
    OBVIOUS
  <2>2. CallSays(F3d, args, h, 3, n)
    BY SprintCallIs
  <2> QED
    BY <1>1, <2>1, <2>2, Zenon DEF CallSays
<1>6. SprintCall(F3d, args, h, <<1, n>>)
        = padstr(Converted(100, args[n]), 3, FALSE, SPACE) \o h[<<4, n + 1>>]
  <2>1. 1 \in Nat /\ ~(1 > 3) /\ 1 + 1 = 2
    OBVIOUS
  <2>2. CallSays(F3d, args, h, 1, n)
    BY SprintCallIs
  <2>3. SprintCall(F3d, args, h, <<1, n>>)
          = padstr(Converted(Directive(F3d, 2).code, args[n]), Directive(F3d, 2).width,
                   Directive(F3d, 2).leftadjust, Directive(F3d, 2).padchar)
              \o h[<<Directive(F3d, 2).next, n + 1>>]
    <3>1. Directive(F3d, 1 + 1).code \in SprintCodes
      <4>1. Directive(F3d, 2).code \in SprintCodes
        BY <1>2, Zenon
      <4>2. 1 + 1 = 2
        BY <2>1
      <4> QED
        BY <4>1, <4>2, Zenon
    <3> QED
      BY <1>1, <2>1, <2>2, <3>1, Zenon DEF CallSays
  <2> QED
    BY <1>2, <2>3, Zenon
<1>7. SprintCall(F3d, args, h, <<0, n>>)
        = IF F3d[0] # PERCENT THEN <<F3d[0]>> \o h[<<1, n>>] ELSE h[<<2, n>>]
  <2>1. 0 \in Nat /\ ~(0 > 3) /\ 0 + 1 = 1
    OBVIOUS
  <2>4. CallSays(F3d, args, h, 0, n)
    BY SprintCallIs
  <2>2. CASE F3d[0] # PERCENT
    BY <2>4, <1>1, <2>1, <2>2, Zenon DEF CallSays
  <2>3. CASE F3d[0] = PERCENT
    <3>1. Directive(F3d, 0 + 1).code \notin SprintCodes /\ Directive(F3d, 0 + 1).next = 2
      BY <1>2, <2>1, Zenon
    <3>2. SprintCall(F3d, args, h, <<0, n>>) = h[<<Directive(F3d, 0 + 1).next, n>>]
      BY <2>4, <1>1, <3>1, <2>1, <2>3, Zenon DEF CallSays
    <3> QED
      BY <3>1, <3>2, <2>3, Zenon
  <2> QED
    BY <2>2, <2>3, Zenon
<1> QED
  BY <1>3, <1>4, <1>5, <1>6, <1>7, Zenon DEF Says3d

LEMMA Sprint3d ==
  sprint(F3d, <<7>>) = padstr(cvtdec(7), 3, FALSE, SPACE) \o <<>>
<1> DEFINE args == <<7>>
           T(n) == padstr(Converted(100, args[n]), 3, FALSE, SPACE)
           A3(n) == <<100>> \o <<>>
           A2(n) == <<51>> \o A3(n)
           A1(n) == T(n) \o <<>>
           A0(n) == IF F3d[0] # PERCENT THEN <<F3d[0]>> \o A1(n) ELSE A2(n)
           At(i, n) == IF i = 0 THEN A0(n)
             ELSE IF i = 1 THEN A1(n)
             ELSE IF i = 2 THEN A2(n)
             ELSE IF i = 3 THEN A3(n) ELSE <<>>
           g == [p \in Nat \X Nat |-> At(p[1], p[2])]
<1>1. \A i \in Nat, n \in Nat : g[<<i, n>>] = At(i, n)
  <2> HIDE DEF At
  <2> QED
    OBVIOUS
<1>2. g = [p \in Nat \X Nat |-> g[p]]
  <2> HIDE DEF At
  <2> QED
    OBVIOUS
<1> HIDE DEF args, g, T
<1>3. ASSUME NEW n \in Nat
      PROVE  /\ g[<<0, n>>] = A0(n)
             /\ g[<<1, n>>] = A1(n)
             /\ g[<<2, n>>] = A2(n)
             /\ g[<<3, n>>] = A3(n)
             /\ \A i \in Nat : i > 3 => g[<<i, n>>] = <<>>
  <2>1. 0 \in Nat /\ 1 \in Nat /\ 2 \in Nat /\ 3 \in Nat
    OBVIOUS
  <2>2. At(0, n) = A0(n)
    OBVIOUS
  <2>3. At(1, n) = A1(n)
    OBVIOUS
  <2>4. At(2, n) = A2(n)
    OBVIOUS
  <2>5. At(3, n) = A3(n)
    OBVIOUS
  <2>6. \A i \in Nat : i > 3 => At(i, n) = <<>>
    <3> HIDE DEF A0, A1, A2, A3
    <3> QED
      OBVIOUS
  <2> HIDE DEF At, A0, A1, A2, A3
  <2> QED
    BY <1>1, <2>1, <2>2, <2>3, <2>4, <2>5, <2>6, Zenon
<1>10. ASSUME NEW n \in Nat PROVE Says3d(args, g, n)
  BY Calls3d
<1>4. ASSUME NEW n \in Nat, NEW i \in Nat PROVE g[<<i, n>>] = SprintCall(F3d, args, g, <<i, n>>)
  <2>1. n + 1 \in Nat /\ 4 \in Nat
    OBVIOUS
  <2>2. CASE i > 3
    <3>1. SprintCall(F3d, args, g, <<i, n>>) = <<>>
      BY <1>10, <2>2, Zenon DEF Says3d
    <3>2. g[<<i, n>>] = <<>>
      BY <1>3, <2>2, Zenon
    <3> QED
      BY <3>1, <3>2, Zenon
  <2>3. CASE i = 0
    <3>1. SprintCall(F3d, args, g, <<0, n>>)
            = IF F3d[0] # PERCENT THEN <<F3d[0]>> \o g[<<1, n>>] ELSE g[<<2, n>>]
      BY <1>10, Zenon DEF Says3d
    <3>2. g[<<0, n>>] = A0(n) /\ g[<<1, n>>] = A1(n) /\ g[<<2, n>>] = A2(n)
      BY <1>3, Zenon
    <3> HIDE DEF A1, A2
    <3> QED
      BY <2>3, <3>1, <3>2, Zenon
  <2>4. CASE i = 1
    <3>1. SprintCall(F3d, args, g, <<1, n>>)
            = padstr(Converted(100, args[n]), 3, FALSE, SPACE) \o g[<<4, n + 1>>]
      BY <1>10, Zenon DEF Says3d
    <3>2. g[<<4, n + 1>>] = <<>>
      <4>1. 4 \in Nat /\ n + 1 \in Nat /\ 4 > 3
        OBVIOUS
      <4> QED
        BY <1>3, <4>1, Zenon
    <3>3. g[<<1, n>>] = A1(n)
      BY <1>3, Zenon
    <3>4. A1(n) = padstr(Converted(100, args[n]), 3, FALSE, SPACE) \o <<>>
      <4> HIDE DEF A0, A2, A3
      <4> QED
        BY Zenon DEF T
    <3> HIDE DEF A0, A1, A2, A3
    <3> QED
      BY <2>4, <3>1, <3>2, <3>3, <3>4, Zenon
  <2>5. CASE i = 2
    <3>1. SprintCall(F3d, args, g, <<2, n>>) = <<51>> \o g[<<3, n>>]
      BY <1>10, Zenon DEF Says3d
    <3>2. g[<<3, n>>] = A3(n)
      <4>1. 3 \in Nat /\ 3 > 2
        OBVIOUS
      <4> QED
        BY <1>3, <4>1, Zenon
    <3>3. g[<<2, n>>] = A2(n)
      BY <1>3, Zenon
    <3>4. A2(n) = <<51>> \o A3(n)
      OBVIOUS
    <3> HIDE DEF A0, A1, A2, A3
    <3> QED
      BY <2>5, <3>1, <3>2, <3>3, <3>4, Zenon
  <2>6. CASE i = 3
    <3>1. SprintCall(F3d, args, g, <<3, n>>) = <<100>> \o g[<<4, n>>]
      BY <1>10, Zenon DEF Says3d
    <3>2. g[<<4, n>>] = <<>>
      <4>1. 4 \in Nat /\ 4 > 3
        OBVIOUS
      <4> QED
        BY <1>3, <4>1, Zenon
    <3>3. g[<<3, n>>] = A3(n)
      BY <1>3, Zenon
    <3>4. A3(n) = <<100>> \o <<>>
      OBVIOUS
    <3> HIDE DEF A0, A1, A2, A3
    <3> QED
      BY <2>6, <3>1, <3>2, <3>3, <3>4, Zenon
  <2>7. i > 3 \/ i = 0 \/ i = 1 \/ i = 2 \/ i = 3
    OBVIOUS
  <2> QED
    BY <2>2, <2>3, <2>4, <2>5, <2>6, <2>7, Zenon
<1>5. g = [p \in Nat \X Nat |-> SprintCall(F3d, args, g, p)]
  <2>1. \A p \in Nat \X Nat : g[p] = SprintCall(F3d, args, g, p)
    <3>1. \A p \in Nat \X Nat : p = <<p[1], p[2]>> /\ p[1] \in Nat /\ p[2] \in Nat
      OBVIOUS
    <3> QED
      BY <1>4, <3>1, Zenon
  <2> QED
    BY <1>2, <2>1, Zenon
<1>6. PICK f : /\ sprint(F3d, args) = f[<<1, 1>>]
               /\ \A p \in Nat \X Nat : f[p] = SprintCall(F3d, args, f, p)
  BY <1>5, SprintIs
<1>8. \A i \in Nat, n \in Nat : f[<<i, n>>] = SprintCall(F3d, args, f, <<i, n>>)
  <2>1. \A i \in Nat, n \in Nat : <<i, n>> \in Nat \X Nat
    OBVIOUS
  <2> QED
    BY <1>6, <2>1, Zenon
<1>80. 1 \in Nat /\ 1 + 1 \in Nat /\ 2 \in Nat /\ 3 \in Nat /\ 4 \in Nat /\ 5 \in Nat /\ 4 > 3
  OBVIOUS
<1>11. ASSUME NEW n \in Nat PROVE Says3d(args, f, n)
  BY Calls3d
<1>81. Says3d(args, f, 1) /\ Says3d(args, f, 1 + 1)
  BY <1>11, <1>80, Zenon
<1>9. f[<<4, 1 + 1>>] = <<>>
  <2>1. f[<<4, 1 + 1>>] = SprintCall(F3d, args, f, <<4, 1 + 1>>)
    BY <1>8, <1>80, Zenon
  <2> QED
    BY <2>1, <1>80, <1>81, Zenon DEF Says3d
<1>12. f[<<1, 1>>] = padstr(Converted(100, args[1]), 3, FALSE, SPACE) \o f[<<4, 1 + 1>>]
  <2>1. f[<<1, 1>>] = SprintCall(F3d, args, f, <<1, 1>>)
    BY <1>8, <1>80, Zenon
  <2> QED
    BY <2>1, <1>81, Zenon DEF Says3d
<1>13. Converted(100, args[1]) = cvtdec(7)
  <2>1. args[1] = 7
    BY DEF args
  <2>2. \A x : Converted(100, x) = cvtdec(x)
    BY SMT DEF Converted
  <2> QED
    BY <2>1, <2>2, Zenon
<1> QED
  BY <1>6, <1>9, <1>12, <1>13, Zenon DEF args

(* "%-2c\n": the character, padded on the right, and a newline.            *)
Says2c(args, h, n) ==
  /\ \A i \in Nat : i > 5 => SprintCall(F2c, args, h, <<i, n>>) = <<>>
  /\ SprintCall(F2c, args, h, <<2, n>>) = <<45>> \o h[<<3, n>>]
  /\ SprintCall(F2c, args, h, <<3, n>>) = <<50>> \o h[<<4, n>>]
  /\ SprintCall(F2c, args, h, <<4, n>>) = <<99>> \o h[<<5, n>>]
  /\ SprintCall(F2c, args, h, <<5, n>>) = <<10>> \o h[<<6, n>>]
  /\ SprintCall(F2c, args, h, <<1, n>>)
              = padstr(Converted(99, args[n]), 2, TRUE, SPACE) \o h[<<5, n + 1>>]
  /\ SprintCall(F2c, args, h, <<0, n>>)
              = IF F2c[0] # PERCENT THEN <<F2c[0]>> \o h[<<1, n>>] ELSE h[<<2, n>>]

LEMMA Calls2c ==
  ASSUME NEW args, NEW h, NEW n \in Nat
  PROVE  Says2c(args, h, n)
<1>0. \A i : CallSays(F2c, args, h, i, n)
  BY SprintCallIs
<1>1. /\ Len(F2c) = 5 /\ Len(F2c) \in Nat
      /\ F2c[2] = 45 /\ F2c[2] # PERCENT
      /\ F2c[3] = 50 /\ F2c[3] # PERCENT
      /\ F2c[4] = 99 /\ F2c[4] # PERCENT
      /\ F2c[5] = 10 /\ F2c[5] # PERCENT
      /\ F2c[1] = PERCENT
  BY FormatTyped DEF PERCENT
<1>2. /\ Directive(F2c, 2).code = 99 /\ Directive(F2c, 2).next = 5
      /\ Directive(F2c, 2).leftadjust = TRUE /\ Directive(F2c, 2).padchar = SPACE
      /\ Directive(F2c, 2).width = 2
      /\ Directive(F2c, 1).code \notin SprintCodes /\ Directive(F2c, 1).next = 2
      /\ 99 \in SprintCodes
  BY Directives DEF SprintCodes
<1>3. ASSUME NEW i \in Nat, i > 5 PROVE SprintCall(F2c, args, h, <<i, n>>) = <<>>
  <2>1. CallSays(F2c, args, h, i, n)
    BY <1>0
  <2> QED
    BY <2>1, <1>1, <1>3, Zenon DEF CallSays
<1>4. SprintCall(F2c, args, h, <<2, n>>) = <<45>> \o h[<<3, n>>]
  <2>1. 2 \in Nat /\ ~(2 > 5) /\ 2 + 1 = 3
    OBVIOUS
  <2>2. CallSays(F2c, args, h, 2, n)
    BY SprintCallIs
  <2> QED
    BY <1>1, <2>1, <2>2, Zenon DEF CallSays
<1>5. SprintCall(F2c, args, h, <<3, n>>) = <<50>> \o h[<<4, n>>]
  <2>1. 3 \in Nat /\ ~(3 > 5) /\ 3 + 1 = 4
    OBVIOUS
  <2>2. CallSays(F2c, args, h, 3, n)
    BY SprintCallIs
  <2> QED
    BY <1>1, <2>1, <2>2, Zenon DEF CallSays
<1>6. SprintCall(F2c, args, h, <<4, n>>) = <<99>> \o h[<<5, n>>]
  <2>1. 4 \in Nat /\ ~(4 > 5) /\ 4 + 1 = 5
    OBVIOUS
  <2>2. CallSays(F2c, args, h, 4, n)
    BY SprintCallIs
  <2> QED
    BY <1>1, <2>1, <2>2, Zenon DEF CallSays
<1>7. SprintCall(F2c, args, h, <<5, n>>) = <<10>> \o h[<<6, n>>]
  <2>1. 5 \in Nat /\ ~(5 > 5) /\ 5 + 1 = 6
    OBVIOUS
  <2>2. CallSays(F2c, args, h, 5, n)
    BY SprintCallIs
  <2> QED
    BY <1>1, <2>1, <2>2, Zenon DEF CallSays
<1>8. SprintCall(F2c, args, h, <<1, n>>)
        = padstr(Converted(99, args[n]), 2, TRUE, SPACE) \o h[<<5, n + 1>>]
  <2>1. 1 \in Nat /\ ~(1 > 5) /\ 1 + 1 = 2
    OBVIOUS
  <2>2. CallSays(F2c, args, h, 1, n)
    BY SprintCallIs
  <2>3. SprintCall(F2c, args, h, <<1, n>>)
          = padstr(Converted(Directive(F2c, 2).code, args[n]), Directive(F2c, 2).width,
                   Directive(F2c, 2).leftadjust, Directive(F2c, 2).padchar)
              \o h[<<Directive(F2c, 2).next, n + 1>>]
    <3>1. Directive(F2c, 1 + 1).code \in SprintCodes
      <4>1. Directive(F2c, 2).code \in SprintCodes
        BY <1>2, Zenon
      <4>2. 1 + 1 = 2
        BY <2>1
      <4> QED
        BY <4>1, <4>2, Zenon
    <3> QED
      BY <1>1, <2>1, <2>2, <3>1, Zenon DEF CallSays
  <2> QED
    BY <1>2, <2>3, Zenon
<1>9. SprintCall(F2c, args, h, <<0, n>>)
        = IF F2c[0] # PERCENT THEN <<F2c[0]>> \o h[<<1, n>>] ELSE h[<<2, n>>]
  <2>1. 0 \in Nat /\ ~(0 > 5) /\ 0 + 1 = 1
    OBVIOUS
  <2>4. CallSays(F2c, args, h, 0, n)
    BY SprintCallIs
  <2>2. CASE F2c[0] # PERCENT
    BY <2>4, <1>1, <2>1, <2>2, Zenon DEF CallSays
  <2>3. CASE F2c[0] = PERCENT
    <3>1. Directive(F2c, 0 + 1).code \notin SprintCodes /\ Directive(F2c, 0 + 1).next = 2
      BY <1>2, <2>1, Zenon
    <3>2. SprintCall(F2c, args, h, <<0, n>>) = h[<<Directive(F2c, 0 + 1).next, n>>]
      BY <2>4, <1>1, <3>1, <2>1, <2>3, Zenon DEF CallSays
    <3> QED
      BY <3>1, <3>2, <2>3, Zenon
  <2> QED
    BY <2>2, <2>3, Zenon
<1> QED
  BY <1>3, <1>4, <1>5, <1>6, <1>7, <1>8, <1>9, Zenon DEF Says2c

LEMMA Sprint2c ==
  sprint(F2c, <<65>>) = padstr(<<65>>, 2, TRUE, SPACE) \o (<<10>> \o <<>>)
<1> DEFINE args == <<65>>
           T(n) == padstr(Converted(99, args[n]), 2, TRUE, SPACE)
           A5(n) == <<10>> \o <<>>
           A4(n) == <<99>> \o A5(n)
           A3(n) == <<50>> \o A4(n)
           A2(n) == <<45>> \o A3(n)
           A1(n) == T(n) \o A5(n + 1)
           A0(n) == IF F2c[0] # PERCENT THEN <<F2c[0]>> \o A1(n) ELSE A2(n)
           At(i, n) == IF i = 0 THEN A0(n)
             ELSE IF i = 1 THEN A1(n)
             ELSE IF i = 2 THEN A2(n)
             ELSE IF i = 3 THEN A3(n)
             ELSE IF i = 4 THEN A4(n)
             ELSE IF i = 5 THEN A5(n) ELSE <<>>
           g == [p \in Nat \X Nat |-> At(p[1], p[2])]
<1>1. \A i \in Nat, n \in Nat : g[<<i, n>>] = At(i, n)
  <2> HIDE DEF At
  <2> QED
    OBVIOUS
<1>2. g = [p \in Nat \X Nat |-> g[p]]
  <2> HIDE DEF At
  <2> QED
    OBVIOUS
<1> HIDE DEF args, g, T
<1>3. ASSUME NEW n \in Nat
      PROVE  /\ g[<<0, n>>] = A0(n)
             /\ g[<<1, n>>] = A1(n)
             /\ g[<<2, n>>] = A2(n)
             /\ g[<<3, n>>] = A3(n)
             /\ g[<<4, n>>] = A4(n)
             /\ g[<<5, n>>] = A5(n)
             /\ \A i \in Nat : i > 5 => g[<<i, n>>] = <<>>
  <2>1. 0 \in Nat /\ 1 \in Nat /\ 2 \in Nat /\ 3 \in Nat /\ 4 \in Nat /\ 5 \in Nat
    OBVIOUS
  <2>2. At(0, n) = A0(n)
    OBVIOUS
  <2>3. At(1, n) = A1(n)
    OBVIOUS
  <2>4. At(2, n) = A2(n)
    OBVIOUS
  <2>5. At(3, n) = A3(n)
    OBVIOUS
  <2>6. At(4, n) = A4(n)
    OBVIOUS
  <2>7. At(5, n) = A5(n)
    OBVIOUS
  <2>8. \A i \in Nat : i > 5 => At(i, n) = <<>>
    <3> HIDE DEF A0, A1, A2, A3, A4, A5
    <3> QED
      OBVIOUS
  <2> HIDE DEF At, A0, A1, A2, A3, A4, A5
  <2> QED
    BY <1>1, <2>1, <2>2, <2>3, <2>4, <2>5, <2>6, <2>7, <2>8, Zenon
<1>10. ASSUME NEW n \in Nat PROVE Says2c(args, g, n)
  BY Calls2c
<1>4. ASSUME NEW n \in Nat, NEW i \in Nat PROVE g[<<i, n>>] = SprintCall(F2c, args, g, <<i, n>>)
  <2>1. n + 1 \in Nat /\ 5 \in Nat
    OBVIOUS
  <2>2. CASE i > 5
    <3>1. SprintCall(F2c, args, g, <<i, n>>) = <<>>
      BY <1>10, <2>2, Zenon DEF Says2c
    <3>2. g[<<i, n>>] = <<>>
      BY <1>3, <2>2, Zenon
    <3> QED
      BY <3>1, <3>2, Zenon
  <2>3. CASE i = 0
    <3>1. SprintCall(F2c, args, g, <<0, n>>)
            = IF F2c[0] # PERCENT THEN <<F2c[0]>> \o g[<<1, n>>] ELSE g[<<2, n>>]
      BY <1>10, Zenon DEF Says2c
    <3>2. g[<<0, n>>] = A0(n) /\ g[<<1, n>>] = A1(n) /\ g[<<2, n>>] = A2(n)
      BY <1>3, Zenon
    <3> HIDE DEF A1, A2
    <3> QED
      BY <2>3, <3>1, <3>2, Zenon
  <2>4. CASE i = 1
    <3>1. SprintCall(F2c, args, g, <<1, n>>)
            = padstr(Converted(99, args[n]), 2, TRUE, SPACE) \o g[<<5, n + 1>>]
      BY <1>10, Zenon DEF Says2c
    <3>2. g[<<5, n + 1>>] = A5(n + 1)
      BY <1>3, <2>1, Zenon
    <3>3. g[<<1, n>>] = A1(n)
      BY <1>3, Zenon
    <3>4. A1(n) = padstr(Converted(99, args[n]), 2, TRUE, SPACE) \o A5(n + 1)
      <4> HIDE DEF A0, A2, A3, A4, A5
      <4> QED
        BY Zenon DEF T
    <3> HIDE DEF A0, A1, A2, A3, A4, A5
    <3> QED
      BY <2>4, <3>1, <3>2, <3>3, <3>4, Zenon
  <2>5. CASE i = 2
    <3>1. SprintCall(F2c, args, g, <<2, n>>) = <<45>> \o g[<<3, n>>]
      BY <1>10, Zenon DEF Says2c
    <3>2. g[<<3, n>>] = A3(n)
      <4>1. 3 \in Nat /\ 3 > 2
        OBVIOUS
      <4> QED
        BY <1>3, <4>1, Zenon
    <3>3. g[<<2, n>>] = A2(n)
      BY <1>3, Zenon
    <3>4. A2(n) = <<45>> \o A3(n)
      OBVIOUS
    <3> HIDE DEF A0, A1, A2, A3, A4, A5
    <3> QED
      BY <2>5, <3>1, <3>2, <3>3, <3>4, Zenon
  <2>6. CASE i = 3
    <3>1. SprintCall(F2c, args, g, <<3, n>>) = <<50>> \o g[<<4, n>>]
      BY <1>10, Zenon DEF Says2c
    <3>2. g[<<4, n>>] = A4(n)
      <4>1. 4 \in Nat /\ 4 > 3
        OBVIOUS
      <4> QED
        BY <1>3, <4>1, Zenon
    <3>3. g[<<3, n>>] = A3(n)
      BY <1>3, Zenon
    <3>4. A3(n) = <<50>> \o A4(n)
      OBVIOUS
    <3> HIDE DEF A0, A1, A2, A3, A4, A5
    <3> QED
      BY <2>6, <3>1, <3>2, <3>3, <3>4, Zenon
  <2>7. CASE i = 4
    <3>1. SprintCall(F2c, args, g, <<4, n>>) = <<99>> \o g[<<5, n>>]
      BY <1>10, Zenon DEF Says2c
    <3>2. g[<<5, n>>] = A5(n)
      <4>1. 5 \in Nat /\ 5 > 4
        OBVIOUS
      <4> QED
        BY <1>3, <4>1, Zenon
    <3>3. g[<<4, n>>] = A4(n)
      BY <1>3, Zenon
    <3>4. A4(n) = <<99>> \o A5(n)
      OBVIOUS
    <3> HIDE DEF A0, A1, A2, A3, A4, A5
    <3> QED
      BY <2>7, <3>1, <3>2, <3>3, <3>4, Zenon
  <2>8. CASE i = 5
    <3>1. SprintCall(F2c, args, g, <<5, n>>) = <<10>> \o g[<<6, n>>]
      BY <1>10, Zenon DEF Says2c
    <3>2. g[<<6, n>>] = <<>>
      <4>1. 6 \in Nat /\ 6 > 5
        OBVIOUS
      <4> QED
        BY <1>3, <4>1, Zenon
    <3>3. g[<<5, n>>] = A5(n)
      BY <1>3, Zenon
    <3>4. A5(n) = <<10>> \o <<>>
      OBVIOUS
    <3> HIDE DEF A0, A1, A2, A3, A4, A5
    <3> QED
      BY <2>8, <3>1, <3>2, <3>3, <3>4, Zenon
  <2>9. i > 5 \/ i = 0 \/ i = 1 \/ i = 2 \/ i = 3 \/ i = 4 \/ i = 5
    OBVIOUS
  <2> QED
    BY <2>2, <2>3, <2>4, <2>5, <2>6, <2>7, <2>8, <2>9, Zenon
<1>5. g = [p \in Nat \X Nat |-> SprintCall(F2c, args, g, p)]
  <2>1. \A p \in Nat \X Nat : g[p] = SprintCall(F2c, args, g, p)
    <3>1. \A p \in Nat \X Nat : p = <<p[1], p[2]>> /\ p[1] \in Nat /\ p[2] \in Nat
      OBVIOUS
    <3> QED
      BY <1>4, <3>1, Zenon
  <2> QED
    BY <1>2, <2>1, Zenon
<1>6. PICK f : /\ sprint(F2c, args) = f[<<1, 1>>]
               /\ \A p \in Nat \X Nat : f[p] = SprintCall(F2c, args, f, p)
  BY <1>5, SprintIs
<1>8. \A i \in Nat, n \in Nat : f[<<i, n>>] = SprintCall(F2c, args, f, <<i, n>>)
  <2>1. \A i \in Nat, n \in Nat : <<i, n>> \in Nat \X Nat
    OBVIOUS
  <2> QED
    BY <1>6, <2>1, Zenon
<1>80. /\ 1 \in Nat /\ 1 + 1 \in Nat /\ 2 \in Nat /\ 3 \in Nat /\ 4 \in Nat /\ 5 \in Nat
       /\ 6 \in Nat /\ 6 > 5
  OBVIOUS
<1>11. ASSUME NEW n \in Nat PROVE Says2c(args, f, n)
  BY Calls2c
<1>81. Says2c(args, f, 1) /\ Says2c(args, f, 1 + 1)
  BY <1>11, <1>80, Zenon
<1>9. f[<<6, 1 + 1>>] = <<>>
  <2>1. f[<<6, 1 + 1>>] = SprintCall(F2c, args, f, <<6, 1 + 1>>)
    BY <1>8, <1>80, Zenon
  <2> QED
    BY <2>1, <1>80, <1>81, Zenon DEF Says2c
<1>12. f[<<5, 1 + 1>>] = <<10>> \o f[<<6, 1 + 1>>]
  <2>1. f[<<5, 1 + 1>>] = SprintCall(F2c, args, f, <<5, 1 + 1>>)
    BY <1>8, <1>80, Zenon
  <2> QED
    BY <2>1, <1>81, Zenon DEF Says2c
<1>13. f[<<1, 1>>] = padstr(Converted(99, args[1]), 2, TRUE, SPACE) \o f[<<5, 1 + 1>>]
  <2>1. f[<<1, 1>>] = SprintCall(F2c, args, f, <<1, 1>>)
    BY <1>8, <1>80, Zenon
  <2> QED
    BY <2>1, <1>81, Zenon DEF Says2c
<1>14. Converted(99, args[1]) = <<65>>
  <2>1. args[1] = 65
    BY DEF args
  <2>2. \A x : Converted(99, x) = <<x>>
    BY SMT DEF Converted
  <2> QED
    BY <2>1, <2>2, Zenon
<1> QED
  BY <1>6, <1>9, <1>12, <1>13, <1>14, Zenon DEF args

(* "B%s": the character and the string.                                    *)
Sayss(args, h, n) ==
  /\ \A i \in Nat : i > 3 => SprintCall(Fs, args, h, <<i, n>>) = <<>>
  /\ SprintCall(Fs, args, h, <<1, n>>) = <<66>> \o h[<<2, n>>]
  /\ SprintCall(Fs, args, h, <<3, n>>) = <<115>> \o h[<<4, n>>]
  /\ SprintCall(Fs, args, h, <<2, n>>)
              = padstr(Converted(115, args[n]), 0, FALSE, SPACE) \o h[<<4, n + 1>>]
  /\ SprintCall(Fs, args, h, <<0, n>>)
              = IF Fs[0] # PERCENT THEN <<Fs[0]>> \o h[<<1, n>>] ELSE h[<<2, n>>]

LEMMA Callss ==
  ASSUME NEW args, NEW h, NEW n \in Nat
  PROVE  Sayss(args, h, n)
<1>0. \A i : CallSays(Fs, args, h, i, n)
  BY SprintCallIs
<1>1. /\ Len(Fs) = 3 /\ Len(Fs) \in Nat
      /\ Fs[1] = 66 /\ Fs[1] # PERCENT
      /\ Fs[3] = 115 /\ Fs[3] # PERCENT
      /\ Fs[2] = PERCENT
  BY FormatTyped DEF PERCENT
<1>2. /\ Directive(Fs, 3).code = 115 /\ Directive(Fs, 3).next = 4
      /\ Directive(Fs, 3).leftadjust = FALSE /\ Directive(Fs, 3).padchar = SPACE
      /\ Directive(Fs, 3).width = 0
      /\ Directive(Fs, 1).code \notin SprintCodes /\ Directive(Fs, 1).next = 2
      /\ 115 \in SprintCodes
  BY Directives DEF SprintCodes
<1>3. ASSUME NEW i \in Nat, i > 3 PROVE SprintCall(Fs, args, h, <<i, n>>) = <<>>
  <2>1. CallSays(Fs, args, h, i, n)
    BY <1>0
  <2> QED
    BY <2>1, <1>1, <1>3, Zenon DEF CallSays
<1>4. SprintCall(Fs, args, h, <<1, n>>) = <<66>> \o h[<<2, n>>]
  <2>1. 1 \in Nat /\ ~(1 > 3) /\ 1 + 1 = 2
    OBVIOUS
  <2>2. CallSays(Fs, args, h, 1, n)
    BY SprintCallIs
  <2> QED
    BY <1>1, <2>1, <2>2, Zenon DEF CallSays
<1>5. SprintCall(Fs, args, h, <<3, n>>) = <<115>> \o h[<<4, n>>]
  <2>1. 3 \in Nat /\ ~(3 > 3) /\ 3 + 1 = 4
    OBVIOUS
  <2>2. CallSays(Fs, args, h, 3, n)
    BY SprintCallIs
  <2> QED
    BY <1>1, <2>1, <2>2, Zenon DEF CallSays
<1>6. SprintCall(Fs, args, h, <<2, n>>)
        = padstr(Converted(115, args[n]), 0, FALSE, SPACE) \o h[<<4, n + 1>>]
  <2>1. 2 \in Nat /\ ~(2 > 3) /\ 2 + 1 = 3
    OBVIOUS
  <2>2. CallSays(Fs, args, h, 2, n)
    BY SprintCallIs
  <2>3. SprintCall(Fs, args, h, <<2, n>>)
          = padstr(Converted(Directive(Fs, 3).code, args[n]), Directive(Fs, 3).width,
                   Directive(Fs, 3).leftadjust, Directive(Fs, 3).padchar)
              \o h[<<Directive(Fs, 3).next, n + 1>>]
    <3>1. Directive(Fs, 2 + 1).code \in SprintCodes
      <4>1. Directive(Fs, 3).code \in SprintCodes
        BY <1>2, Zenon
      <4>2. 2 + 1 = 3
        BY <2>1
      <4> QED
        BY <4>1, <4>2, Zenon
    <3> QED
      BY <1>1, <2>1, <2>2, <3>1, Zenon DEF CallSays
  <2> QED
    BY <1>2, <2>3, Zenon
<1>7. SprintCall(Fs, args, h, <<0, n>>)
        = IF Fs[0] # PERCENT THEN <<Fs[0]>> \o h[<<1, n>>] ELSE h[<<2, n>>]
  <2>1. 0 \in Nat /\ ~(0 > 3) /\ 0 + 1 = 1
    OBVIOUS
  <2>4. CallSays(Fs, args, h, 0, n)
    BY SprintCallIs
  <2>2. CASE Fs[0] # PERCENT
    BY <2>4, <1>1, <2>1, <2>2, Zenon DEF CallSays
  <2>3. CASE Fs[0] = PERCENT
    <3>1. Directive(Fs, 0 + 1).code \notin SprintCodes /\ Directive(Fs, 0 + 1).next = 2
      BY <1>2, <2>1, Zenon
    <3>2. SprintCall(Fs, args, h, <<0, n>>) = h[<<Directive(Fs, 0 + 1).next, n>>]
      BY <2>4, <1>1, <3>1, <2>1, <2>3, Zenon DEF CallSays
    <3> QED
      BY <3>1, <3>2, <2>3, Zenon
  <2> QED
    BY <2>2, <2>3, Zenon
<1> QED
  BY <1>3, <1>4, <1>5, <1>6, <1>7, Zenon DEF Sayss

LEMMA Sprints ==
  sprint(Fs, <<<<65, NEWLINE>>>>) = <<66>> \o (padstr(<<65, NEWLINE>>, 0, FALSE, SPACE) \o <<>>)
<1> DEFINE args == <<<<65, NEWLINE>>>>
           T(n) == padstr(Converted(115, args[n]), 0, FALSE, SPACE)
           A3(n) == <<115>> \o <<>>
           A2(n) == T(n) \o <<>>
           A1(n) == <<66>> \o A2(n)
           A0(n) == IF Fs[0] # PERCENT THEN <<Fs[0]>> \o A1(n) ELSE A2(n)
           At(i, n) == IF i = 0 THEN A0(n)
             ELSE IF i = 1 THEN A1(n)
             ELSE IF i = 2 THEN A2(n)
             ELSE IF i = 3 THEN A3(n) ELSE <<>>
           g == [p \in Nat \X Nat |-> At(p[1], p[2])]
<1>1. \A i \in Nat, n \in Nat : g[<<i, n>>] = At(i, n)
  <2> HIDE DEF At
  <2> QED
    OBVIOUS
<1>2. g = [p \in Nat \X Nat |-> g[p]]
  <2> HIDE DEF At
  <2> QED
    OBVIOUS
<1> HIDE DEF args, g, T
<1>3. ASSUME NEW n \in Nat
      PROVE  /\ g[<<0, n>>] = A0(n)
             /\ g[<<1, n>>] = A1(n)
             /\ g[<<2, n>>] = A2(n)
             /\ g[<<3, n>>] = A3(n)
             /\ \A i \in Nat : i > 3 => g[<<i, n>>] = <<>>
  <2>1. 0 \in Nat /\ 1 \in Nat /\ 2 \in Nat /\ 3 \in Nat
    OBVIOUS
  <2>2. At(0, n) = A0(n)
    OBVIOUS
  <2>3. At(1, n) = A1(n)
    OBVIOUS
  <2>4. At(2, n) = A2(n)
    OBVIOUS
  <2>5. At(3, n) = A3(n)
    OBVIOUS
  <2>6. \A i \in Nat : i > 3 => At(i, n) = <<>>
    <3> HIDE DEF A0, A1, A2, A3
    <3> QED
      OBVIOUS
  <2> HIDE DEF At, A0, A1, A2, A3
  <2> QED
    BY <1>1, <2>1, <2>2, <2>3, <2>4, <2>5, <2>6, Zenon
<1>10. ASSUME NEW n \in Nat PROVE Sayss(args, g, n)
  BY Callss
<1>4. ASSUME NEW n \in Nat, NEW i \in Nat PROVE g[<<i, n>>] = SprintCall(Fs, args, g, <<i, n>>)
  <2>1. n + 1 \in Nat /\ 4 \in Nat
    OBVIOUS
  <2>2. CASE i > 3
    <3>1. SprintCall(Fs, args, g, <<i, n>>) = <<>>
      BY <1>10, <2>2, Zenon DEF Sayss
    <3>2. g[<<i, n>>] = <<>>
      BY <1>3, <2>2, Zenon
    <3> QED
      BY <3>1, <3>2, Zenon
  <2>3. CASE i = 0
    <3>1. SprintCall(Fs, args, g, <<0, n>>)
            = IF Fs[0] # PERCENT THEN <<Fs[0]>> \o g[<<1, n>>] ELSE g[<<2, n>>]
      BY <1>10, Zenon DEF Sayss
    <3>2. g[<<0, n>>] = A0(n) /\ g[<<1, n>>] = A1(n) /\ g[<<2, n>>] = A2(n)
      BY <1>3, Zenon
    <3> HIDE DEF A1, A2
    <3> QED
      BY <2>3, <3>1, <3>2, Zenon
  <2>4. CASE i = 1
    <3>1. SprintCall(Fs, args, g, <<1, n>>) = <<66>> \o g[<<2, n>>]
      BY <1>10, Zenon DEF Sayss
    <3>2. g[<<2, n>>] = A2(n)
      <4>1. 2 \in Nat /\ 2 > 1
        OBVIOUS
      <4> QED
        BY <1>3, <4>1, Zenon
    <3>3. g[<<1, n>>] = A1(n)
      BY <1>3, Zenon
    <3>4. A1(n) = <<66>> \o A2(n)
      OBVIOUS
    <3> HIDE DEF A0, A1, A2, A3
    <3> QED
      BY <2>4, <3>1, <3>2, <3>3, <3>4, Zenon
  <2>5. CASE i = 2
    <3>1. SprintCall(Fs, args, g, <<2, n>>)
            = padstr(Converted(115, args[n]), 0, FALSE, SPACE) \o g[<<4, n + 1>>]
      BY <1>10, Zenon DEF Sayss
    <3>2. g[<<4, n + 1>>] = <<>>
      <4>1. 4 \in Nat /\ n + 1 \in Nat /\ 4 > 3
        OBVIOUS
      <4> QED
        BY <1>3, <4>1, Zenon
    <3>3. g[<<2, n>>] = A2(n)
      BY <1>3, Zenon
    <3>4. A2(n) = padstr(Converted(115, args[n]), 0, FALSE, SPACE) \o <<>>
      <4> HIDE DEF A0, A1, A3
      <4> QED
        BY Zenon DEF T
    <3> HIDE DEF A0, A1, A2, A3
    <3> QED
      BY <2>5, <3>1, <3>2, <3>3, <3>4, Zenon
  <2>6. CASE i = 3
    <3>1. SprintCall(Fs, args, g, <<3, n>>) = <<115>> \o g[<<4, n>>]
      BY <1>10, Zenon DEF Sayss
    <3>2. g[<<4, n>>] = <<>>
      <4>1. 4 \in Nat /\ 4 > 3
        OBVIOUS
      <4> QED
        BY <1>3, <4>1, Zenon
    <3>3. g[<<3, n>>] = A3(n)
      BY <1>3, Zenon
    <3>4. A3(n) = <<115>> \o <<>>
      OBVIOUS
    <3> HIDE DEF A0, A1, A2, A3
    <3> QED
      BY <2>6, <3>1, <3>2, <3>3, <3>4, Zenon
  <2>7. i > 3 \/ i = 0 \/ i = 1 \/ i = 2 \/ i = 3
    OBVIOUS
  <2> QED
    BY <2>2, <2>3, <2>4, <2>5, <2>6, <2>7, Zenon
<1>5. g = [p \in Nat \X Nat |-> SprintCall(Fs, args, g, p)]
  <2>1. \A p \in Nat \X Nat : g[p] = SprintCall(Fs, args, g, p)
    <3>1. \A p \in Nat \X Nat : p = <<p[1], p[2]>> /\ p[1] \in Nat /\ p[2] \in Nat
      OBVIOUS
    <3> QED
      BY <1>4, <3>1, Zenon
  <2> QED
    BY <1>2, <2>1, Zenon
<1>6. PICK f : /\ sprint(Fs, args) = f[<<1, 1>>]
               /\ \A p \in Nat \X Nat : f[p] = SprintCall(Fs, args, f, p)
  BY <1>5, SprintIs
<1>8. \A i \in Nat, n \in Nat : f[<<i, n>>] = SprintCall(Fs, args, f, <<i, n>>)
  <2>1. \A i \in Nat, n \in Nat : <<i, n>> \in Nat \X Nat
    OBVIOUS
  <2> QED
    BY <1>6, <2>1, Zenon
<1>80. 1 \in Nat /\ 1 + 1 \in Nat /\ 2 \in Nat /\ 3 \in Nat /\ 4 \in Nat /\ 5 \in Nat /\ 4 > 3
  OBVIOUS
<1>11. ASSUME NEW n \in Nat PROVE Sayss(args, f, n)
  BY Callss
<1>81. Sayss(args, f, 1) /\ Sayss(args, f, 1 + 1)
  BY <1>11, <1>80, Zenon
<1>9. f[<<4, 1 + 1>>] = <<>>
  <2>1. f[<<4, 1 + 1>>] = SprintCall(Fs, args, f, <<4, 1 + 1>>)
    BY <1>8, <1>80, Zenon
  <2> QED
    BY <2>1, <1>80, <1>81, Zenon DEF Sayss
<1>12. f[<<2, 1>>] = padstr(Converted(115, args[1]), 0, FALSE, SPACE) \o f[<<4, 1 + 1>>]
  <2>1. f[<<2, 1>>] = SprintCall(Fs, args, f, <<2, 1>>)
    BY <1>8, <1>80, Zenon
  <2> QED
    BY <2>1, <1>81, Zenon DEF Sayss
<1>13. f[<<1, 1>>] = <<66>> \o f[<<2, 1>>]
  <2>1. f[<<1, 1>>] = SprintCall(Fs, args, f, <<1, 1>>)
    BY <1>8, <1>80, Zenon
  <2> QED
    BY <2>1, <1>81, Zenon DEF Sayss
<1>14. Converted(115, args[1]) = <<65, NEWLINE>>
  <2>1. args[1] = <<65, NEWLINE>>
    BY DEF args
  <2>2. \A x : Converted(115, x) = x
    BY SMT DEF Converted
  <2> QED
    BY <2>1, <2>2, Zenon
<1> QED
  BY <1>6, <1>9, <1>12, <1>13, <1>14, Zenon DEF args

-----------------------------------------------------------------------------
(* Output at a place.                                                      *)

(* The cells a character at <<x, y>> may change.                           *)
Reach(v, x, y) ==
  {p \in Cells : \/ p = <<x, y>>
                 \/ p[2] = y /\ x <= p[1]
                      /\ p[1] <= IF x > v.max_x THEN SCREEN_MAX_X
                                 ELSE IF x >= v.min_x THEN v.max_x ELSE v.min_x - 1}

(* Only they change; the region and the cursor stay.                       *)
LEMMA PutAtKeeps ==
  ASSUME NEW v \in Screens, NEW x \in Int, NEW y \in Int, NEW c \in Int
  PROVE  LET w == cio_putchar_at(v, x, y, c) IN
         /\ w \in Screens /\ SameRegion(v, w)
         /\ \A p \in Cells : p \notin Reach(v, x, y) => w.screen[p] = v.screen[p]
<1> DEFINE w == cio_putchar_at(v, x, y, c)
           limit == IF x > v.max_x THEN SCREEN_MAX_X
                    ELSE IF x >= v.min_x THEN v.max_x ELSE v.min_x - 1
           blank == [p \in Cells |-> IF p[1] \in x..limit /\ p[2] = y
                                     THEN SPACE ELSE v.screen[p]]
           hit == [v.screen EXCEPT ![<<x, y>>] = c]
<1> SUFFICES /\ w \in Screens /\ SameRegion(v, w)
             /\ \A p \in Cells : p \notin Reach(v, x, y) => w.screen[p] = v.screen[p]
  OBVIOUS
<1>1. /\ v.screen \in [Cells -> Int] /\ v.x \in Int /\ v.y \in Int
      /\ v.min_x \in Int /\ v.max_x \in Int /\ SCREEN_MAX_X \in Nat /\ InRegion(v)
  BY ScreenIs
<1>2. ASSUME NEW scr \in [Cells -> Int],
             \A p \in Cells : p \notin Reach(v, x, y) => scr[p] = v.screen[p],
             w = Redrawn(v, scr, v.x, v.y)
      PROVE  /\ w \in Screens /\ SameRegion(v, w)
             /\ \A p \in Cells : p \notin Reach(v, x, y) => w.screen[p] = v.screen[p]
  <2> DEFINE r == Redrawn(v, scr, v.x, v.y)
  <2>1. /\ r.screen = scr /\ r.x = v.x /\ r.y = v.y /\ SameRegion(v, r)
        /\ r \in [screen : [Cells -> Int], min_x : Int, min_y : Int, max_x : Int,
                  max_y : Int, x : Int, y : Int]
    BY <1>1, RedrawnIs
  <2> HIDE DEF r, w
  <2>2. InRegion(r)
    BY <1>1, <2>1 DEF InRegion, SameRegion
  <2>3. r \in Screens /\ w = r
    BY <1>2, <2>1, <2>2 DEF Screens, r
  <2> QED
    BY <1>2, <2>1, <2>3
<1>3. limit \in Int
  BY <1>1
<1>4. CASE c % 128 # NEWLINE /\ <<x, y>> \in Cells
  <2>1. w = [v EXCEPT !.screen = hit]
    BY <1>4 DEF cio_putchar_at, putchar_at
  <2>2. w = Redrawn(v, hit, v.x, v.y)
    <3> DEFINE d == Redrawn(v, v.screen, v.x, v.y)
    <3>1. v = d
      BY AsDrawn
    <3>2. [d EXCEPT !.screen = hit] = Redrawn(v, hit, v.x, v.y)
      BY SetScreen
    <3> HIDE DEF w, hit, d
    <3> QED
      BY <2>1, <3>1, <3>2
  <2>3. hit \in [Cells -> Int] /\ \A p \in Cells : p \notin Reach(v, x, y) => hit[p] = v.screen[p]
    BY <1>1 DEF Reach
  <2> HIDE DEF w, hit
  <2> QED
    BY <1>2, <2>2, <2>3
<1>5. CASE c % 128 # NEWLINE /\ <<x, y>> \notin Cells
  <2>1. w = v
    BY <1>5 DEF cio_putchar_at, putchar_at
  <2> HIDE DEF w
  <2> QED
    BY <1>1, <1>2, <2>1, AsDrawn
<1>6. CASE c % 128 = NEWLINE
  <2>1. w = [v EXCEPT !.screen = blank]
    BY <1>6 DEF cio_putchar_at, Erased
  <2>2. w = Redrawn(v, blank, v.x, v.y)
    <3> DEFINE d == Redrawn(v, v.screen, v.x, v.y)
    <3>1. v = d
      BY AsDrawn
    <3>2. [d EXCEPT !.screen = blank] = Redrawn(v, blank, v.x, v.y)
      BY SetScreen
    <3> HIDE DEF w, blank, d
    <3> QED
      BY <2>1, <3>1, <3>2
  <2>3. blank \in [Cells -> Int]
    BY <1>1 DEF SPACE
  <2>4. ASSUME NEW p \in Cells, p \notin Reach(v, x, y) PROVE blank[p] = v.screen[p]
    <3>1. p[1] \in Int
      BY DEF Cells
    <3>2. ~(p[1] \in x..limit /\ p[2] = y)
      <4> SUFFICES ASSUME p[1] \in x..limit, p[2] = y PROVE FALSE
        OBVIOUS
      <4>1. x <= p[1] /\ p[1] <= limit
        BY <1>3, <3>1
      <4> QED
        BY <2>4, <4>1 DEF Reach
    <3> QED
      BY <3>2
  <2> HIDE DEF w, blank
  <2> QED
    BY <1>2, <2>2, <2>3, <2>4
<1> QED
  BY <1>4, <1>5, <1>6

(* What output into the region, to its left and to its right reaches.      *)
LEMMA ReachIs ==
  ASSUME NEW v \in Screens, NEW x \in Int, NEW y \in Int
  PROVE  /\ <<x, y>> \in Region(v) => Reach(v, x, y) \subseteq Region(v)
         /\ x < v.min_x => \A p \in Reach(v, x, y) : p[1] < v.min_x
         /\ x > v.max_x => \A p \in Reach(v, x, y) : p[1] > v.max_x
<1>1. /\ v.min_x \in Int /\ v.max_x \in Int /\ v.min_y \in Int /\ v.max_y \in Int
      /\ v.min_x <= v.max_x
  BY ScreenIs DEF InRegion
<1>2. ASSUME NEW p \in Reach(v, x, y) PROVE p[1] \in Int /\ p[2] \in Int /\ p = <<p[1], p[2]>>
  BY DEF Reach, Cells
<1>3. ASSUME NEW p \in Reach(v, x, y), <<x, y>> \in Region(v) PROVE p \in Region(v)
  <2>1. x \in v.min_x..v.max_x /\ y \in v.min_y..v.max_y
    BY <1>3 DEF Region
  <2>2. CASE p = <<x, y>>
    BY <1>3, <2>2
  <2>3. CASE p # <<x, y>>
    <3>1. p[2] = y /\ x <= p[1] /\ p[1] <= v.max_x
      BY <1>1, <2>1, <2>3 DEF Reach
    <3>2. p[1] \in v.min_x..v.max_x
      BY <1>1, <1>2, <2>1, <3>1
    <3> QED
      BY <1>2, <2>1, <3>1, <3>2 DEF Region
  <2> QED
    BY <2>2, <2>3
<1>4. ASSUME NEW p \in Reach(v, x, y), x < v.min_x PROVE p[1] < v.min_x
  <2>1. p = <<x, y>> \/ p[1] <= v.min_x - 1
    BY <1>1, <1>4 DEF Reach
  <2> QED
    BY <1>1, <1>2, <1>4, <2>1
<1>5. ASSUME NEW p \in Reach(v, x, y), x > v.max_x PROVE p[1] > v.max_x
  <2>1. p = <<x, y>> \/ x <= p[1]
    BY <1>1, <1>5 DEF Reach
  <2> QED
    BY <1>1, <1>2, <1>5, <2>1
<1> QED
  BY <1>3, <1>4, <1>5

-----------------------------------------------------------------------------
(* The output of do_printf.                                                *)

(* What do_printf has written to so far: a screen, and a place or STREAM.  *)
Outs == [v : Screens, at : Int \X Int]

LEMMA OutIs ==
  ASSUME NEW o \in Outs
  PROVE  /\ o = [v |-> o.v, at |-> o.at] /\ o.v \in Screens /\ o.at \in Int \X Int
         /\ o.at[1] \in Int /\ o.at[2] \in Int
BY DEF Outs

LEMMA OutOf ==
  ASSUME NEW v \in Screens, NEW x \in Int, NEW y \in Int
  PROVE  [v |-> v, at |-> <<x, y>>] \in Outs
BY DEF Outs

(* One character of a filler.                                              *)
PadStep(o, q, c) ==
  IF o.at = STREAM THEN [o EXCEPT !.v = cio_putchar(q.v, c)]
  ELSE [v |-> cio_putchar_at(q.v, q.at[1], o.at[2], c), at |-> <<q.at[1] + 1, o.at[2]>>]

LEMMA PadStepTyped ==
  ASSUME NEW o \in Outs, NEW q \in Outs, NEW c \in Int
  PROVE  PadStep(o, q, c) \in Outs
<1>1. CASE o.at = STREAM
  <2>1. cio_putchar(q.v, c) \in Screens
    BY OutIs, PutcharKeeps DEF KeepsOutside
  <2>2. [o EXCEPT !.v = cio_putchar(q.v, c)] \in Outs
    BY <2>1 DEF Outs
  <2> QED
    BY <1>1, <2>2, Zenon DEF PadStep
<1>2. CASE o.at # STREAM
  <2> DEFINE x == q.at[1]
             y == o.at[2]
             w == cio_putchar_at(q.v, x, y, c)
  <2>1. x \in Int /\ y \in Int /\ q.v \in Screens
    BY OutIs
  <2> HIDE DEF x, y
  <2>2. w \in Screens
    BY <2>1, PutAtKeeps
  <2> HIDE DEF w
  <2>3. [v |-> w, at |-> <<x + 1, y>>] \in Outs
    BY <2>1, <2>2, OutOf
  <2> QED
    BY <1>2, <2>3, Zenon DEF PadStep, w, x, y
<1> QED
  BY <1>1, <1>2

LEMMA PadRun ==
  ASSUME NEW o \in Outs, NEW extra \in Int, NEW c \in Int
  PROVE  \E f \in [Nat -> Outs] :
           /\ f[0] = o /\ \A n \in Nat \ {0} : f[n] = PadStep(o, f[n - 1], c)
           /\ mypad(o, extra, c) = f[IF extra > 0 THEN extra ELSE 0]
<1> DEFINE m == IF extra > 0 THEN extra ELSE 0
           W(f) == [n \in Nat |-> IF n = 0 THEN o ELSE PadStep(o, f[n - 1], c)]
           run == CHOOSE f : f = W(f)
           g == [q \in Nat \X Outs |-> PadStep(o, q[2], c)]
<1>1. mypad(o, extra, c) = run[m]
  BY DEF mypad, PadStep
<1> HIDE DEF m
<1>2. g \in [Nat \X Outs -> Outs]
  BY PadStepTyped
<1>3. PICK f \in [Nat -> Outs] : f[0] = o /\ \A n \in Nat \ {0} : f[n] = g[<<n, f[n - 1]>>]
  <2> HIDE DEF g, W, run
  <2>1. EndlessRuns(o, g, Outs) # {}
    BY <1>2, IteratesForever
  <2> QED
    BY <2>1 DEF EndlessRuns
<1>4. ASSUME NEW n \in Nat \ {0} PROVE f[n] = PadStep(o, f[n - 1], c)
  <2>1. n \in Nat /\ n - 1 \in Nat
    OBVIOUS
  <2>2. f[n - 1] \in Outs
    BY <1>3, <2>1
  <2>3. g[<<n, f[n - 1]>>] = PadStep(o, f[n - 1], c)
    BY <2>1, <2>2
  <2> HIDE DEF g
  <2> QED
    BY <1>3, <2>3
<1> HIDE DEF g
<1>5. f = W(f)
  <2>1. ASSUME NEW n \in Nat PROVE f[n] = W(f)[n]
    BY <1>3, <1>4
  <2> QED
    BY <1>3, <2>1
<1>6. run = W(run)
  BY <1>5
<1> HIDE DEF run
<1>7. run[0] = o /\ \A n \in Nat \ {0} : run[n] = PadStep(o, run[n - 1], c)
  <2>1. W(run)[0] = o /\ \A n \in Nat \ {0} : W(run)[n] = PadStep(o, run[n - 1], c)
    OBVIOUS
  <2> HIDE DEF W
  <2> QED
    BY <1>6, <2>1
<1>8. run \in [Nat -> Outs]
  <2>1. ASSUME NEW n \in Nat PROVE run[n] \in Outs
    <3> DEFINE T == {i \in 0..n : run[i] \in Outs}
    <3>1. 0 \in T
      BY <1>7
    <3>2. ASSUME NEW i \in 1..n, i - 1 \in T PROVE i \in T
      <4>1. i \in Nat \ {0} /\ i \in 0..n
        OBVIOUS
      <4> QED
        BY <1>7, <3>2, <4>1, PadStepTyped
    <3> HIDE DEF T
    <3>3. 0..n \subseteq T
      BY <3>1, <3>2, UpTo
    <3> QED
      BY <3>3 DEF T
  <2>2. run = [n \in Nat |-> run[n]]
    <3>1. W(run) = [n \in Nat |-> W(run)[n]]
      OBVIOUS
    <3> HIDE DEF W
    <3>2. \A X : X = W(run) => X = [n \in Nat |-> X[n]]
      BY <3>1
    <3> QED
      BY <1>6, <3>2
  <2> QED
    BY <2>1, <2>2
<1> QED
  BY <1>1, <1>7, <1>8 DEF m

LEMMA PadTyped ==
  ASSUME NEW o \in Outs, NEW extra \in Int, NEW c \in Int
  PROVE  mypad(o, extra, c) \in Outs
<1>1. PICK f \in [Nat -> Outs] :
        /\ f[0] = o /\ \A n \in Nat \ {0} : f[n] = PadStep(o, f[n - 1], c)
        /\ mypad(o, extra, c) = f[IF extra > 0 THEN extra ELSE 0]
  BY PadRun
<1> QED
  BY <1>1

LEMMA PadIs ==
  ASSUME NEW extra \in Int, NEW c \in Int
  PROVE  /\ pad(extra, c) \in Seq(Int)
         /\ Len(pad(extra, c)) = IF extra > 0 THEN extra ELSE 0
         /\ \A i \in 1..Len(pad(extra, c)) : pad(extra, c)[i] = c
<1>1. CASE extra > 0
  <2>1. pad(extra, c) = [i \in 1..extra |-> c]
    BY <1>1 DEF pad
  <2> QED
    BY <1>1, <2>1
<1>2. CASE ~(extra > 0)
  BY <1>2 DEF pad
<1> QED
  BY <1>1, <1>2

(* At the cursor a filler is written as cio_puts writes it.                *)
LEMMA PadStream ==
  ASSUME NEW o \in Outs, o.at = STREAM, NEW extra \in Int, NEW c \in Int
  PROVE  mypad(o, extra, c) = [v |-> cio_puts(o.v, pad(extra, c)), at |-> STREAM]
<1> DEFINE s == pad(extra, c)
           m == Len(s)
<1>1. PICK f \in [Nat -> Outs] :
        /\ f[0] = o /\ \A n \in Nat \ {0} : f[n] = PadStep(o, f[n - 1], c)
        /\ mypad(o, extra, c) = f[IF extra > 0 THEN extra ELSE 0]
  BY PadRun
<1>2. s \in Seq(Int) /\ m = (IF extra > 0 THEN extra ELSE 0) /\ m \in Nat
      /\ \A i \in 1..m : s[i] = c
  BY PadIs
<1>3. o.v \in Screens /\ o = [v |-> o.v, at |-> STREAM]
  BY OutIs
<1> HIDE DEF s
<1>4. PICK h \in [0..m -> Screens] :
        /\ h[0] = o.v /\ \A i \in 1..m : h[i] = cio_putchar(h[i - 1], s[i])
        /\ cio_puts(o.v, s) = h[m]
  BY <1>2, <1>3, PutsRun
<1> HIDE DEF m
<1>5. f[m] = [v |-> h[m], at |-> STREAM]
  <2> DEFINE T == {i \in 0..m : f[i] = [v |-> h[i], at |-> STREAM]}
  <2>1. 0 \in T
    BY <1>1, <1>2, <1>3, <1>4
  <2>2. ASSUME NEW i \in 1..m, i - 1 \in T PROVE i \in T
    <3>1. i \in Nat \ {0} /\ i \in 0..m
      BY <1>2
    <3>2. f[i] = PadStep(o, f[i - 1], c)
      BY <1>1, <3>1
    <3>3. f[i - 1].v = h[i - 1]
      BY <2>2
    <3>4. PadStep(o, f[i - 1], c) = [o EXCEPT !.v = cio_putchar(h[i - 1], c)]
      BY <3>3, Zenon DEF PadStep
    <3>5. h[i] = cio_putchar(h[i - 1], c)
      BY <1>2, <1>4
    <3>6. \A x : [o EXCEPT !.v = x] = [v |-> x, at |-> STREAM]
      BY <1>3
    <3>7. f[i] = [v |-> h[i], at |-> STREAM]
      BY <3>2, <3>4, <3>5, <3>6, Zenon
    <3> QED
      BY <3>1, <3>7
  <2> HIDE DEF T
  <2>3. 0..m \subseteq T
    BY <1>2, <2>1, <2>2, UpTo
  <2>4. m \in T
    BY <1>2, <2>3
  <2> QED
    BY <2>4 DEF T
<1> QED
  BY <1>1, <1>2, <1>4, <1>5 DEF s

(* cio_puts_at.                                                            *)
PutsAtStep(q, x, y, str, n) ==
  IF x + n - 1 > SCREEN_MAX_X THEN q ELSE cio_putchar_at(q, x + n - 1, y, str[n])

LEMMA PutsAtKeeps ==
  ASSUME NEW v \in Screens, NEW x \in Int, NEW y \in Int, NEW str \in Seq(Int)
  PROVE  cio_puts_at(v, x, y, str) \in Screens
<1> DEFINE n == Len(str)
           W(f) == [i \in 0..n |-> IF i = 0 THEN v ELSE PutsAtStep(f[i - 1], x, y, str, i)]
           run == CHOOSE f : f = W(f)
           g == [q \in Nat \X Screens |->
                   IF q[1] \in 1..n THEN PutsAtStep(q[2], x, y, str, q[1]) ELSE q[2]]
<1>1. cio_puts_at(v, x, y, str) = run[n]
  BY DEF cio_puts_at, PutsAtStep
<1>2. n \in Nat /\ \A i \in 1..n : str[i] \in Int
  OBVIOUS
<1> HIDE DEF n
<1>20. ASSUME NEW q \in Screens, NEW i \in 1..n PROVE PutsAtStep(q, x, y, str, i) \in Screens
  <2> DEFINE z == x + i - 1
  <2>1. z \in Int /\ str[i] \in Int
    BY <1>2
  <2>2. cio_putchar_at(q, z, y, str[i]) \in Screens
    <3> HIDE DEF z
    <3> QED
      BY <2>1, PutAtKeeps
  <2> QED
    BY <2>2 DEF PutsAtStep
<1>3. g \in [Nat \X Screens -> Screens]
  BY <1>20
<1>4. PICK f \in [0..n -> Screens] : f[0] = v /\ \A i \in 1..n : f[i] = g[<<i, f[i - 1]>>]
  <2> HIDE DEF g, W, run
  <2>1. LoopRuns(v, g, n, Screens) # {}
    BY <1>2, <1>3, Iterates
  <2> QED
    BY <2>1 DEF LoopRuns
<1>5. ASSUME NEW i \in 1..n PROVE f[i] = PutsAtStep(f[i - 1], x, y, str, i)
  <2>1. i \in Nat /\ i - 1 \in 0..n /\ f[i - 1] \in Screens
    BY <1>2, <1>4
  <2>2. g[<<i, f[i - 1]>>] = PutsAtStep(f[i - 1], x, y, str, i)
    BY <2>1
  <2> HIDE DEF g
  <2> QED
    BY <1>4, <2>2
<1> HIDE DEF g
<1>6. f = W(f)
  <2>1. ASSUME NEW i \in 0..n PROVE f[i] = W(f)[i]
    <3>1. i = 0 \/ i \in 1..n
      BY <1>2
    <3> QED
      BY <1>4, <1>5, <3>1
  <2> QED
    BY <1>4, <2>1
<1>7. run = W(run)
  BY <1>6
<1> HIDE DEF run
<1>8. run[0] = v /\ \A i \in 1..n : run[i] = PutsAtStep(run[i - 1], x, y, str, i)
  <2>1. 0 \in 0..n /\ 1..n \subseteq 0..n /\ \A i \in 1..n : i # 0
    BY <1>2
  <2>2. W(run)[0] = v /\ \A i \in 1..n : W(run)[i] = PutsAtStep(run[i - 1], x, y, str, i)
    BY <2>1
  <2> HIDE DEF W
  <2> QED
    BY <1>7, <2>2
<1>9. run[n] \in Screens
  <2> DEFINE T == {i \in 0..n : run[i] \in Screens}
  <2>1. 0 \in T
    BY <1>2, <1>8
  <2>2. ASSUME NEW i \in 1..n, i - 1 \in T PROVE i \in T
    <3>1. run[i - 1] \in Screens /\ i \in 0..n
      BY <1>2, <2>2
    <3> QED
      BY <1>8, <1>20, <3>1
  <2> HIDE DEF T
  <2>3. 0..n \subseteq T
    BY <1>2, <2>1, <2>2, UpTo
  <2>4. n \in T
    BY <1>2, <2>3
  <2> QED
    BY <2>4 DEF T
<1> QED
  BY <1>1, <1>9 DEF n

(* mypadstr, and an ordinary character.                                    *)
LEMMA PadstrTyped ==
  ASSUME NEW o \in Outs, NEW str \in Seq(Int), NEW width \in Int, NEW leftadjust,
         NEW c \in Int
  PROVE  mypadstr(o, str, width, leftadjust, c) \in Outs
<1> DEFINE extra == width - Len(str)
           left == IF leftadjust THEN o ELSE mypad(o, extra, c)
           text == IF o.at = STREAM THEN [left EXCEPT !.v = cio_puts(@, str)]
                   ELSE [v |-> cio_puts_at(left.v, left.at[1], left.at[2], str),
                         at |-> <<left.at[1] + Len(str), left.at[2]>>]
<1>1. extra \in Int /\ Len(str) \in Int
  OBVIOUS
<1> HIDE DEF extra
<1>2. left \in Outs
  BY <1>1, PadTyped
<1> HIDE DEF left
<1>3. text \in Outs
  <2>1. cio_puts(left.v, str) \in Screens
    BY <1>2, OutIs, PutsKeeps
  <2>2. [left EXCEPT !.v = cio_puts(left.v, str)] \in Outs
    BY <1>2, <2>1 DEF Outs
  <2> DEFINE x == left.at[1]
             y == left.at[2]
             z == x + Len(str)
             w == cio_puts_at(left.v, x, y, str)
  <2>3. x \in Int /\ y \in Int /\ left.v \in Screens
    BY <1>2, OutIs
  <2> HIDE DEF x, y
  <2>4. z \in Int /\ w \in Screens
    BY <1>1, <2>3, PutsAtKeeps
  <2> HIDE DEF w, z
  <2>5. [v |-> w, at |-> <<z, y>>] \in Outs
    BY <2>3, <2>4, OutOf
  <2>6. text = IF o.at = STREAM THEN [left EXCEPT !.v = cio_puts(left.v, str)]
               ELSE [v |-> w, at |-> <<z, y>>]
    BY DEF w, z, x, y
  <2> HIDE DEF text
  <2> QED
    BY <2>2, <2>5, <2>6, Zenon
<1>4. mypadstr(o, str, width, leftadjust, c)
        = IF leftadjust THEN mypad(text, extra, c) ELSE text
  BY Zenon DEF mypadstr, left, extra
<1> HIDE DEF text
<1>5. mypad(text, extra, c) \in Outs
  BY <1>1, <1>3, PadTyped
<1> QED
  BY <1>3, <1>4, <1>5, Zenon

LEMMA PadstrIs ==
  ASSUME NEW str \in Seq(Int), NEW width \in Int, NEW leftadjust, NEW c \in Int
  PROVE  padstr(str, width, leftadjust, c) \in Seq(Int)
<1>1. width - Len(str) \in Int
  OBVIOUS
<1>2. pad(width - Len(str), c) \in Seq(Int)
  BY <1>1, PadIs
<1>3. str \o pad(width - Len(str), c) \in Seq(Int) /\ pad(width - Len(str), c) \o str \in Seq(Int)
  BY <1>2, ConcatProperties
<1> QED
  BY <1>3, Zenon DEF padstr

(* At the cursor mypadstr writes what padstr builds.                       *)
LEMMA PadstrStream ==
  ASSUME NEW o \in Outs, o.at = STREAM, NEW str \in Seq(Int), NEW width \in Int,
         NEW leftadjust \in BOOLEAN, NEW c \in Int
  PROVE  mypadstr(o, str, width, leftadjust, c)
           = [v |-> cio_puts(o.v, padstr(str, width, leftadjust, c)), at |-> STREAM]
<1> DEFINE extra == width - Len(str)
           fill == pad(extra, c)
           Padded(p) == mypad(p, extra, c)
           Texted(p) == [p EXCEPT !.v = cio_puts(@, str)]
           Out(v) == [v |-> v, at |-> STREAM]
<1>1. extra \in Int /\ Len(str) \in Int
  OBVIOUS
<1>2. mypadstr(o, str, width, leftadjust, c)
        = IF leftadjust THEN Padded(Texted(o)) ELSE Texted(Padded(o))
  BY Zenon DEF mypadstr
<1>3. padstr(str, width, leftadjust, c) = IF leftadjust THEN str \o fill ELSE fill \o str
  BY Zenon DEF padstr
<1> HIDE DEF extra
<1>4. fill \in Seq(Int)
  BY <1>1, PadIs
<1> HIDE DEF fill
<1>5. ASSUME NEW v \in Screens
      PROVE  Padded(Out(v)) = Out(cio_puts(v, fill)) /\ Texted(Out(v)) = Out(cio_puts(v, str))
             /\ cio_puts(v, fill) \in Screens /\ cio_puts(v, str) \in Screens
  <2>1. STREAM \in Int \X Int
    BY DEF STREAM
  <2>2. Out(v) \in Outs /\ Out(v).at = STREAM /\ Out(v).v = v
    BY <2>1 DEF Outs
  <2>3. Padded(Out(v)) = Out(cio_puts(v, fill))
    <3> DEFINE p == Out(v)
    <3>1. p \in Outs /\ p.at = STREAM /\ p.v = v
      BY <2>2
    <3> HIDE DEF p
    <3>2. mypad(p, extra, c) = [v |-> cio_puts(p.v, pad(extra, c)), at |-> STREAM]
      BY <1>1, <3>1, PadStream
    <3> QED
      BY <3>1, <3>2, Zenon DEF fill, p
  <2>4. Texted(Out(v)) = Out(cio_puts(v, str))
    OBVIOUS
  <2>5. cio_puts(v, fill) \in Screens /\ cio_puts(v, str) \in Screens
    BY <1>4, PutsKeeps
  <2> QED
    BY <2>3, <2>4, <2>5, Zenon
<1>6. o.v \in Screens /\ o = Out(o.v)
  BY OutIs
<1> HIDE DEF Padded, Texted, Out
<1>7. cio_puts(o.v, str \o fill) = cio_puts(cio_puts(o.v, str), fill)
      /\ cio_puts(o.v, fill \o str) = cio_puts(cio_puts(o.v, fill), str)
  BY <1>4, <1>6, PutsBoth
<1>8. CASE leftadjust
  <2>1. Texted(o) = Out(cio_puts(o.v, str)) /\ cio_puts(o.v, str) \in Screens
    BY <1>5, <1>6, Zenon
  <2>2. Padded(Texted(o)) = Out(cio_puts(cio_puts(o.v, str), fill))
    BY <1>5, <2>1, Zenon
  <2>3. mypadstr(o, str, width, leftadjust, c)
          = Out(cio_puts(o.v, padstr(str, width, leftadjust, c)))
    BY <1>2, <1>3, <1>7, <1>8, <2>2, Zenon
  <2> QED
    BY <2>3, Zenon DEF Out
<1>9. CASE ~leftadjust
  <2>1. Padded(o) = Out(cio_puts(o.v, fill)) /\ cio_puts(o.v, fill) \in Screens
    BY <1>5, <1>6, Zenon
  <2>2. Texted(Padded(o)) = Out(cio_puts(cio_puts(o.v, fill), str))
    BY <1>5, <2>1, Zenon
  <2>3. mypadstr(o, str, width, leftadjust, c)
          = Out(cio_puts(o.v, padstr(str, width, leftadjust, c)))
    BY <1>2, <1>3, <1>7, <1>9, <2>2, Zenon
  <2> QED
    BY <2>3, Zenon DEF Out
<1> QED
  BY <1>8, <1>9

LEMMA PlainTyped ==
  ASSUME NEW o \in Outs, NEW c \in Int
  PROVE  Plain(o, c) \in Outs
<1>1. CASE o.at = STREAM
  <2>1. cio_putchar(o.v, c) \in Screens
    BY OutIs, PutcharKeeps DEF KeepsOutside
  <2>2. [o EXCEPT !.v = cio_putchar(o.v, c)] \in Outs
    BY <2>1 DEF Outs
  <2>3. Plain(o, c) = [o EXCEPT !.v = cio_putchar(o.v, c)]
    BY <1>1 DEF Plain
  <2> QED
    BY <2>2, <2>3, Zenon
<1>2. CASE o.at # STREAM
  <2> DEFINE x == o.at[1]
             y == o.at[2]
             w == cio_putchar_at(o.v, x, y, c)
             at == CASE c = NEWLINE -> <<o.v.min_x, y + 1>>
                     [] c = RETURN -> <<o.v.min_x, y>>
                     [] OTHER -> <<x + 1, y>>
  <2>1. x \in Int /\ y \in Int /\ o.v \in Screens
    BY OutIs
  <2>2. Plain(o, c) = [v |-> w, at |-> at]
    BY <1>2, Zenon DEF Plain
  <2> HIDE DEF x, y
  <2>3. w \in Screens
    BY <2>1, PutAtKeeps
  <2>4. at \in Int \X Int
    <3>1. o.v.min_x \in Int
      BY <2>1, ScreenIs
    <3> QED
      BY <2>1, <3>1 DEF NEWLINE, RETURN
  <2> HIDE DEF w, at
  <2> QED
    BY <2>2, <2>3, <2>4 DEF Outs
<1> QED
  BY <1>1, <1>2

LEMMA PlainStream ==
  ASSUME NEW o \in Outs, o.at = STREAM, NEW c \in Int
  PROVE  Plain(o, c) = [v |-> cio_puts(o.v, <<c>>), at |-> STREAM]
<1>1. Plain(o, c) = [o EXCEPT !.v = cio_putchar(o.v, c)]
  BY DEF Plain
<1>2. o.v \in Screens
  BY OutIs
<1>3. cio_puts(o.v, <<c>>) = cio_putchar(o.v, c)
  BY <1>2, PutsOne
<1>4. \A x : [o EXCEPT !.v = x] = [v |-> x, at |-> STREAM]
  BY OutIs
<1> QED
  BY <1>1, <1>3, <1>4, Zenon

-----------------------------------------------------------------------------
(* do_printf.                                                              *)

(* One step: p is the place in the format, the argument and the output.    *)
PrintfStep(fmt, args, p) ==
  IF p.i > Len(fmt) THEN p
  ELSE IF fmt[p.i] # PERCENT
  THEN [p EXCEPT !.i = @ + 1, !.o = Plain(@, fmt[p.i])]
  ELSE LET d == Directive(fmt, p.i + 1)
           text == IF d.code = 98 THEN cvtbin(args[p.n])
                   ELSE Converted(d.code, args[p.n])
       IN IF d.code \notin SprintCodes \cup {98}
          THEN [p EXCEPT !.i = d.next]
          ELSE [i |-> d.next, n |-> p.n + 1,
                o |-> mypadstr(p.o, text, d.width, d.leftadjust, d.padchar)]

(* At place i of the format and argument n, o is written.                  *)
Reading(i, n, o) == [i |-> i, n |-> n, o |-> o]

(* Where two steps read the whole format.                                  *)
LEMMA PrintfTwo ==
  ASSUME NEW v, NEW at, NEW fmt, NEW args, NEW p, NEW q, Len(fmt) \in {3, 5},
         p = PrintfStep(fmt, args, Reading(1, 1, [v |-> v, at |-> at])),
         q = PrintfStep(fmt, args, p), q = PrintfStep(fmt, args, q)
  PROVE  do_printf(v, at, fmt, args) = q.o.v
<1> DEFINE p0 == Reading(1, 1, [v |-> v, at |-> at])
           W(f) == [s \in Nat |-> IF s = 0 THEN p0 ELSE PrintfStep(fmt, args, f[s - 1])]
           run == CHOOSE f : f = W(f)
           g == [s \in Nat |-> IF s = 0 THEN p0 ELSE IF s = 1 THEN p ELSE q]
<1>1. do_printf(v, at, fmt, args) = run[Len(fmt)].o.v
  BY Zenon DEF do_printf, PrintfStep, Reading
<1>2. p = PrintfStep(fmt, args, p0)
  OBVIOUS
<1> HIDE DEF p0
<1>3. g = W(g)
  <2>1. ASSUME NEW s \in Nat PROVE g[s] = W(g)[s]
    <3>1. CASE s = 0
      BY <3>1
    <3>2. CASE s = 1
      <4>1. g[s] = p /\ g[s - 1] = p0 /\ W(g)[s] = PrintfStep(fmt, args, g[s - 1])
        BY <3>2
      <4> HIDE DEF g, W
      <4> QED
        BY <1>2, <4>1, Zenon
    <3>3. CASE s = 2
      <4>1. g[s] = q /\ g[s - 1] = p /\ W(g)[s] = PrintfStep(fmt, args, g[s - 1])
        BY <3>3
      <4> HIDE DEF g, W
      <4> QED
        BY <4>1, Zenon
    <3>4. CASE s > 2
      <4>1. g[s] = q /\ g[s - 1] = q /\ W(g)[s] = PrintfStep(fmt, args, g[s - 1])
        BY <3>4
      <4> HIDE DEF g, W
      <4> QED
        BY <4>1, Zenon
    <3> QED
      BY <3>1, <3>2, <3>3, <3>4
  <2> QED
    BY <2>1
<1> HIDE DEF g
<1>4. run = W(run)
  BY <1>3
<1> HIDE DEF run
<1>5. /\ W(run)[0] = p0 /\ W(run)[1] = PrintfStep(fmt, args, run[0])
      /\ W(run)[2] = PrintfStep(fmt, args, run[1]) /\ W(run)[3] = PrintfStep(fmt, args, run[2])
      /\ W(run)[4] = PrintfStep(fmt, args, run[3]) /\ W(run)[5] = PrintfStep(fmt, args, run[4])
  OBVIOUS
<1> HIDE DEF W
<1>6. /\ run[0] = p0 /\ run[1] = PrintfStep(fmt, args, run[0])
      /\ run[2] = PrintfStep(fmt, args, run[1]) /\ run[3] = PrintfStep(fmt, args, run[2])
      /\ run[4] = PrintfStep(fmt, args, run[3]) /\ run[5] = PrintfStep(fmt, args, run[4])
  BY <1>4, <1>5
<1>7. run[1] = p
  BY <1>2, <1>6, Zenon
<1>8. run[2] = q
  BY <1>6, <1>7, Zenon
<1>9. run[3] = q
  BY <1>6, <1>8, Zenon
<1>10. run[4] = q
  BY <1>6, <1>9, Zenon
<1>11. run[5] = q
  BY <1>6, <1>10, Zenon
<1>12. run[Len(fmt)] = q
  BY <1>9, <1>11
<1> QED
  BY <1>1, <1>12, Zenon

(* A step at the end, at a character and at a directive.                   *)
AtEnd(fmt, i) == i > Len(fmt)

LEMMA StepAtEnd ==
  ASSUME NEW fmt, NEW args, NEW i, NEW n, NEW o, AtEnd(fmt, i)
  PROVE  PrintfStep(fmt, args, Reading(i, n, o)) = Reading(i, n, o)
<1> DEFINE p == [i |-> i, n |-> n, o |-> o]
<1>1. p.i = i
  OBVIOUS
<1> HIDE DEF p
<1>2. PrintfStep(fmt, args, p) = p
  BY <1>1, Zenon DEF PrintfStep, AtEnd
<1> QED
  BY <1>2, Zenon DEF p, Reading

AtCharacter(fmt, i, next, c) ==
  ~(i > Len(fmt)) /\ fmt[i] # PERCENT /\ next = i + 1 /\ c = fmt[i]

LEMMA StepAtCharacter ==
  ASSUME NEW fmt, NEW args, NEW i, NEW n, NEW o, NEW next, NEW c,
         AtCharacter(fmt, i, next, c)
  PROVE  PrintfStep(fmt, args, Reading(i, n, o))
           = Reading(next, n, Plain(o, c))
<1>0. ~(i > Len(fmt)) /\ fmt[i] # PERCENT /\ next = i + 1 /\ c = fmt[i]
  BY Zenon DEF AtCharacter
<1> DEFINE p == [i |-> i, n |-> n, o |-> o]
<1>1. p.i = i /\ p.o = o
  OBVIOUS
<1>2. ASSUME NEW a, NEW b PROVE [p EXCEPT !.i = a, !.o = b] = [i |-> a, n |-> n, o |-> b]
  <2>1. [p EXCEPT !.i = a] = [i |-> a, n |-> n, o |-> o]
    OBVIOUS
  <2>2. [[p EXCEPT !.i = a] EXCEPT !.o = b] = [p EXCEPT !.i = a, !.o = b]
    BY Zenon
  <2> DEFINE q == [i |-> a, n |-> n, o |-> o]
  <2>3. [q EXCEPT !.o = b] = [i |-> a, n |-> n, o |-> b]
    OBVIOUS
  <2> HIDE DEF p, q
  <2> QED
    BY <2>1, <2>2, <2>3, Zenon DEF q
<1> HIDE DEF p
<1>3. PrintfStep(fmt, args, p) = [p EXCEPT !.i = @ + 1, !.o = Plain(@, fmt[p.i])]
  BY <1>0, <1>1, Zenon DEF PrintfStep
<1>4. [p EXCEPT !.i = @ + 1, !.o = Plain(@, fmt[p.i])]
        = [p EXCEPT !.i = i + 1, !.o = Plain(o, fmt[i])]
  BY <1>1, Zenon
<1>5. PrintfStep(fmt, args, p) = [i |-> next, n |-> n, o |-> Plain(o, c)]
  BY <1>0, <1>2, <1>3, <1>4, Zenon
<1> QED
  BY <1>5, Zenon DEF p, Reading

Directs(fmt, i, code, next, width, leftadjust, padchar) ==
  LET d == Directive(fmt, i + 1) IN
  /\ ~(i > Len(fmt)) /\ fmt[i] = PERCENT /\ code \in SprintCodes /\ code # 98
  /\ code = d.code /\ next = d.next /\ width = d.width
  /\ leftadjust = d.leftadjust /\ padchar = d.padchar

LEMMA StepAtDirective ==
  ASSUME NEW fmt, NEW args, NEW i, NEW n, NEW o, NEW code, NEW next, NEW width,
         NEW leftadjust, NEW padchar, Directs(fmt, i, code, next, width, leftadjust, padchar)
  PROVE  PrintfStep(fmt, args, Reading(i, n, o))
           = Reading(next, n + 1,
                     mypadstr(o, Converted(code, args[n]), width, leftadjust, padchar))
<1>0. /\ ~(i > Len(fmt)) /\ fmt[i] = PERCENT /\ code \in SprintCodes /\ code # 98
      /\ code = Directive(fmt, i + 1).code /\ next = Directive(fmt, i + 1).next
      /\ width = Directive(fmt, i + 1).width
      /\ leftadjust = Directive(fmt, i + 1).leftadjust
      /\ padchar = Directive(fmt, i + 1).padchar
  BY Zenon DEF Directs
<1> DEFINE p == [i |-> i, n |-> n, o |-> o]
<1>1. p.i = i /\ p.o = o /\ p.n = n
  OBVIOUS
<1> HIDE DEF p
<1>2. code \in SprintCodes \cup {98}
  BY <1>0, Zenon
<1> DEFINE d == Directive(fmt, p.i + 1)
           text == IF d.code = 98 THEN cvtbin(args[p.n]) ELSE Converted(d.code, args[p.n])
<1>3. PrintfStep(fmt, args, p)
        = IF d.code \notin SprintCodes \cup {98} THEN [p EXCEPT !.i = d.next]
          ELSE [i |-> d.next, n |-> p.n + 1,
                o |-> mypadstr(p.o, text, d.width, d.leftadjust, d.padchar)]
  BY <1>0, <1>1, Zenon DEF PrintfStep
<1>4. /\ d.code = code /\ d.next = next /\ d.width = width /\ d.leftadjust = leftadjust
      /\ d.padchar = padchar
  BY <1>0, <1>1
<1>5. text = Converted(code, args[n])
  BY <1>0, <1>1, <1>4, Zenon
<1> HIDE DEF text, d
<1>6. PrintfStep(fmt, args, p)
        = [i |-> d.next, n |-> p.n + 1,
           o |-> mypadstr(p.o, text, d.width, d.leftadjust, d.padchar)]
  BY <1>2, <1>3, <1>4, Zenon
<1>7. PrintfStep(fmt, args, p)
        = [i |-> next, n |-> n + 1,
           o |-> mypadstr(o, Converted(code, args[n]), width, leftadjust, padchar)]
  BY <1>1, <1>4, <1>5, <1>6, Zenon
<1> QED
  BY <1>7, Zenon DEF p, Reading

(* What do_printf writes for the three formats.                            *)
LEMMA Printf3d ==
  ASSUME NEW v, NEW at
  PROVE  do_printf(v, at, F3d, <<7>>)
           = mypadstr([v |-> v, at |-> at], cvtdec(7), 3, FALSE, SPACE).v
<1> DEFINE left == FALSE
           args == <<7>>
           o == [v |-> v, at |-> at]
           o1 == mypadstr(o, Converted(100, args[1]), 3, left, SPACE)
           p0 == Reading(1, 1, o)
           p1 == Reading(4, 1 + 1, o1)
<1>1. Len(F3d) = 3 /\ F3d[1] = PERCENT /\ ~(1 > Len(F3d)) /\ 4 > Len(F3d) /\ 1 + 1 = 2
  BY FormatTyped DEF PERCENT
<1>2. Converted(100, args[1]) = cvtdec(7)
  <2>1. args[1] = 7
    OBVIOUS
  <2>2. \A x : Converted(100, x) = cvtdec(x)
    BY SMT DEF Converted
  <2> QED
    BY <2>1, <2>2, Zenon
<1> HIDE DEF args, o, left
<1>3. PrintfStep(F3d, args, p0) = p1
  <2>1. /\ Directive(F3d, 1 + 1).code = 100 /\ Directive(F3d, 1 + 1).next = 4
        /\ Directive(F3d, 1 + 1).width = 3 /\ Directive(F3d, 1 + 1).leftadjust = left
        /\ Directive(F3d, 1 + 1).padchar = SPACE
    <3>1. /\ Directive(F3d, 2).code = 100 /\ Directive(F3d, 2).next = 4
          /\ Directive(F3d, 2).width = 3 /\ Directive(F3d, 2).leftadjust = left
          /\ Directive(F3d, 2).padchar = SPACE
      BY Directives, Zenon DEF left
    <3>2. 1 + 1 = 2
      BY <1>1
    <3> QED
      BY <3>1, <3>2, Zenon
  <2>2. 100 \in SprintCodes /\ 100 # 98
    BY DEF SprintCodes
  <2>3. Directs(F3d, 1, 100, 4, 3, left, SPACE)
    BY <1>1, <2>1, <2>2, Zenon DEF Directs
  <2> QED
    BY <2>3, StepAtDirective
<1>4. PrintfStep(F3d, args, p1) = p1
  <2>1. AtEnd(F3d, 4)
    BY <1>1, Zenon DEF AtEnd
  <2> HIDE DEF o1
  <2> QED
    BY <2>1, StepAtEnd
<1>5. p1.o.v = o1.v
  BY DEF Reading
<1> HIDE DEF p1, o1
<1>6. do_printf(v, at, F3d, args) = p1.o.v
  <2>1. Len(F3d) \in {3, 5} /\ p1 = PrintfStep(F3d, args, Reading(1, 1, [v |-> v, at |-> at]))
        /\ p1 = PrintfStep(F3d, args, p1)
    BY <1>1, <1>3, <1>4 DEF o
  <2> QED
    BY <2>1, PrintfTwo
<1> QED
  BY <1>2, <1>5, <1>6, Zenon DEF o1, o, args, left

LEMMA Printf2c ==
  ASSUME NEW v, NEW at
  PROVE  do_printf(v, at, F2c, <<65>>)
           = Plain(mypadstr([v |-> v, at |-> at], <<65>>, 2, TRUE, SPACE), 10).v
<1> DEFINE left == TRUE
           args == <<65>>
           o == [v |-> v, at |-> at]
           o1 == mypadstr(o, Converted(99, args[1]), 2, left, SPACE)
           o2 == Plain(o1, F2c[5])
           p0 == Reading(1, 1, o)
           p1 == Reading(5, 1 + 1, o1)
           p2 == Reading(5 + 1, 1 + 1, o2)
<1>1. /\ Len(F2c) = 5 /\ F2c[1] = PERCENT /\ ~(1 > Len(F2c)) /\ ~(5 > Len(F2c))
      /\ 5 + 1 > Len(F2c) /\ 1 + 1 = 2 /\ F2c[5] = 10 /\ F2c[5] # PERCENT
  BY FormatTyped DEF PERCENT
<1>2. Converted(99, args[1]) = <<65>>
  <2>1. args[1] = 65
    OBVIOUS
  <2>2. \A x : Converted(99, x) = <<x>>
    BY SMT DEF Converted
  <2> QED
    BY <2>1, <2>2, Zenon
<1> HIDE DEF args, o, left
<1>3. PrintfStep(F2c, args, p0) = p1
  <2>1. /\ Directive(F2c, 1 + 1).code = 99 /\ Directive(F2c, 1 + 1).next = 5
        /\ Directive(F2c, 1 + 1).width = 2 /\ Directive(F2c, 1 + 1).leftadjust = left
        /\ Directive(F2c, 1 + 1).padchar = SPACE
    <3>1. /\ Directive(F2c, 2).code = 99 /\ Directive(F2c, 2).next = 5
          /\ Directive(F2c, 2).width = 2 /\ Directive(F2c, 2).leftadjust = left
          /\ Directive(F2c, 2).padchar = SPACE
      BY Directives, Zenon DEF left
    <3>2. 1 + 1 = 2
      BY <1>1
    <3> QED
      BY <3>1, <3>2, Zenon
  <2>2. 99 \in SprintCodes /\ 99 # 98
    BY DEF SprintCodes
  <2>3. Directs(F2c, 1, 99, 5, 2, left, SPACE)
    BY <1>1, <2>1, <2>2, Zenon DEF Directs
  <2> QED
    BY <2>3, StepAtDirective
<1>4. PrintfStep(F2c, args, p1) = p2
  <2>1. AtCharacter(F2c, 5, 5 + 1, F2c[5])
    BY <1>1, Zenon DEF AtCharacter
  <2> HIDE DEF o1
  <2> QED
    BY <2>1, StepAtCharacter
<1>5. PrintfStep(F2c, args, p2) = p2
  <2>1. AtEnd(F2c, 5 + 1)
    BY <1>1, Zenon DEF AtEnd
  <2> HIDE DEF o1, o2
  <2> QED
    BY <2>1, StepAtEnd
<1>6. p2.o.v = o2.v
  BY DEF Reading
<1> HIDE DEF p1, p2, o1, o2
<1>7. do_printf(v, at, F2c, args) = p2.o.v
  <2>1. Len(F2c) \in {3, 5} /\ p1 = PrintfStep(F2c, args, Reading(1, 1, [v |-> v, at |-> at]))
        /\ p2 = PrintfStep(F2c, args, p1) /\ p2 = PrintfStep(F2c, args, p2)
    BY <1>1, <1>3, <1>4, <1>5 DEF o
  <2> QED
    BY <2>1, PrintfTwo
<1> QED
  BY <1>1, <1>2, <1>6, <1>7, Zenon DEF o1, o2, o, args, left

LEMMA Printfs ==
  ASSUME NEW v, NEW at
  PROVE  do_printf(v, at, Fs, <<<<65, NEWLINE>>>>)
           = mypadstr(Plain([v |-> v, at |-> at], 66), <<65, NEWLINE>>, 0, FALSE, SPACE).v
<1> DEFINE left == FALSE
           args == <<<<65, NEWLINE>>>>
           o == [v |-> v, at |-> at]
           o1 == Plain(o, Fs[1])
           o2 == mypadstr(o1, Converted(115, args[1]), 0, left, SPACE)
           p0 == Reading(1, 1, o)
           p1 == Reading(1 + 1, 1, o1)
           p2 == Reading(4, 1 + 1, o2)
<1>1. /\ Len(Fs) = 3 /\ Fs[1] = 66 /\ Fs[1] # PERCENT /\ Fs[1 + 1] = PERCENT
      /\ ~(1 > Len(Fs)) /\ ~(1 + 1 > Len(Fs)) /\ 4 > Len(Fs) /\ 1 + 1 + 1 = 3
  BY FormatTyped DEF PERCENT
<1>2. Converted(115, args[1]) = <<65, NEWLINE>>
  <2>1. args[1] = <<65, NEWLINE>>
    OBVIOUS
  <2>2. \A x : Converted(115, x) = x
    BY SMT DEF Converted
  <2> QED
    BY <2>1, <2>2, Zenon
<1> HIDE DEF args, o, left
<1>3. PrintfStep(Fs, args, p0) = p1
  <2>1. AtCharacter(Fs, 1, 1 + 1, Fs[1])
    BY <1>1, Zenon DEF AtCharacter
  <2> QED
    BY <2>1, StepAtCharacter
<1>4. PrintfStep(Fs, args, p1) = p2
  <2>1. /\ Directive(Fs, 1 + 1 + 1).code = 115 /\ Directive(Fs, 1 + 1 + 1).next = 4
        /\ Directive(Fs, 1 + 1 + 1).width = 0 /\ Directive(Fs, 1 + 1 + 1).leftadjust = left
        /\ Directive(Fs, 1 + 1 + 1).padchar = SPACE
    <3>1. /\ Directive(Fs, 3).code = 115 /\ Directive(Fs, 3).next = 4
          /\ Directive(Fs, 3).width = 0 /\ Directive(Fs, 3).leftadjust = left
          /\ Directive(Fs, 3).padchar = SPACE
      BY Directives, Zenon DEF left
    <3>2. 1 + 1 + 1 = 3
      BY <1>1
    <3> QED
      BY <3>1, <3>2, Zenon
  <2>2. 115 \in SprintCodes /\ 115 # 98
    BY DEF SprintCodes
  <2>3. Directs(Fs, 1 + 1, 115, 4, 0, left, SPACE)
    BY <1>1, <2>1, <2>2, Zenon DEF Directs
  <2> QED
    BY <2>3, StepAtDirective
<1>5. PrintfStep(Fs, args, p2) = p2
  <2>1. AtEnd(Fs, 4)
    BY <1>1, Zenon DEF AtEnd
  <2> HIDE DEF o1, o2
  <2> QED
    BY <2>1, StepAtEnd
<1>6. p2.o.v = o2.v
  BY DEF Reading
<1> HIDE DEF p1, p2, o1, o2
<1>7. do_printf(v, at, Fs, args) = p2.o.v
  <2>1. Len(Fs) \in {3, 5} /\ p1 = PrintfStep(Fs, args, Reading(1, 1, [v |-> v, at |-> at]))
        /\ p2 = PrintfStep(Fs, args, p1) /\ p2 = PrintfStep(Fs, args, p2)
    BY <1>1, <1>3, <1>4, <1>5 DEF o
  <2> QED
    BY <2>1, PrintfTwo
<1> QED
  BY <1>1, <1>2, <1>6, <1>7, Zenon DEF o1, o2, o, args, left

-----------------------------------------------------------------------------
(* Formatted output and sprint.                                            *)

LEMMA DecTextTyped == cvtdec(7) \in Seq(Int)
<1>1. ~(7 < 0)
  OBVIOUS
<1>2. cvtdec(7) = cvtdec0(7)
  BY <1>1, Zenon DEF cvtdec
<1>3. cvtdec0(7) \in Seq(Int)
  BY Cvtdec0Typed
<1> QED
  BY <1>2, <1>3

LEMMA StreamOut ==
  ASSUME NEW v \in Screens
  PROVE  LET o == [v |-> v, at |-> STREAM] IN o \in Outs /\ o.v = v /\ o.at = STREAM
BY DEF Outs, STREAM

LEMMA SpaceIs == SPACE \in Int
BY DEF SPACE

(* The three formats at the cursor.                                        *)
LEMMA Stream3d ==
  ASSUME NEW v \in Screens
  PROVE  /\ cio_printf(v, F3d, <<7>>) = cio_puts(v, sprint(F3d, <<7>>))
         /\ sprint(F3d, <<7>>) \in Seq(Int)
<1> DEFINE left == FALSE
           dec == cvtdec(7)
           args == <<7>>
           text == padstr(dec, 3, left, SPACE)
           o == [v |-> v, at |-> STREAM]
<1>1. sprint(F3d, args) = text \o <<>>
  BY Sprint3d
<1>2. cio_printf(v, F3d, args) = mypadstr(o, dec, 3, left, SPACE).v
  <2>1. cio_printf(v, F3d, args) = do_printf(v, STREAM, F3d, args)
    BY Zenon DEF cio_printf
  <2>2. do_printf(v, STREAM, F3d, args) = mypadstr(o, dec, 3, left, SPACE).v
    BY Printf3d
  <2> HIDE DEF left, dec, args, o
  <2> QED
    BY <2>1, <2>2, Zenon
<1>3. left \in BOOLEAN
  OBVIOUS
<1>4. dec \in Seq(Int)
  BY DecTextTyped
<1>5. o \in Outs /\ o.v = v /\ o.at = STREAM
  BY StreamOut
<1> HIDE DEF left, dec, args, o
<1>6. text \in Seq(Int)
  BY <1>4, SpaceIs, PadstrIs
<1>7. mypadstr(o, dec, 3, left, SPACE) = [v |-> cio_puts(o.v, text), at |-> STREAM]
  BY <1>3, <1>4, <1>5, SpaceIs, PadstrStream
<1> HIDE DEF text
<1>8. cio_printf(v, F3d, args) = cio_puts(v, text)
  BY <1>2, <1>5, <1>7
<1>9. sprint(F3d, args) = text
  BY <1>1, <1>6
<1>10. cio_printf(v, F3d, args) = cio_puts(v, sprint(F3d, args)) /\ sprint(F3d, args) \in Seq(Int)
  BY <1>6, <1>8, <1>9
<1> QED
  BY <1>10 DEF args

LEMMA Stream2c ==
  ASSUME NEW v \in Screens
  PROVE  /\ cio_printf(v, F2c, <<65>>) = cio_puts(v, sprint(F2c, <<65>>))
         /\ sprint(F2c, <<65>>) \in Seq(Int)
<1> DEFINE left == TRUE
           args == <<65>>
           text == padstr(args, 2, left, SPACE)
           end == <<10>>
           o == [v |-> v, at |-> STREAM]
           p == [v |-> cio_puts(v, text), at |-> STREAM]
<1>1. sprint(F2c, args) = text \o (end \o <<>>)
  BY Sprint2c
<1>2. cio_printf(v, F2c, args) = Plain(mypadstr(o, args, 2, left, SPACE), 10).v
  <2>1. cio_printf(v, F2c, args) = do_printf(v, STREAM, F2c, args)
    BY Zenon DEF cio_printf
  <2>2. do_printf(v, STREAM, F2c, args) = Plain(mypadstr(o, args, 2, left, SPACE), 10).v
    BY Printf2c
  <2> HIDE DEF left, args, o
  <2> QED
    BY <2>1, <2>2, Zenon
<1>3. left \in BOOLEAN
  OBVIOUS
<1>4. args \in Seq(Int) /\ end \in Seq(Int) /\ end \o <<>> = end
  OBVIOUS
<1>5. o \in Outs /\ o.v = v /\ o.at = STREAM
  BY StreamOut
<1> HIDE DEF left, args, o
<1>6. text \in Seq(Int)
  BY <1>4, SpaceIs, PadstrIs
<1>7. mypadstr(o, args, 2, left, SPACE) = p
  <2>1. mypadstr(o, args, 2, left, SPACE) = [v |-> cio_puts(o.v, text), at |-> STREAM]
    BY <1>3, <1>4, <1>5, SpaceIs, PadstrStream
  <2> QED
    BY <1>5, <2>1
<1> HIDE DEF text
<1>8. cio_puts(v, text) \in Screens
  BY <1>6, PutsKeeps
<1>9. p \in Outs /\ p.v = cio_puts(v, text) /\ p.at = STREAM
  BY <1>8, StreamOut
<1> HIDE DEF p
<1>10. Plain(p, 10) = [v |-> cio_puts(p.v, end), at |-> STREAM]
  BY <1>9, PlainStream
<1> HIDE DEF end
<1>11. cio_puts(cio_puts(v, text), end) = cio_puts(v, text \o end)
  BY <1>4, <1>6, PutsBoth
<1>12. cio_printf(v, F2c, args) = cio_puts(v, text \o end)
  BY <1>2, <1>7, <1>9, <1>10, <1>11
<1>13. sprint(F2c, args) = text \o end
  BY <1>1, <1>4, Zenon
<1>14. text \o end \in Seq(Int)
  BY <1>4, <1>6, ConcatProperties
<1>15. cio_printf(v, F2c, args) = cio_puts(v, sprint(F2c, args)) /\ sprint(F2c, args) \in Seq(Int)
  BY <1>12, <1>13, <1>14, Zenon
<1> QED
  BY <1>15 DEF args

LEMMA Streams ==
  ASSUME NEW v \in Screens
  PROVE  /\ cio_printf(v, Fs, <<<<65, NEWLINE>>>>) = cio_puts(v, sprint(Fs, <<<<65, NEWLINE>>>>))
         /\ sprint(Fs, <<<<65, NEWLINE>>>>) \in Seq(Int)
<1> DEFINE left == FALSE
           str == <<65, NEWLINE>>
           args == <<str>>
           text == padstr(str, 0, left, SPACE)
           head == <<66>>
           o == [v |-> v, at |-> STREAM]
           p == [v |-> cio_puts(v, head), at |-> STREAM]
<1>1. sprint(Fs, args) = head \o (text \o <<>>)
  BY Sprints
<1>2. cio_printf(v, Fs, args) = mypadstr(Plain(o, 66), str, 0, left, SPACE).v
  <2>1. cio_printf(v, Fs, args) = do_printf(v, STREAM, Fs, args)
    BY Zenon DEF cio_printf
  <2>2. do_printf(v, STREAM, Fs, args) = mypadstr(Plain(o, 66), str, 0, left, SPACE).v
    BY Printfs
  <2> HIDE DEF left, args, o, str
  <2> QED
    BY <2>1, <2>2, Zenon
<1>3. left \in BOOLEAN
  OBVIOUS
<1>4. str \in Seq(Int) /\ head \in Seq(Int)
  BY DEF NEWLINE
<1>5. o \in Outs /\ o.v = v /\ o.at = STREAM
  BY StreamOut
<1> HIDE DEF left, args, o, str
<1>6. text \in Seq(Int)
  BY <1>4, SpaceIs, PadstrIs
<1>7. Plain(o, 66) = p
  <2>1. Plain(o, 66) = [v |-> cio_puts(o.v, head), at |-> STREAM]
    BY <1>5, PlainStream
  <2> QED
    BY <1>5, <2>1
<1> HIDE DEF head
<1>8. cio_puts(v, head) \in Screens
  BY <1>4, PutsKeeps
<1>9. p \in Outs /\ p.v = cio_puts(v, head) /\ p.at = STREAM
  BY <1>8, StreamOut
<1> HIDE DEF p
<1>10. mypadstr(p, str, 0, left, SPACE) = [v |-> cio_puts(p.v, text), at |-> STREAM]
  BY <1>3, <1>4, <1>9, SpaceIs, PadstrStream
<1> HIDE DEF text
<1>11. cio_puts(cio_puts(v, head), text) = cio_puts(v, head \o text)
  BY <1>4, <1>6, PutsBoth
<1>12. cio_printf(v, Fs, args) = cio_puts(v, head \o text)
  BY <1>2, <1>7, <1>9, <1>10, <1>11
<1>13. sprint(Fs, args) = head \o text
  <2>1. text \o <<>> = text
    BY <1>6
  <2> QED
    BY <1>1, <2>1, Zenon
<1>14. head \o text \in Seq(Int)
  BY <1>4, <1>6, ConcatProperties
<1>15. cio_printf(v, Fs, args) = cio_puts(v, sprint(Fs, args)) /\ sprint(Fs, args) \in Seq(Int)
  BY <1>12, <1>13, <1>14, Zenon
<1> QED
  BY <1>15 DEF args, str

(* cio_printf shows what cio_puts shows of the string sprint builds.       *)
LEMMA PrintfPuts ==
  ASSUME NEW v \in Screens, NEW f \in Formats
  PROVE  /\ cio_printf(v, f[1], f[2]) = cio_puts(v, sprint(f[1], f[2]))
         /\ sprint(f[1], f[2]) \in Seq(Int)
<1> DEFINE P(a, b) == cio_printf(v, a, b) = cio_puts(v, sprint(a, b)) /\ sprint(a, b) \in Seq(Int)
<1>1. P(F3d, <<7>>) /\ P(F2c, <<65>>) /\ P(Fs, <<<<65, NEWLINE>>>>)
  BY Stream3d, Stream2c, Streams
<1>2. \/ f[1] = F3d /\ f[2] = <<7>>
      \/ f[1] = F2c /\ f[2] = <<65>>
      \/ f[1] = Fs /\ f[2] = <<<<65, NEWLINE>>>>
  BY FormatsAre
<1> HIDE DEF P
<1>3. P(f[1], f[2])
  BY <1>1, <1>2
<1> QED
  BY <1>3 DEF P

(* At a place the cursor and the region stay on the screen.                *)
LEMMA PrintfAtTyped ==
  ASSUME NEW v \in Screens, NEW x \in Int, NEW f \in Formats
  PROVE  cio_printf_at(v, x, 0, f[1], f[2]) \in Screens
<1> DEFINE at == <<x, 0>>
           o == [v |-> v, at |-> at]
           no == FALSE
           yes == TRUE
           dec == cvtdec(7)
           str == <<65, NEWLINE>>
           chr == <<65>>
           P(a, b) == do_printf(v, at, a, b) \in Screens
<1>1. o \in Outs
  BY OutOf
<1>2. /\ do_printf(v, at, F3d, <<7>>) = mypadstr(o, dec, 3, no, SPACE).v
      /\ do_printf(v, at, F2c, chr) = Plain(mypadstr(o, chr, 2, yes, SPACE), 10).v
      /\ do_printf(v, at, Fs, <<str>>) = mypadstr(Plain(o, 66), str, 0, no, SPACE).v
  <2>1. do_printf(v, at, F3d, <<7>>) = mypadstr(o, dec, 3, no, SPACE).v
    BY Printf3d
  <2>2. do_printf(v, at, F2c, chr) = Plain(mypadstr(o, chr, 2, yes, SPACE), 10).v
    BY Printf2c
  <2>3. do_printf(v, at, Fs, <<str>>) = mypadstr(Plain(o, 66), str, 0, no, SPACE).v
    BY Printfs
  <2> HIDE DEF at, o, no, yes, dec, str, chr
  <2> QED
    BY <2>1, <2>2, <2>3, Zenon
<1>3. str \in Seq(Int) /\ chr \in Seq(Int) /\ dec \in Seq(Int)
  BY DecTextTyped DEF NEWLINE
<1>4. \/ f[1] = F3d /\ f[2] = <<7>>
      \/ f[1] = F2c /\ f[2] = chr
      \/ f[1] = Fs /\ f[2] = <<str>>
  BY FormatsAre
<1>5. cio_printf_at(v, x, 0, f[1], f[2]) = do_printf(v, at, f[1], f[2])
  BY Zenon DEF cio_printf_at
<1> HIDE DEF at, o, no, yes, dec, str, chr
<1>6. mypadstr(o, dec, 3, no, SPACE) \in Outs /\ mypadstr(o, chr, 2, yes, SPACE) \in Outs
  BY <1>1, <1>3, SpaceIs, PadstrTyped
<1>7. Plain(mypadstr(o, chr, 2, yes, SPACE), 10) \in Outs
  BY <1>6, PlainTyped
<1>8. mypadstr(Plain(o, 66), str, 0, no, SPACE) \in Outs
  <2>1. Plain(o, 66) \in Outs
    BY <1>1, PlainTyped
  <2> QED
    BY <1>3, <2>1, SpaceIs, PadstrTyped
<1>9. P(F3d, <<7>>) /\ P(F2c, chr) /\ P(Fs, <<str>>)
  BY <1>2, <1>6, <1>7, <1>8, OutIs
<1> HIDE DEF P
<1>10. P(f[1], f[2])
  BY <1>4, <1>9
<1> QED
  BY <1>5, <1>10 DEF P

-----------------------------------------------------------------------------
(* The calls of the kernel.                                                *)

Paper == [lines |-> paper, col |-> col, row |-> row]

(* The region shows the end of the paper.                                  *)
ScreenInv ==
  /\ vid \in Screens
  /\ side = "screen" => Shows(vid, Paper) /\ base = Len(paper) - Height(vid)

LEMMA BoundIs ==
  ASSUME NEW a \in Int, NEW x \in Int, NEW b \in Int, a <= b
  PROVE  bound(a, x, b) \in Int /\ a <= bound(a, x, b) /\ bound(a, x, b) <= b
BY DEF bound

(* A screen with the paper put in afresh.                                  *)
LEMMA AfreshKeeps ==
  ASSUME NEW v \in Screens, vid' = v, NewPaper(v)
  PROVE  ScreenInv'
<1> DEFINE t == [lines |-> Window(v), col |-> v.x - v.min_x + 1, row |-> v.y - v.min_y + 1]
<1>1. Shows(v, t)
  BY FreshShows
<1>2. Paper' = t
  BY DEF NewPaper, Paper
<1>3. base' = Len(paper') - Height(v)
  <2>1. Len(Window(v)) = Height(v) /\ Height(v) \in Nat
    BY SizeIs DEF Window
  <2>2. base' = 0 /\ paper' = Window(v)
    BY DEF NewPaper
  <2> QED
    BY <2>1, <2>2
<1> HIDE DEF t
<1>4. Shows(vid', Paper') /\ base' = Len(paper') - Height(vid')
  BY <1>1, <1>2, <1>3
<1> QED
  BY <1>4 DEF ScreenInv

(* A text written at the cursor.                                           *)
LEMMA TextKeeps ==
  ASSUME ScreenInv, side = "screen", NEW str \in Seq(Int), NEW v, v = cio_puts(vid, str),
         Shown(str, v)
  PROVE  ScreenInv' /\ KeepsOutside(vid, vid')
<1> DEFINE t == TypedAll(Paper, str, Width(vid))
<1>1. vid \in Screens /\ Shows(vid, Paper)
  BY DEF ScreenInv
<1>2. KeepsOutside(vid, v) /\ Shows(v, t)
  <2> HIDE DEF t
  <2>1. KeepsOutside(vid, cio_puts(vid, str)) /\ Shows(cio_puts(vid, str), t)
    BY <1>1, PutsShows DEF t
  <2> QED
    BY <2>1
<1>3. vid' = v /\ paper' = t.lines /\ col' = t.col /\ row' = t.row
      /\ base' = Len(t.lines) - Height(vid)
  BY DEF Shown, Paper
<1> HIDE DEF t
<1>4. v \in Screens /\ Height(v) = Height(vid)
  BY <1>2, SameSize DEF KeepsOutside
<1>5. Paper' = t
  <2>1. t \in Papers(v)
    BY <1>2 DEF Shows
  <2>2. t = [lines |-> t.lines, col |-> t.col, row |-> t.row]
    BY <2>1 DEF Papers
  <2> QED
    BY <1>3, <2>2 DEF Paper
<1>6. Shows(vid', Paper') /\ base' = Len(paper') - Height(vid')
  BY <1>2, <1>3, <1>4, <1>5
<1> QED
  BY <1>2, <1>3, <1>4, <1>6 DEF ScreenInv

LEMMA PutCharKeeps ==
  ASSUME ScreenInv, side = "screen", PutChar
  PROVE  ScreenInv' /\ KeepsOutside(vid, vid')
<1>1. PICK c \in {65, NEWLINE, RETURN} : Shown(<<c>>, cio_putchar(vid, c))
  BY DEF PutChar
<1>2. c \in Int /\ <<c>> \in Seq(Int)
  BY DEF NEWLINE, RETURN
<1>3. cio_puts(vid, <<c>>) = cio_putchar(vid, c)
  BY <1>2, PutsOne DEF ScreenInv
<1> DEFINE s == <<c>>
           v == cio_putchar(vid, c)
<1>4. s \in Seq(Int) /\ v = cio_puts(vid, s) /\ Shown(s, v)
  BY <1>1, <1>2, <1>3
<1> HIDE DEF s, v
<1> QED
  BY <1>4, TextKeeps

LEMMA WriteKeeps ==
  ASSUME ScreenInv, side = "screen", Write
  PROVE  ScreenInv' /\ KeepsOutside(vid, vid')
<1> DEFINE b == <<66, NEWLINE, 65>>
<1>1. PICK n \in 1..3 : Shown(SubSeq(b, 1, n), cio_write(vid, b, n))
  BY DEF Write
<1> DEFINE s == SubSeq(b, 1, n)
           v == cio_write(vid, b, n)
<1>2. s \in Seq(Int)
  <2>1. \A i \in 1..3 : b[i] \in Int
    BY DEF NEWLINE
  <2> HIDE DEF b
  <2>2. 1 \in Int /\ n \in Int /\ \A i \in 1..n : b[i] \in Int
    BY <2>1
  <2> QED
    BY <2>1, <2>2, SubSeqProperties
<1>3. v = cio_puts(vid, s)
  BY Zenon DEF cio_write
<1>4. Shown(s, v)
  BY <1>1
<1> HIDE DEF s, v
<1> QED
  BY <1>2, <1>3, <1>4, TextKeeps

LEMMA PrintfKeeps ==
  ASSUME ScreenInv, side = "screen", Printf
  PROVE  ScreenInv' /\ KeepsOutside(vid, vid')
<1>1. PICK f \in Formats : Shown(sprint(f[1], f[2]), cio_printf(vid, f[1], f[2]))
  BY DEF Printf
<1> DEFINE s == sprint(f[1], f[2])
           v == cio_printf(vid, f[1], f[2])
<1>2. v = cio_puts(vid, s) /\ s \in Seq(Int)
  BY PrintfPuts DEF ScreenInv
<1> HIDE DEF s, v
<1>3. Shown(s, v)
  BY <1>1 DEF s, v
<1> QED
  BY <1>2, <1>3, TextKeeps

(* The cursor moves, and the typewriter with it.                           *)
LEMMA MoveToKeeps ==
  ASSUME ScreenInv, side = "screen", MoveTo
  PROVE  ScreenInv' /\ outside' = "move"
<1>1. PICK x \in 0..SCREEN_MAX_X, y \in 0..SCREEN_MAX_Y :
        LET v == cio_moveto(vid, x, y) IN
        /\ vid' = v /\ outside' = "move" /\ paper' = paper /\ base' = base
        /\ col' = v.x - v.min_x + 1 /\ row' = base + v.y - v.min_y + 1
  BY DEF MoveTo
<1>2. vid \in Screens /\ Shows(vid, Paper) /\ base = Len(paper) - Height(vid)
  BY DEF ScreenInv
<1>3. /\ vid.min_x \in Int /\ vid.min_y \in Int /\ vid.max_x \in Int /\ vid.max_y \in Int
      /\ vid.min_x <= vid.max_x /\ vid.min_y <= vid.max_y /\ x \in Int /\ y \in Int
      /\ vid.screen \in [Cells -> Int]
  BY <1>2, ScreenIs DEF InRegion
<1> DEFINE a == bound(vid.min_x, x + vid.min_x, vid.max_x)
           b == bound(vid.min_y, y + vid.min_y, vid.max_y)
           w == Redrawn(vid, vid.screen, a, b)
<1>4. /\ a \in Int /\ vid.min_x <= a /\ a <= vid.max_x
      /\ b \in Int /\ vid.min_y <= b /\ b <= vid.max_y
  <2>1. x + vid.min_x \in Int /\ y + vid.min_y \in Int
    BY <1>3
  <2> QED
    BY <1>3, <2>1, BoundIs
<1>5. cio_moveto(vid, x, y) = [vid EXCEPT !.x = a, !.y = b]
  BY Zenon DEF cio_moveto
<1> HIDE DEF a, b
<1>6. cio_moveto(vid, x, y) = w
  <2> DEFINE d == Redrawn(vid, vid.screen, vid.x, vid.y)
  <2>1. vid = d
    BY <1>2, AsDrawn
  <2>2. [d EXCEPT !.x = a, !.y = b] = w
    <3> DEFINE e == Redrawn(vid, vid.screen, a, vid.y)
    <3>1. [d EXCEPT !.x = a] = e
      BY SetX
    <3>2. [e EXCEPT !.y = b] = w
      BY SetY
    <3> HIDE DEF d, e, w
    <3>3. [d EXCEPT !.x = a, !.y = b] = [[d EXCEPT !.x = a] EXCEPT !.y = b]
      BY Zenon
    <3> QED
      BY <3>1, <3>2, <3>3, Zenon
  <2> HIDE DEF d, w
  <2> QED
    BY <1>5, <2>1, <2>2
<1>7. w.x = a /\ w.y = b /\ SameRegion(vid, w)
  BY <1>2, <1>3, <1>4, RedrawnIs
<1>8. vid' = w /\ outside' = "move" /\ paper' = paper /\ base' = base
      /\ col' = a - vid.min_x + 1 /\ row' = base + b - vid.min_y + 1
  <2> HIDE DEF w
  <2> QED
    BY <1>1, <1>6, <1>7 DEF SameRegion
<1> DEFINE u == [lines |-> paper, col |-> a - vid.min_x + 1, row |-> base + b - vid.min_y + 1]
<1>9. Paper' = u
  BY <1>8 DEF Paper
<1>10. KeepsOutside(vid, w) /\ Shows(w, u)
  <2> DEFINE t == Paper
  <2>1. t \in Papers(vid) /\ t.lines = paper /\ t.row \in Int /\ Len(paper) \in Nat
        /\ paper \in Seq(Strips(vid)) /\ Height(vid) \in Nat /\ base \in Int
    <3>1. t \in Papers(vid) /\ Len(t.lines) \in Nat /\ t.lines \in Seq(Strips(vid))
      BY <1>2, ShowsIs
    <3>2. t.lines = paper
      BY DEF Paper
    <3>3. Height(vid) \in Nat
      BY <1>2, SizeIs
    <3>4. t.row \in Int
      BY <3>1 DEF Papers
    <3> QED
      BY <1>2, <3>1, <3>2, <3>3, <3>4
  <2>2. u \in Papers(vid)
    <3>1. a - vid.min_x + 1 \in Int /\ base + b - vid.min_y + 1 \in Int
      <4>1. a \in Int /\ b \in Int
        BY <1>4
      <4>2. vid.min_x \in Int /\ vid.min_y \in Int
        BY <1>3
      <4>3. base \in Int
        BY <2>1
      <4> QED
        BY <4>1, <4>2, <4>3
    <3> QED
      BY <2>1, <3>1 DEF Papers
  <2>3. u.row - t.row = b - vid.y
    <3>1. t.row = vid.y - vid.min_y + 1 + (Len(paper) - Height(vid))
      BY <1>2, <2>1 DEF Shows
    <3>2. vid.y \in Int /\ u.row = base + b - vid.min_y + 1
      BY <1>2, ScreenIs
    <3>3. PICK l \in Int, h \in Int, r \in Int, c \in Int, m \in Int, s \in Int :
            l = Len(paper) /\ h = Height(vid) /\ r = t.row /\ c = base /\ m = vid.min_y
            /\ s = vid.y
      <4>1. Len(paper) \in Int /\ Height(vid) \in Int
        BY <2>1
      <4> QED
        BY <1>3, <2>1, <3>2, <4>1, Zenon
    <3>4. c = l - h /\ r = s - m + 1 + (l - h)
      BY <1>2, <3>1, <3>3, Zenon
    <3>5. (c + b - m + 1) - r = b - s
      <4>1. b \in Int
        BY <1>4
      <4>2. \A e \in Int : (l - h + e - m + 1) - (s - m + 1 + (l - h)) = e - s
        OBVIOUS
      <4>3. (l - h + b - m + 1) - (s - m + 1 + (l - h)) = b - s
        BY <4>1, <4>2
      <4> QED
        BY <3>4, <4>3, Zenon
    <3> HIDE DEF u, t
    <3> QED
      BY <3>2, <3>3, <3>5
  <2>4. a \in vid.min_x..vid.max_x /\ b \in vid.min_y..vid.max_y + 1 /\ b # vid.max_y + 1
    BY <1>3, <1>4
  <2>5. /\ Len(u.lines) = Len(t.lines) /\ u.col = a - vid.min_x + 1
        /\ u.lines = t.lines
    BY <2>1
  <2>7. Shows(vid, t)
    BY <1>2
  <2>6. \A i \in vid.min_x..vid.max_x, j \in vid.min_y..vid.max_y :
          vid.screen[<<i, j>>]
            = u.lines[Len(t.lines) - Height(vid) + j - vid.min_y + 1][i - vid.min_x + 1]
    <3>1. \A i \in vid.min_x..vid.max_x, j \in vid.min_y..vid.max_y :
            vid.screen[<<i, j>>]
              = t.lines[Len(t.lines) - Height(vid) + j - vid.min_y + 1][i - vid.min_x + 1]
      <4> HIDE DEF t
      <4> QED
        BY <2>7, Zenon DEF Shows
    <3> HIDE DEF u, t
    <3> QED
      BY <2>5, <3>1, Zenon
  <2> HIDE DEF u, t
  <2> QED
    BY <1>2, <1>3, <2>1, <2>2, <2>3, <2>4, <2>5, <2>6, <2>7, RedrawnShows
<1>11. w \in Screens /\ Height(w) = Height(vid)
  BY <1>10, SameSize DEF KeepsOutside
<1>12. Shows(vid', Paper') /\ base' = Len(paper') - Height(vid')
  BY <1>2, <1>8, <1>9, <1>10, <1>11
<1> QED
  BY <1>8, <1>11, <1>12 DEF ScreenInv

(* The region is set.                                                      *)
LEMMA SetscrollTyped ==
  ASSUME NEW v \in Screens, NEW x0 \in Int, NEW y0 \in Int, NEW x1 \in Int, NEW y1 \in Int
  PROVE  cio_setscroll(v, x0, y0, x1, y1) \in Screens
<1> DEFINE a == bound(0, x0, SCREEN_MAX_X)
           b == bound(0, y0, SCREEN_MAX_Y)
           c == bound(a, x1, SCREEN_MAX_X)
           d == bound(b, y1, SCREEN_MAX_Y)
           w == [screen |-> v.screen, min_x |-> a, min_y |-> b, max_x |-> c, max_y |-> d,
                 x |-> a, y |-> b]
<1>1. SCREEN_MAX_X \in Nat /\ SCREEN_MAX_Y \in Nat
  BY ScreenIs
<1>2. /\ a \in Int /\ 0 <= a /\ a <= SCREEN_MAX_X
      /\ b \in Int /\ 0 <= b /\ b <= SCREEN_MAX_Y
  BY <1>1, BoundIs
<1>3. cio_setscroll(v, x0, y0, x1, y1)
        = [v EXCEPT !.min_x = a, !.min_y = b, !.max_x = c, !.max_y = d, !.x = a, !.y = b]
  BY Zenon DEF cio_setscroll
<1> HIDE DEF a, b
<1>4. /\ c \in Int /\ a <= c /\ c <= SCREEN_MAX_X
      /\ d \in Int /\ b <= d /\ d <= SCREEN_MAX_Y
  BY <1>1, <1>2, BoundIs
<1> HIDE DEF c, d
<1>5. v = [screen |-> v.screen, min_x |-> v.min_x, min_y |-> v.min_y, max_x |-> v.max_x,
           max_y |-> v.max_y, x |-> v.x, y |-> v.y] /\ v.screen \in [Cells -> Int]
  BY ScreenIs
<1>6. [v EXCEPT !.min_x = a, !.min_y = b, !.max_x = c, !.max_y = d, !.x = a, !.y = b] = w
  <2> DEFINE r0 == [screen |-> v.screen, min_x |-> v.min_x, min_y |-> v.min_y, max_x |-> v.max_x,
                    max_y |-> v.max_y, x |-> v.x, y |-> v.y]
             r1 == [screen |-> v.screen, min_x |-> a, min_y |-> v.min_y, max_x |-> v.max_x,
                    max_y |-> v.max_y, x |-> v.x, y |-> v.y]
             r2 == [screen |-> v.screen, min_x |-> a, min_y |-> b, max_x |-> v.max_x,
                    max_y |-> v.max_y, x |-> v.x, y |-> v.y]
             r3 == [screen |-> v.screen, min_x |-> a, min_y |-> b, max_x |-> c,
                    max_y |-> v.max_y, x |-> v.x, y |-> v.y]
             r4 == [screen |-> v.screen, min_x |-> a, min_y |-> b, max_x |-> c,
                    max_y |-> d, x |-> v.x, y |-> v.y]
             r5 == [screen |-> v.screen, min_x |-> a, min_y |-> b, max_x |-> c,
                    max_y |-> d, x |-> a, y |-> v.y]
             r6 == [screen |-> v.screen, min_x |-> a, min_y |-> b, max_x |-> c,
                    max_y |-> d, x |-> a, y |-> b]
  <2>0. v = r0 /\ r6 = w
    BY <1>5
  <2>1. [r0 EXCEPT !.min_x = a] = r1
    OBVIOUS
  <2>2. [r1 EXCEPT !.min_y = b] = r2
    OBVIOUS
  <2>3. [r2 EXCEPT !.max_x = c] = r3
    OBVIOUS
  <2>4. [r3 EXCEPT !.max_y = d] = r4
    OBVIOUS
  <2>5. [r4 EXCEPT !.x = a] = r5
    OBVIOUS
  <2>6. [r5 EXCEPT !.y = b] = r6
    OBVIOUS
  <2> HIDE DEF w, r0, r1, r2, r3, r4, r5, r6
  <2>7. [v EXCEPT !.min_x = a, !.min_y = b, !.max_x = c, !.max_y = d, !.x = a, !.y = b]
          = [[[[[[v EXCEPT !.min_x = a] EXCEPT !.min_y = b] EXCEPT !.max_x = c]
                EXCEPT !.max_y = d] EXCEPT !.x = a] EXCEPT !.y = b]
    BY Zenon
  <2> QED
    BY <2>0, <2>1, <2>2, <2>3, <2>4, <2>5, <2>6, <2>7, Zenon
<1>7. w \in Screens
  <2>1. w \in [screen : [Cells -> Int], min_x : Int, min_y : Int, max_x : Int, max_y : Int,
               x : Int, y : Int]
    BY <1>2, <1>4, <1>5
  <2>2. InRegion(w)
    BY <1>1, <1>2, <1>4 DEF InRegion
  <2> QED
    BY <2>1, <2>2 DEF Screens
<1> QED
  BY <1>3, <1>6, <1>7

LEMMA SetScrollKeeps ==
  ASSUME ScreenInv, SetScroll
  PROVE  ScreenInv' /\ outside' = "region"
<1>1. PICK r \in Regions :
        LET v == cio_setscroll(vid, r[1], r[2], r[3], r[4]) IN
        vid' = v /\ NewPaper(v) /\ outside' = "region"
  BY DEF SetScroll
<1>2. r[1] \in Int /\ r[2] \in Int /\ r[3] \in Int /\ r[4] \in Int
  BY DEF Regions
<1> DEFINE v == cio_setscroll(vid, r[1], r[2], r[3], r[4])
<1>3. v \in Screens
  BY <1>2, SetscrollTyped DEF ScreenInv
<1>4. vid' = v /\ NewPaper(v) /\ outside' = "region"
  BY <1>1
<1> HIDE DEF v
<1> QED
  BY <1>3, <1>4, AfreshKeeps

(* A character at a place, in the region or beside it.                     *)
LEMMA PutAtStays ==
  ASSUME ScreenInv, PutAt
  PROVE  /\ ScreenInv'
         /\ outside' = "text" => \A p \in Cells : p \notin Region(vid)
                                   => vid'.screen[p] = vid.screen[p]
         /\ outside' = "left" => \A p \in Cells : ~(p[1] < vid.min_x)
                                   => vid'.screen[p] = vid.screen[p]
         /\ outside' = "right" => \A p \in Cells : ~(p[1] > vid.max_x)
                                   => vid'.screen[p] = vid.screen[p]
<1>1. PICK x \in 0..SCREEN_MAX_X+1, y \in 0..SCREEN_MAX_Y, c \in {66, NEWLINE} :
        LET v == cio_putchar_at(vid, x, y, c) IN
        /\ vid' = v /\ NewPaper(v)
        /\ outside' = IF <<x, y>> \in Region(vid) THEN "text"
                      ELSE IF x < vid.min_x THEN "left" ELSE IF x > vid.max_x THEN "right"
                      ELSE "above"
  BY DEF PutAt
<1> DEFINE v == cio_putchar_at(vid, x, y, c)
<1>2. x \in Int /\ y \in Int /\ c \in Int /\ vid \in Screens
  BY CioAssumption DEF NEWLINE, ScreenInv
<1>3. vid' = v /\ NewPaper(v)
  BY <1>1
<1>4. v \in Screens /\ \A p \in Cells : p \notin Reach(vid, x, y) => v.screen[p] = vid.screen[p]
  BY <1>2, PutAtKeeps
<1>5. /\ <<x, y>> \in Region(vid) => Reach(vid, x, y) \subseteq Region(vid)
      /\ x < vid.min_x => \A p \in Reach(vid, x, y) : p[1] < vid.min_x
      /\ x > vid.max_x => \A p \in Reach(vid, x, y) : p[1] > vid.max_x
  BY <1>2, ReachIs
<1>6. /\ outside' = "text" => <<x, y>> \in Region(vid)
      /\ outside' = "left" => x < vid.min_x
      /\ outside' = "right" => x > vid.max_x
  BY <1>1
<1> HIDE DEF v
<1>7. ScreenInv'
  BY <1>3, <1>4, AfreshKeeps
<1>8. ASSUME outside' = "text", NEW p \in Cells, p \notin Region(vid)
      PROVE  vid'.screen[p] = vid.screen[p]
  <2>1. p \notin Reach(vid, x, y)
    BY <1>5, <1>6, <1>8, Zenon
  <2> QED
    BY <1>3, <1>4, <2>1, Zenon
<1>9. ASSUME outside' = "left", NEW p \in Cells, ~(p[1] < vid.min_x)
      PROVE  vid'.screen[p] = vid.screen[p]
  <2>1. p \notin Reach(vid, x, y)
    BY <1>5, <1>6, <1>9, Zenon
  <2> QED
    BY <1>3, <1>4, <2>1, Zenon
<1>10. ASSUME outside' = "right", NEW p \in Cells, ~(p[1] > vid.max_x)
      PROVE  vid'.screen[p] = vid.screen[p]
  <2>1. p \notin Reach(vid, x, y)
    BY <1>5, <1>6, <1>10, Zenon
  <2> QED
    BY <1>3, <1>4, <2>1, Zenon
<1> QED
  BY <1>7, <1>8, <1>9, <1>10, Zenon

LEMMA PrintfAtKeeps ==
  ASSUME ScreenInv, PrintfAt
  PROVE  ScreenInv' /\ outside' = "any"
<1>1. PICK x \in 0..SCREEN_MAX_X, f \in Formats :
        LET v == cio_printf_at(vid, x, 0, f[1], f[2]) IN
        vid' = v /\ NewPaper(v) /\ outside' = "any"
  BY DEF PrintfAt
<1> DEFINE v == cio_printf_at(vid, x, 0, f[1], f[2])
<1>2. x \in Int /\ vid \in Screens
  BY CioAssumption DEF ScreenInv
<1>3. v \in Screens
  BY <1>2, PrintfAtTyped
<1>4. vid' = v /\ NewPaper(v) /\ outside' = "any"
  BY <1>1
<1> HIDE DEF v
<1> QED
  BY <1>3, <1>4, AfreshKeeps

LEMMA ClearKeeps ==
  ASSUME ScreenInv, Clear
  PROVE  ScreenInv' /\ (outside' = "any" \/ KeepsOutside(vid, vid'))
<1>1. vid \in Screens
  BY DEF ScreenInv
<1>2. CASE LET v == cio_clearscroll(vid) IN vid' = v /\ NewPaper(v) /\ outside' = "text"
  <2> DEFINE v == cio_clearscroll(vid)
  <2>1. 1 \in Nat
    OBVIOUS
  <2>2. KeepsOutside(vid, v)
    BY <1>1, <2>1, ScrollKeeps
  <2>3. vid' = v /\ NewPaper(v)
    BY <1>2
  <2> HIDE DEF v
  <2>4. v \in Screens
    BY <2>2 DEF KeepsOutside
  <2> QED
    BY <2>2, <2>3, <2>4, AfreshKeeps
<1>3. CASE LET v == cio_clearscreen(vid) IN vid' = v /\ NewPaper(v) /\ outside' = "any"
  <2> DEFINE v == cio_clearscreen(vid)
             blank == [p \in Cells |-> SPACE]
             w == Redrawn(vid, blank, vid.x, vid.y)
  <2>1. v = [vid EXCEPT !.screen = blank]
    BY DEF cio_clearscreen
  <2>2. v = w
    <3> DEFINE d == Redrawn(vid, vid.screen, vid.x, vid.y)
    <3>1. vid = d
      BY <1>1, AsDrawn
    <3>2. [d EXCEPT !.screen = blank] = w
      BY SetScreen
    <3> HIDE DEF d, v, w, blank
    <3> QED
      BY <2>1, <3>1, <3>2
  <2>3. blank \in [Cells -> Int]
    BY DEF SPACE
  <2>4. /\ vid.x \in Int /\ vid.y \in Int /\ InRegion(vid)
    BY <1>1, ScreenIs
  <2> HIDE DEF blank
  <2>5. /\ w.x = vid.x /\ w.y = vid.y /\ SameRegion(vid, w)
        /\ w \in [screen : [Cells -> Int], min_x : Int, min_y : Int, max_x : Int,
                  max_y : Int, x : Int, y : Int]
    BY <1>1, <2>3, <2>4, RedrawnIs
  <2> HIDE DEF w
  <2>6. w \in Screens
    BY <2>4, <2>5 DEF Screens, InRegion, SameRegion
  <2>7. vid' = v /\ NewPaper(v) /\ outside' = "any"
    BY <1>3
  <2> HIDE DEF v
  <2> QED
    BY <2>2, <2>6, <2>7, AfreshKeeps
<1> QED
  BY <1>2, <1>3 DEF Clear

LEMMA ScrollStays ==
  ASSUME ScreenInv, Scroll
  PROVE  ScreenInv' /\ KeepsOutside(vid, vid')
<1>1. PICK n \in 0..SCREEN_MAX_Y+2 :
        LET v == cio_scroll(vid, n) IN vid' = v /\ NewPaper(v) /\ outside' = "text"
  BY DEF Scroll
<1> DEFINE v == cio_scroll(vid, n)
<1>2. n \in Nat /\ vid \in Screens
  BY CioAssumption DEF ScreenInv
<1>3. KeepsOutside(vid, v)
  BY <1>2, ScrollKeeps
<1>4. vid' = v /\ NewPaper(v)
  BY <1>1
<1> HIDE DEF v
<1>5. v \in Screens
  BY <1>3 DEF KeepsOutside
<1> QED
  BY <1>3, <1>4, <1>5, AfreshKeeps

-----------------------------------------------------------------------------
(* The invariant over all steps.                                           *)

(* What RegionsKept says of one step.                                      *)
KeepsRegions ==
  LET changed == {p \in Cells : vid'.screen[p] # vid.screen[p]} IN
  /\ outside' = "text" => changed \subseteq Region(vid)
  /\ outside' \in {"left", "right"} =>
       \A p \in changed : IF outside' = "left" THEN p[1] < vid.min_x
                          ELSE p[1] > vid.max_x

LEMMA KeepsRegionsIf ==
  ASSUME \/ outside' \notin {"text", "left", "right"}
         \/ /\ outside' = "text" => \A p \in Cells : p \notin Region(vid)
                                      => vid'.screen[p] = vid.screen[p]
            /\ outside' = "left" => \A p \in Cells : ~(p[1] < vid.min_x)
                                      => vid'.screen[p] = vid.screen[p]
            /\ outside' = "right" => \A p \in Cells : ~(p[1] > vid.max_x)
                                      => vid'.screen[p] = vid.screen[p]
  PROVE  KeepsRegions
BY Zenon DEF KeepsRegions

LEMMA VideoKeeps ==
  ASSUME ScreenInv, Video
  PROVE  ScreenInv' /\ KeepsRegions
<1>1. side = "screen" /\ vid \in Screens
  BY DEF Video, ScreenInv
<1>2. ASSUME KeepsOutside(vid, vid'), outside' = "text" PROVE KeepsRegions
  <2>1. \A p \in Cells : p \notin Region(vid) => vid'.screen[p] = vid.screen[p]
    BY <1>2, Zenon DEF KeepsOutside
  <2>2. outside' # "left" /\ outside' # "right"
    BY <1>2
  <2> QED
    BY <2>1, <2>2, KeepsRegionsIf
<1>3. ASSUME outside' \in {"any", "move", "region"} PROVE KeepsRegions
  BY <1>3, KeepsRegionsIf
<1>4. CASE PutChar
  <2>1. outside' = "text"
    BY <1>4 DEF PutChar, Shown
  <2> QED
    BY <1>1, <1>2, <1>4, <2>1, PutCharKeeps
<1>5. CASE Write
  <2>1. outside' = "text"
    BY <1>5 DEF Write, Shown
  <2> QED
    BY <1>1, <1>2, <1>5, <2>1, WriteKeeps
<1>6. CASE Printf
  <2>1. outside' = "text"
    BY <1>6 DEF Printf, Shown
  <2> QED
    BY <1>1, <1>2, <1>6, <2>1, PrintfKeeps
<1>7. CASE MoveTo
  BY <1>1, <1>3, <1>7, MoveToKeeps
<1>8. CASE SetScroll
  BY <1>3, <1>8, SetScrollKeeps
<1>9. CASE PutAt
  <2>1. /\ ScreenInv'
        /\ outside' = "text" => \A p \in Cells : p \notin Region(vid)
                                  => vid'.screen[p] = vid.screen[p]
        /\ outside' = "left" => \A p \in Cells : ~(p[1] < vid.min_x)
                                  => vid'.screen[p] = vid.screen[p]
        /\ outside' = "right" => \A p \in Cells : ~(p[1] > vid.max_x)
                                  => vid'.screen[p] = vid.screen[p]
    BY <1>9, PutAtStays
  <2>2. KeepsRegions
    BY <2>1, KeepsRegionsIf, Zenon
  <2> QED
    BY <2>1, <2>2
<1>10. CASE PrintfAt
  BY <1>3, <1>10, PrintfAtKeeps
<1>11. CASE Clear
  <2>1. ScreenInv' /\ (outside' = "any" \/ KeepsOutside(vid, vid'))
    BY <1>11, ClearKeeps
  <2>2. outside' \in {"text", "any"}
    BY <1>11 DEF Clear
  <2> QED
    BY <1>2, <1>3, <2>1, <2>2
<1>12. CASE Scroll
  <2>1. outside' = "text"
    BY <1>12 DEF Scroll
  <2> QED
    BY <1>2, <1>12, <2>1, ScrollStays
<1>13. PutChar \/ Write \/ Printf \/ MoveTo \/ SetScroll \/ PutAt \/ PrintfAt \/ Clear \/ Scroll
  BY Zenon DEF Video
<1> QED
  BY <1>4, <1>5, <1>6, <1>7, <1>8, <1>9, <1>10, <1>11, <1>12, <1>13, Zenon

LEMMA ScreenInvStep ==
  ASSUME ScreenInv, [DNext]_dvars
  PROVE  ScreenInv' /\ [KeepsRegions]_vvars
<1>1. CASE Video
  BY <1>1, VideoKeeps, Zenon
<1>2. CASE UNCHANGED <<side, vvars>>
  <2>1. /\ side' = side /\ vid' = vid /\ paper' = paper /\ base' = base /\ col' = col
        /\ row' = row /\ vvars' = vvars
    BY <1>2 DEF vvars
  <2>2. ScreenInv'
    BY <2>1 DEF ScreenInv, Paper
  <2> QED
    BY <2>1, <2>2
<1>3. Video \/ UNCHANGED <<side, vvars>>
  BY DEF DNext, dvars, cvars, ConsoleStep, CNext, Keyboard, PlaySnake, TypeText, PciStep,
         NetBoot, NetCall, NetDevice, Only, AudioStep
<1> QED
  BY <1>1, <1>2, <1>3

LEMMA ScreenInvInit ==
  ASSUME DInit
  PROVE  ScreenInv
<1> DEFINE scr == [p \in Cells |-> SPACE]
<1>1. /\ vid = VideoInit /\ paper = Window(VideoInit) /\ base = 0 /\ col = 1 /\ row = 1
  BY DEF DInit, CInit
<1>2. scr \in [Cells -> Int] /\ SCREEN_MAX_X \in Nat /\ SCREEN_MAX_Y \in Nat
  BY CioAssumption DEF SPACE
<1>3. VideoInit = [screen |-> scr, min_x |-> 0, min_y |-> 0, max_x |-> SCREEN_MAX_X,
                   max_y |-> SCREEN_MAX_Y, x |-> 0, y |-> 0]
  BY DEF VideoInit
<1> HIDE DEF scr
<1>4. VideoInit \in Screens /\ VideoInit.min_x = 0 /\ VideoInit.min_y = 0
      /\ VideoInit.x = 0 /\ VideoInit.y = 0
  <2> DEFINE w == VideoInit
  <2>1. w \in [screen : [Cells -> Int], min_x : Int, min_y : Int, max_x : Int, max_y : Int,
               x : Int, y : Int]
    BY <1>2, <1>3
  <2>2. InRegion(w)
    BY <1>2, <1>3 DEF InRegion
  <2>3. w.min_x = 0 /\ w.min_y = 0 /\ w.x = 0 /\ w.y = 0
    BY <1>3
  <2> QED
    BY <2>1, <2>2, <2>3 DEF Screens
<1> DEFINE v == VideoInit
<1>5. Shows(v, [lines |-> Window(v), col |-> v.x - v.min_x + 1, row |-> v.y - v.min_y + 1])
  BY <1>4, FreshShows
<1>6. v.x - v.min_x + 1 = 1 /\ v.y - v.min_y + 1 = 1
  BY <1>4
<1>7. Shows(vid, Paper)
  BY <1>1, <1>5, <1>6, Zenon DEF Paper
<1>8. base = Len(paper) - Height(vid)
  <2>1. Len(Window(v)) = Height(v) /\ Height(v) \in Nat
    BY <1>4, SizeIs DEF Window
  <2> QED
    BY <1>1, <2>1
<1> QED
  BY <1>1, <1>4, <1>7, <1>8 DEF ScreenInv

(* What the invariant says of the cursor and of the window.                *)
LEMMA CursorIs ==
  ASSUME ScreenInv
  PROVE  CursorInRegion
<1>1. vid \in Screens
  BY DEF ScreenInv
<1>2. Region(vid) # {} /\ Region(vid) \subseteq Cells
  BY <1>1, RegionOnScreen
<1>3. vid.x \in vid.min_x..vid.max_x /\ vid.y \in vid.min_y..vid.max_y+1
  BY <1>1, ScreenIs DEF InRegion
<1> QED
  BY <1>2, <1>3 DEF CursorInRegion

LEMMA WindowIs ==
  ASSUME ScreenInv
  PROVE  WindowShowsPaper
<1> SUFFICES ASSUME side = "screen"
             PROVE  /\ Window(vid) = SubSeq(paper, base + 1, base + Height(vid))
                    /\ vid.x = vid.min_x + col - 1
                    /\ vid.y = vid.min_y + row - base - 1
  BY DEF WindowShowsPaper
<1>1. vid \in Screens /\ Shows(vid, Paper) /\ base = Len(paper) - Height(vid)
  BY DEF ScreenInv
<1>2. Paper.lines = paper /\ Paper.col = col /\ Paper.row = row
  BY DEF Paper
<1>3. /\ vid.min_x \in Int /\ vid.min_y \in Int /\ vid.max_x \in Int /\ vid.max_y \in Int
      /\ vid.x \in Int /\ vid.y \in Int
  BY <1>1, ScreenIs
<1>4. /\ col = vid.x - vid.min_x + 1 /\ row = vid.y - vid.min_y + 1 + (Len(paper) - Height(vid))
      /\ Len(paper) - Height(vid) >= 0
  BY <1>1, <1>2 DEF Shows
<1>5. paper \in Seq(Strips(vid)) /\ Len(paper) \in Nat
  BY <1>1, <1>2, ShowsIs
<1>6. /\ Height(vid) \in Nat /\ Height(vid) = vid.max_y - vid.min_y + 1
      /\ Width(vid) \in Nat /\ Width(vid) = vid.max_x - vid.min_x + 1
  BY <1>1, SizeIs
<1>7. base \in Nat /\ base + Height(vid) = Len(paper)
  BY <1>1, <1>4, <1>5, <1>6
<1>8. vid.x = vid.min_x + col - 1 /\ vid.y = vid.min_y + row - base - 1
  <2>1. col = vid.x - vid.min_x + 1 /\ row = vid.y - vid.min_y + 1 + base
    BY <1>1, <1>4
  <2>2. PICK a \in Int, b \in Int, x \in Int, y \in Int, n \in Int :
          a = vid.min_x /\ b = vid.min_y /\ x = vid.x /\ y = vid.y /\ n = base
    <3>1. base \in Int
      BY <1>7
    <3> QED
      BY <1>3, <3>1, Zenon
  <2>3. col = x - a + 1 /\ row = y - b + 1 + n
    BY <2>1, <2>2, Zenon
  <2>4. x = a + (x - a + 1) - 1 /\ y = b + (y - b + 1 + n) - n - 1
    OBVIOUS
  <2> QED
    BY <2>2, <2>3, <2>4, Zenon
<1>9. ASSUME NEW j \in 1..Height(vid)
      PROVE  Window(vid)[j] = paper[base + j]
  <2>1. base + j \in 1..Len(paper) /\ j \in Nat
    BY <1>6, <1>7
  <2>2. paper[base + j] \in [1..Width(vid) -> Int]
    BY <1>5, <2>1 DEF Strips
  <2>3. ASSUME NEW i \in 1..Width(vid)
        PROVE  vid.screen[<<vid.min_x + i - 1, vid.min_y + j - 1>>] = paper[base + j][i]
    <3> DEFINE x == vid.min_x + i - 1
               y == vid.min_y + j - 1
    <3>1. x \in vid.min_x..vid.max_x /\ y \in vid.min_y..vid.max_y
      BY <1>3, <1>6
    <3>2. x - vid.min_x + 1 = i /\ base + y - vid.min_y + 1 = base + j
      <4>1. PICK a \in Int, b \in Int : a = vid.min_x /\ b = vid.min_y
        BY <1>3, Zenon
      <4>2. i \in Int /\ j \in Int /\ base \in Int
        BY <1>7, <2>1
      <4>3. (a + i - 1) - a + 1 = i /\ base + (b + j - 1) - b + 1 = base + j
        BY <4>2
      <4> QED
        BY <4>1, <4>3, Zenon
    <3>3. \A a \in vid.min_x..vid.max_x, b \in vid.min_y..vid.max_y :
            vid.screen[<<a, b>>] = paper[base + b - vid.min_y + 1][a - vid.min_x + 1]
      BY <1>1, <1>2, Zenon DEF Shows
    <3> HIDE DEF x, y
    <3>4. vid.screen[<<x, y>>] = paper[base + j][i]
      BY <3>1, <3>2, <3>3, Zenon
    <3> QED
      BY <3>4 DEF x, y
  <2>4. Window(vid)[j] = [i \in 1..Width(vid) |->
                            vid.screen[<<vid.min_x + i - 1, vid.min_y + j - 1>>]]
    BY DEF Window
  <2> QED
    BY <2>2, <2>3, <2>4
<1>10. Window(vid) = SubSeq(paper, base + 1, base + Height(vid))
  <2> DEFINE s == SubSeq(paper, base + 1, base + Height(vid))
  <2>1. \A i \in base+1..base+Height(vid) : paper[i] \in Strips(vid)
    BY <1>5, <1>6, <1>7
  <2>2. base + 1 \in Int /\ base + Height(vid) \in Int
    BY <1>6, <1>7
  <2> DEFINE m == base + 1
             n == base + Height(vid)
  <2>3. /\ m \in Int /\ n \in Int /\ n - m + 1 = Height(vid)
        /\ (IF m <= n THEN n - m + 1 ELSE 0) = Height(vid)
        /\ \A i \in 1..Height(vid) : m + i - 1 = base + i
    BY <1>6, <1>7
  <2> HIDE DEF m, n
  <2>4. /\ SubSeq(paper, m, n) \in Seq(Strips(vid))
        /\ Len(SubSeq(paper, m, n)) = IF m <= n THEN n - m + 1 ELSE 0
        /\ \A i \in 1..n - m + 1 : SubSeq(paper, m, n)[i] = paper[m + i - 1]
    BY <2>1, <2>3, SubSeqProperties DEF m, n
  <2>5. s = SubSeq(paper, m, n)
    BY DEF m, n
  <2> HIDE DEF s
  <2>6. s \in Seq(Strips(vid)) /\ Len(s) = Height(vid)
        /\ \A i \in 1..Height(vid) : s[i] = paper[base + i]
    BY <2>3, <2>4, <2>5
  <2>7. s = [j \in 1..Height(vid) |-> s[j]]
    BY <2>6
  <2>8. Window(vid) = [j \in 1..Height(vid) |-> Window(vid)[j]]
    BY DEF Window
  <2>9. \A j \in 1..Height(vid) : s[j] = Window(vid)[j]
    BY <1>9, <2>6
  <2>10. Window(vid) = s
    <3> DEFINE win == Window(vid)
    <3> HIDE DEF win
    <3> QED
      BY <2>7, <2>8, <2>9 DEF win
  <2> QED
    BY <2>10 DEF s
<1> QED
  BY <1>8, <1>10

LEMMA FormattedIs ==
  ASSUME ScreenInv
  PROVE  PrintfIsSprint
<1>1. vid \in Screens
  BY DEF ScreenInv
<1> QED
  BY <1>1, PrintfPuts, Zenon DEF PrintfIsSprint

(* Whatever calls of the kernel follow one another, whatever the size of   *)
(* the screen: cio_setscroll and cio_moveto keep the cursor in the region, *)
(* or on the line below it while cio_putchar delays a scroll; the region   *)
(* shows the end of the endless paper that cio_putchar and its callers     *)
(* write; and cio_printf shows what cio_puts shows of the string sprint    *)
(* builds.                                                                 *)
THEOREM ScreenAlwaysShowsPaper == DSpec => []ScreenShowsPaper
<1>1. DInit => ScreenInv
  BY ScreenInvInit
<1>2. ScreenInv /\ [DNext]_dvars => ScreenInv'
  BY ScreenInvStep
<1>3. ScreenInv => ScreenShowsPaper
  BY CursorIs, WindowIs, FormattedIs DEF ScreenShowsPaper
<1> QED
  BY <1>1, <1>2, <1>3, PTL DEF DSpec

(* Output at the cursor and into the region, and the scrolling it causes,  *)
(* change no cell outside the region; cio_putchar_at beside the region     *)
(* changes none in it, not even where a newline erases the rest of a line. *)
THEOREM RegionsAlwaysKept == DSpec => RegionsKept
<1>1. DInit => ScreenInv
  BY ScreenInvInit
<1>2. ScreenInv /\ [DNext]_dvars => ScreenInv'
  BY ScreenInvStep
<1>3. ScreenInv /\ [DNext]_dvars => [KeepsRegions]_vvars
  BY ScreenInvStep
<1>4. DSpec => [][KeepsRegions]_vvars
  BY <1>1, <1>2, <1>3, PTL DEF DSpec
<1>5. RegionsKept <=> [][KeepsRegions]_vvars
  BY DEF RegionsKept, KeepsRegions
<1> QED
  BY <1>4, <1>5, PTL
=============================================================================
