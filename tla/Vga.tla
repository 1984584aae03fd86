-------------------------------- MODULE Vga --------------------------------
(***************************************************************************)
(* vga_graphics.c: the drawing routines of mode 13h.  A routine is the set *)
(* of the pixels it gives its colour; a picture is a function from pixels  *)
(* to colours.  The video memory and the back buffer are both pictures.    *)
(***************************************************************************)
EXTENDS Integers, Sequences

CONSTANTS VGA_WIDTH, VGA_HEIGHT,  \* 320 and 200 in the code
          GLYPH                   \* 8: the width and the height of a glyph

ASSUME VgaAssumption ==
  /\ VGA_WIDTH \in Nat \ {0} /\ VGA_HEIGHT \in Nat \ {0} /\ GLYPH \in Nat \ {0}
  /\ GLYPH <= VGA_WIDTH /\ GLYPH <= VGA_HEIGHT

Screen == (0..VGA_WIDTH-1) \X (0..VGA_HEIGHT-1)

vga_abs(x) == IF x < 0 THEN -x ELSE x

(* vga_put_pixel for every pixel of a set; nothing is drawn outside the    *)
(* screen.                                                                 *)
vga_put_pixel(pic, pixels, color) ==
  [p \in Screen |-> IF p \in pixels THEN color ELSE pic[p]]

vga_clear(color) == [p \in Screen |-> color]

-----------------------------------------------------------------------------
(* vga_draw_rect.  "top & bottom", "left & right".                         *)
Edges(x, y, w, h) ==
  ((x..x+w-1) \X {y, y+h-1}) \cup ({x, x+w-1} \X (y..y+h-1))

vga_draw_rect(x, y, w, h, filled) ==
  IF filled THEN (x..x+w-1) \X (y..y+h-1) ELSE Edges(x, y, w, h)

(* vga_draw_rect_buf tests the bounds in its loops.                        *)
vga_draw_rect_buf(x, y, w, h, filled) ==
  LET In(v, size) == v >= 0 /\ v < size
      xs == {xx \in x..x+w-1 : In(xx, VGA_WIDTH)}
      ys == {yy \in y..y+h-1 : In(yy, VGA_HEIGHT)}
  IN IF filled THEN xs \X ys
     ELSE (xs \X {yy \in {y, y+h-1} : In(yy, VGA_HEIGHT)})
          \cup ({xx \in {x, x+w-1} : In(xx, VGA_WIDTH)} \X ys)

-----------------------------------------------------------------------------
(* Mutant: the error is not doubled.                                       *)
LineStep_Single(s, dx, dy, sx, sy) ==
  LET e2 == s.err
      right == e2 >= dy
      down == e2 <= dx
  IN [x |-> IF right THEN s.x + sx ELSE s.x, y |-> IF down THEN s.y + sy ELSE s.y,
      err |-> s.err + (IF right THEN dy ELSE 0) + (IF down THEN dx ELSE 0)]

(* One round of the loop of vga_draw_line.                                 *)
LineStep(s, dx, dy, sx, sy) ==
  LET e2 == 2 * s.err
      right == e2 >= dy
      down == e2 <= dx
  IN [x |-> IF right THEN s.x + sx ELSE s.x, y |-> IF down THEN s.y + sy ELSE s.y,
      err |-> s.err + (IF right THEN dy ELSE 0) + (IF down THEN dx ELSE 0)]

(* The pixels in the order plotted, up to the end point or `limit' rounds. *)
LinePixels(x0, y0, x1, y1, limit) ==
  LET dx == vga_abs(x1 - x0)
      sx == IF x0 < x1 THEN 1 ELSE -1
      dy == -vga_abs(y1 - y0)
      sy == IF y0 < y1 THEN 1 ELSE -1
      line[n \in 1..limit] ==
        IF n = 1 THEN <<[x |-> x0, y |-> y0, err |-> dx + dy]>>
        ELSE LET before == line[n - 1]
                 s == before[Len(before)]
             IN IF s.x = x1 /\ s.y = y1 THEN before
                ELSE Append(before, LineStep(s, dx, dy, sx, sy))
      steps == line[limit]
  IN [n \in DOMAIN steps |-> <<steps[n].x, steps[n].y>>]

vga_draw_line(x0, y0, x1, y1) ==
  LET l == LinePixels(x0, y0, x1, y1, 2 * (VGA_WIDTH + VGA_HEIGHT))
  IN {l[n] : n \in DOMAIN l}

vga_draw_triangle(x1, y1, x2, y2, x3, y3) ==
  vga_draw_line(x1, y1, x2, y2) \cup vga_draw_line(x2, y2, x3, y3)
    \cup vga_draw_line(x3, y3, x1, y1)

-----------------------------------------------------------------------------
(* The offsets from the centre that draw_circle_points plots.              *)
draw_circle_points(x, y, fill) ==
  IF fill
  THEN ((-x..x) \X {y, -y}) \cup ((-y..y) \X {x, -x})
  ELSE ({x, -x} \X {y, -y}) \cup ({y, -y} \X {x, -x})

(* One round of the loop of vga_draw_circle.                               *)
CircleStep(s) ==
  IF s.d > 0
  THEN [x |-> s.x + 1, y |-> s.y - 1, d |-> s.d + 4 * (s.x + 1 - (s.y - 1)) + 10]
  ELSE [x |-> s.x + 1, y |-> s.y, d |-> s.d + 4 * (s.x + 1) + 6]

vga_draw_circle(radius, fill) ==
  LET at[n \in Nat] ==
        IF n = 0 THEN [x |-> 0, y |-> radius, d |-> 3 - 2 * radius]
        ELSE CircleStep(at[n - 1])
      rounds == {n \in 0..radius+1 : \A m \in 0..n : at[m].y >= at[m].x}
  IN UNION {draw_circle_points(at[n].x, at[n].y, fill) : n \in rounds}

-----------------------------------------------------------------------------
(* A sprite is a function from its pixels to colours.                      *)
vga_blit(pic, sprite, x0, y0, transparent_color) ==
  [p \in Screen |->
     LET q == <<p[1] - x0, p[2] - y0>>
     IN IF q \in DOMAIN sprite /\ sprite[q] # transparent_color
        THEN sprite[q] ELSE pic[p]]

(* The glyphs are the font's (font8x8.h); here a glyph is the set of the   *)
(* pixels that are on.                                                     *)
vga_draw_char(x, y, glyph) == {<<x + q[1], y + q[2]>> : q \in glyph}

(* Where vga_draw_string draws each character of str; NL is '\n'.          *)
Places(str, NL, x, y) ==
  LET f[n \in 1..Len(str)+1] ==
        IF n = 1 THEN <<x, y>>
        ELSE LET c == f[n - 1]
             IN IF str[n - 1] = NL \/ c[1] + 2 * GLYPH > VGA_WIDTH
                THEN <<x, c[2] + GLYPH>> ELSE <<c[1] + GLYPH, c[2]>>
  IN f

(* font gives the glyph of a character.                                    *)
vga_draw_string(str, NL, x, y, font) ==
  LET at == Places(str, NL, x, y)
  IN UNION {vga_draw_char(at[n][1], at[n][2], font[str[n]]) :
              n \in {m \in DOMAIN str : str[m] # NL}}

-----------------------------------------------------------------------------
(* The next line, or the top of a cleared page.                            *)
NextLine(y) == IF y + 2 * GLYPH > VGA_HEIGHT THEN 0 ELSE y + GLYPH

(* usercode/vga/vga_type.c, one character: cursor, and where a glyph was   *)
(* drawn last.  ESC ends it, and so does a negative character.             *)
vga_type(cur, ch) ==
  IF ch < 0 \/ ch = 27 THEN [cur EXCEPT !.on = FALSE]
  ELSE IF ch \in {10, 13} THEN [cur EXCEPT !.x = 0, !.y = NextLine(@)]
  ELSE LET full == cur.x + 2 * GLYPH > VGA_WIDTH
       IN [x |-> IF full THEN 0 ELSE cur.x + GLYPH,
           y |-> IF full THEN NextLine(cur.y) ELSE cur.y,
           on |-> TRUE, drawn |-> <<cur.x, cur.y>>]
=============================================================================
