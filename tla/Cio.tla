-------------------------------- MODULE Cio --------------------------------
(***************************************************************************)
(* cio.c: the console.  The text screen with its scrolling region and      *)
(* cursor is the record `v' the operators take and give; the keyboard with *)
(* its shift state and circular buffer is the record `k'.                  *)
(*                                                                         *)
(* A cell of the screen holds a character; attributes are left out.  What  *)
(* CIO_DUP2_SIO copies to the serial port is an action of module Sio.      *)
(***************************************************************************)
EXTENDS Klibc

CONSTANTS
  SCREEN_MAX_X, SCREEN_MAX_Y,   \* 79 and 24 in the code
  C_BUFSIZE                     \* 200

ASSUME CioAssumption ==
  /\ SCREEN_MAX_X \in Nat /\ SCREEN_MAX_Y \in Nat
  /\ C_BUFSIZE \in Nat \ {0}

NEWLINE == 10
RETURN == 13
EOT == 4

Cells == (0..SCREEN_MAX_X) \X (0..SCREEN_MAX_Y)

(* cio_init: the whole screen scrolls.                                     *)
VideoInit ==
  [screen |-> [p \in Cells |-> SPACE],
   min_x |-> 0, min_y |-> 0, max_x |-> SCREEN_MAX_X, max_y |-> SCREEN_MAX_Y,
   x |-> 0, y |-> 0]

Region(v) == (v.min_x..v.max_x) \X (v.min_y..v.max_y)

-----------------------------------------------------------------------------
(* The screen.                                                             *)

(* If x or y is too big, there is no output.                               *)
putchar_at(v, x, y, c) ==
  IF <<x, y>> \in Cells THEN [v EXCEPT !.screen[<<x, y>>] = c] ELSE v

(* Blanks from x to limit on line y.                                       *)
Erased(v, x, limit, y) ==
  [v EXCEPT !.screen = [p \in Cells |-> IF p[1] \in x..limit /\ p[2] = y
                                        THEN SPACE ELSE @[p]]]

cio_setscroll(v, x0, y0, x1, y1) ==
  LET mx == bound(0, x0, SCREEN_MAX_X)
      my == bound(0, y0, SCREEN_MAX_Y)
  IN [v EXCEPT !.min_x = mx, !.min_y = my,
               !.max_x = bound(mx, x1, SCREEN_MAX_X),
               !.max_y = bound(my, y1, SCREEN_MAX_Y),
               !.x = mx, !.y = my]

cio_moveto(v, x, y) ==
  [v EXCEPT !.x = bound(v.min_x, x + v.min_x, v.max_x),
            !.y = bound(v.min_y, y + v.min_y, v.max_y)]

(* Mutant: a newline erases to the end of the screen.                      *)
cio_putchar_at_Wide(v, x, y, c) ==
  IF c % 128 # NEWLINE THEN putchar_at(v, x, y, c) ELSE Erased(v, x, SCREEN_MAX_X, y)

(* A newline erases the rest of the line, without leaving the scrolling    *)
(* region or entering it.                                                  *)
cio_putchar_at(v, x, y, c) ==
  IF c % 128 # NEWLINE THEN putchar_at(v, x, y, c)
  ELSE Erased(v, x, IF x > v.max_x THEN SCREEN_MAX_X
                    ELSE IF x >= v.min_x THEN v.max_x ELSE v.min_x - 1, y)

cio_clearscroll(v) ==
  [v EXCEPT !.screen = [p \in Cells |-> IF p \in Region(v) THEN SPACE ELSE @[p]]]

cio_clearscreen(v) == [v EXCEPT !.screen = [p \in Cells |-> SPACE]]

(* As many lines as the region has, or more: it is cleared.                *)
cio_scroll(v, lines) ==
  IF lines > v.max_y - v.min_y
  THEN [cio_clearscroll(v) EXCEPT !.x = v.min_x, !.y = v.min_y]
  ELSE [v EXCEPT !.screen = [p \in Cells |->
          IF p \notin Region(v) THEN @[p]
          ELSE IF p[2] <= v.max_y - lines THEN @[<<p[1], p[2] + lines>>] ELSE SPACE]]

(* Mutant: the last line is written over instead.                          *)
Scrolled_Keep(v) == IF v.y > v.max_y THEN [v EXCEPT !.y = v.max_y] ELSE v

(* "If we're off the bottom of the screen, scroll the window."             *)
Scrolled(v) ==
  IF v.y > v.max_y
  THEN [cio_scroll(v, v.y - v.max_y) EXCEPT !.y = v.max_y] ELSE v

(* The scroll that a newline on the last line asks for is delayed until    *)
(* the next character.                                                     *)
cio_putchar(v, c) ==
  LET s == Scrolled(v)
      stored == putchar_at(s, s.x, s.y, c)
  IN CASE c = NEWLINE ->
            [Erased(s, s.x, s.max_x, s.y) EXCEPT !.x = s.min_x, !.y = s.y + 1]
       [] c = RETURN -> [s EXCEPT !.x = s.min_x]
       [] OTHER ->
            IF s.x + 1 > s.max_x
            THEN [stored EXCEPT !.x = s.min_x, !.y = s.y + 1]
            ELSE [stored EXCEPT !.x = s.x + 1]

(* cio_puts of a string, and cio_write of a buffer.                        *)
cio_puts(v, str) ==
  LET f[n \in 0..Len(str)] == IF n = 0 THEN v ELSE cio_putchar(f[n - 1], str[n])
  IN f[Len(str)]

cio_write(v, buf, length) == cio_puts(v, SubSeq(buf, 1, length))

(* It stops at the right edge of the screen.                               *)
cio_puts_at(v, x, y, str) ==
  LET f[n \in 0..Len(str)] ==
        IF n = 0 THEN v
        ELSE IF x + n - 1 > SCREEN_MAX_X THEN f[n - 1]
        ELSE cio_putchar_at(f[n - 1], x + n - 1, y, str[n])
  IN f[Len(str)]

-----------------------------------------------------------------------------
(* Formatted output, to the cursor or, at = <<x, y>>, to a place.  o is    *)
(* the output so far: the screen and the place it has come to.             *)
STREAM == <<-1, -1>>

mypad(o, extra, padchar) ==
  LET f[n \in Nat] ==
        IF n = 0 THEN o
        ELSE IF o.at = STREAM THEN [o EXCEPT !.v = cio_putchar(f[n-1].v, padchar)]
        ELSE [v |-> cio_putchar_at(f[n-1].v, f[n-1].at[1], o.at[2], padchar),
              at |-> <<f[n-1].at[1] + 1, o.at[2]>>]
  IN f[IF extra > 0 THEN extra ELSE 0]

mypadstr(o, str, width, leftadjust, padchar) ==
  LET extra == width - Len(str)
      left == IF leftadjust THEN o ELSE mypad(o, extra, padchar)
      text == IF o.at = STREAM THEN [left EXCEPT !.v = cio_puts(@, str)]
              ELSE [v |-> cio_puts_at(left.v, left.at[1], left.at[2], str),
                    at |-> <<left.at[1] + Len(str), left.at[2]>>]
  IN IF leftadjust THEN mypad(text, extra, padchar) ELSE text

(* An ordinary character of the format.                                    *)
Plain(o, c) ==
  IF o.at = STREAM THEN [o EXCEPT !.v = cio_putchar(@, c)]
  ELSE [v |-> cio_putchar_at(o.v, o.at[1], o.at[2], c),
        at |-> CASE c = NEWLINE -> <<o.v.min_x, o.at[2] + 1>>
                 [] c = RETURN -> <<o.v.min_x, o.at[2]>>
                 [] OTHER -> <<o.at[1] + 1, o.at[2]>>]

(* The format is read as sprint reads it; there is one code more, 'b'.     *)
do_printf(v, at, fmt, args) ==
  LET run[s \in Nat] ==
        IF s = 0 THEN [i |-> 1, n |-> 1, o |-> [v |-> v, at |-> at]]
        ELSE LET p == run[s - 1] IN
             IF p.i > Len(fmt) THEN p
             ELSE IF fmt[p.i] # PERCENT
             THEN [p EXCEPT !.i = @ + 1, !.o = Plain(@, fmt[p.i])]
             ELSE LET d == Directive(fmt, p.i + 1)
                      text == IF d.code = 98 THEN cvtbin(args[p.n])
                              ELSE Converted(d.code, args[p.n])
                  IN IF d.code \notin SprintCodes \cup {98}
                     THEN [p EXCEPT !.i = d.next]
                     ELSE [i |-> d.next, n |-> p.n + 1,
                           o |-> mypadstr(p.o, text, d.width, d.leftadjust, d.padchar)]
  IN run[Len(fmt)].o.v

cio_printf_at(v, x, y, fmt, args) == do_printf(v, <<x, y>>, fmt, args)
cio_printf(v, fmt, args) == do_printf(v, STREAM, fmt, args)

-----------------------------------------------------------------------------
(* The keyboard.                                                           *)

(* scan_code[0] and scan_code[1], codes 0..83; above them all are 255.     *)
Unshifted == <<
  255, 27, 49, 50, 51, 52, 53, 54, 55, 56, 57, 48, 45, 61, 8, 9,
  113, 119, 101, 114, 116, 121, 117, 105, 111, 112, 91, 93, 10, 255, 97, 115,
  100, 102, 103, 104, 106, 107, 108, 59, 39, 96, 255, 92, 122, 120, 99, 118,
  98, 110, 109, 44, 46, 47, 255, 42, 255, 32, 255, 255, 255, 255, 255, 255,
  255, 255, 255, 255, 255, 255, 255, 55, 56, 57, 45, 52, 53, 54, 43, 49,
  50, 51, 48, 46>>
Shifted == <<
  255, 27, 33, 64, 35, 36, 37, 94, 38, 42, 40, 41, 95, 43, 8, 9,
  81, 87, 69, 82, 84, 89, 85, 73, 79, 80, 123, 125, 10, 255, 65, 83,
  68, 70, 71, 72, 74, 75, 76, 58, 34, 126, 255, 124, 90, 88, 67, 86,
  66, 78, 77, 60, 62, 63, 255, 42, 255, 32, 255, 255, 255, 255, 255, 255,
  255, 255, 255, 255, 255, 255, 255, 55, 56, 57, 45, 52, 53, 54, 43, 49,
  50, 51, 48, 46>>

scan_code(shift, code) ==
  IF code + 1 > Len(Unshifted) THEN 255
  ELSE IF shift THEN Shifted[code + 1] ELSE Unshifted[code + 1]

L_SHIFT_DN == 42
R_SHIFT_DN == 54
L_SHIFT_UP == 170
R_SHIFT_UP == 182
L_CTRL_DN == 29
L_CTRL_UP == 157

KeyboardInit ==
  [buf |-> [i \in 0..C_BUFSIZE-1 |-> 0], next_char |-> 0, next_space |-> 0,
   shift |-> FALSE, ctrl |-> FALSE]

increment(i) == IF i + 1 >= C_BUFSIZE THEN 0 ELSE i + 1

(* Mutant: the buffer is filled to the last place.                         *)
Stored_Full(k, c) ==
  [k EXCEPT !.buf[k.next_space] = c, !.next_space = increment(@)]

(* "Store character only if there's room."                                 *)
Stored(k, c) ==
  IF increment(k.next_space) = k.next_char THEN k
  ELSE [k EXCEPT !.buf[k.next_space] = c, !.next_space = increment(@)]

(* The character of a code pressed, through ctrl_mask.                     *)
KeyOf(k, code) ==
  IF k.ctrl THEN scan_code(k.shift, code) % 32 ELSE scan_code(k.shift, code)

(* "Ignore undefined scan codes": the table's entry for them, 255, is      *)
(* compared with '\377', which is -1, so that they are not ignored.        *)
input_scan_code(k, code) ==
  CASE code \in {L_SHIFT_DN, R_SHIFT_DN} -> [k EXCEPT !.shift = TRUE]
    [] code \in {L_SHIFT_UP, R_SHIFT_UP} -> [k EXCEPT !.shift = FALSE]
    [] code = L_CTRL_DN -> [k EXCEPT !.ctrl = TRUE]
    [] code = L_CTRL_UP -> [k EXCEPT !.ctrl = FALSE]
    [] OTHER -> IF code < 128 THEN Stored(k, KeyOf(k, code)) ELSE k

cio_kbhit(k) == k.next_char # k.next_space

cio_input_queue(k) ==
  LET n == k.next_space - k.next_char IN IF n < 0 THEN n + C_BUFSIZE ELSE n

(* What cio_getchar takes once the buffer is not empty, and leaves.        *)
NextChar(k) == k.buf[k.next_char]
Taken(k) == [k EXCEPT !.next_char = increment(@)]

(* "if( c != EOT ) cio_putchar( c )"                                       *)
Echoed(v, c) == IF c = EOT THEN v ELSE cio_putchar(v, c)
=============================================================================
