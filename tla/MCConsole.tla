----------------------------- MODULE MCConsole -----------------------------
(***************************************************************************)
(* The console at work.  Its screen, its keyboard and the two programs     *)
(* that use them share no state, so `side' chooses which of them the       *)
(* behaviour is about.                                                     *)
(*                                                                         *)
(* Screen: the calls of the kernel, compared with paper that never ends.   *)
(* Keyboard: module Console.                                               *)
(***************************************************************************)
EXTENDS Console, Snake, Vga

CONSTANTS
  MaxCalls,     \* calls that write to the screen
  MaxKeys       \* keys that are typed

(* Arguments of cio_setscroll: those of main.c, and others.                *)
Regions ==
  {<<0, 1, 99, 99>>, <<1, 0, 1, 1>>, <<1, 1, 2, 1>>, <<2, 2, 0, 0>>}

VARIABLES
  side,
  vid, paper, base, col, row,        \* the screen, and the endless paper
  outside,                           \* the call that wrote last
  calls,
  keys,                              \* how many keys were typed
  cur                                \* vga_type's cursor

vvars == <<vid, paper, base, col, row, outside, calls>>
cvars == <<side, vvars, kvars, keys, cur, gvars>>

-----------------------------------------------------------------------------
(* The screen against the paper: `paper' is the lines written since the    *)
(* region was set, from the left margin; `base' of them have scrolled off. *)

Width(v) == v.max_x - v.min_x + 1
Height(v) == v.max_y - v.min_y + 1
Blank(v) == [i \in 1..Width(v) |-> SPACE]

(* The lines of the region.                                                *)
Window(v) ==
  [j \in 1..Height(v) |-> [i \in 1..Width(v) |->
     v.screen[<<v.min_x + i - 1, v.min_y + j - 1>>]]]

(* A typewriter on paper without end: t is [lines, col, row].              *)
Typed(t, c, w) ==
  LET lines == IF t.row > Len(t.lines) THEN Append(t.lines, [i \in 1..w |-> SPACE])
               ELSE t.lines
      down == [lines |-> lines, col |-> 1, row |-> t.row + 1]
      hit == [lines EXCEPT ![t.row] = [@ EXCEPT ![t.col] = c]]
  IN CASE c = NEWLINE ->
            [down EXCEPT !.lines[t.row] = [i \in 1..w |-> IF i < t.col THEN @[i] ELSE SPACE]]
       [] c = RETURN -> [lines |-> lines, col |-> 1, row |-> t.row]
       [] OTHER -> IF t.col = w THEN [down EXCEPT !.lines = hit]
                   ELSE [lines |-> hit, col |-> t.col + 1, row |-> t.row]

TypedAll(t, str, w) ==
  LET f[n \in 0..Len(str)] == IF n = 0 THEN t ELSE Typed(f[n-1], str[n], w)
  IN f[Len(str)]

(* The paper is put in afresh: it shows what the region shows.             *)
NewPaper(v) ==
  /\ paper' = Window(v) /\ base' = 0
  /\ col' = v.x - v.min_x + 1 /\ row' = v.y - v.min_y + 1

(* A text is written at the cursor.                                        *)
Shown(str, v) ==
  LET t == TypedAll([lines |-> paper, col |-> col, row |-> row], str, Width(vid))
  IN /\ vid' = v /\ outside' = "text"
     /\ paper' = t.lines /\ col' = t.col /\ row' = t.row
     /\ base' = Len(t.lines) - Height(vid)

Formats == {<<<<PERCENT, 51, 100>>, <<7>>>>, <<<<PERCENT, MINUS, 50, 99, NEWLINE>>, <<65>>>>,
            <<<<66, PERCENT, 115>>, <<<<65, NEWLINE>>>>>>}

PutChar == \E c \in {65, NEWLINE, RETURN} : Shown(<<c>>, cio_putchar(vid, c))
Write == \E b \in {<<66, NEWLINE, 65>>} : \E n \in 1..3 : Shown(SubSeq(b, 1, n), cio_write(vid, b, n))
Printf == \E f \in Formats : Shown(sprint(f[1], f[2]), cio_printf(vid, f[1], f[2]))
MoveTo ==
  \E x \in 0..SCREEN_MAX_X : \E y \in 0..SCREEN_MAX_Y :
    LET v == cio_moveto(vid, x, y) IN
    /\ vid' = v /\ outside' = "move"
    /\ paper' = paper /\ base' = base
    /\ col' = v.x - v.min_x + 1 /\ row' = base + v.y - v.min_y + 1
SetScroll ==
  \E r \in Regions : LET v == cio_setscroll(vid, r[1], r[2], r[3], r[4]) IN
    vid' = v /\ NewPaper(v) /\ outside' = "region"
PutAt ==
  \E x \in 0..SCREEN_MAX_X+1 : \E y \in 0..SCREEN_MAX_Y : \E c \in {66, NEWLINE} :
    LET v == cio_putchar_at(vid, x, y, c) IN
    /\ vid' = v /\ NewPaper(v)
    /\ outside' = IF <<x, y>> \in Region(vid) THEN "text"
                  ELSE IF x < vid.min_x THEN "left" ELSE IF x > vid.max_x THEN "right"
                  ELSE "above"
PrintfAt ==
  \E x \in 0..SCREEN_MAX_X : \E f \in Formats :
    LET v == cio_printf_at(vid, x, 0, f[1], f[2]) IN
    vid' = v /\ NewPaper(v) /\ outside' = "any"
Clear ==
  \/ LET v == cio_clearscroll(vid) IN vid' = v /\ NewPaper(v) /\ outside' = "text"
  \/ LET v == cio_clearscreen(vid) IN vid' = v /\ NewPaper(v) /\ outside' = "any"
Scroll ==
  \E n \in 0..SCREEN_MAX_Y+2 :
    LET v == cio_scroll(vid, n) IN vid' = v /\ NewPaper(v) /\ outside' = "text"

Video ==
  /\ side = "screen" /\ calls < MaxCalls /\ calls' = calls + 1
  /\ \/ PutChar \/ Write \/ Printf \/ MoveTo \/ SetScroll \/ PutAt \/ PrintfAt
     \/ Clear \/ Scroll
  /\ UNCHANGED <<side, kvars, keys, cur, gvars>>

-----------------------------------------------------------------------------
(* The keyboard; no more than MaxKeys codes arrive.                        *)
Keyboard ==
  /\ side = "keys"
  /\ \/ keys < MaxKeys /\ (keyboard_isr \/ GetsPoll) /\ keys' = keys + 1
     \/ (GetcharTest \/ GetcharTake \/ sys_read \/ GetsTake \/ GetsReturn) /\ UNCHANGED keys
  /\ UNCHANGED <<side, vvars, cur, gvars>>

-----------------------------------------------------------------------------
(* The programs.                                                           *)
PlaySnake == side = "snake" /\ SnakeNext /\ UNCHANGED <<side, vvars, kvars, keys, cur>>

TypeText ==
  \E c \in {-1, ESC, NEWLINE, RETURN, 65} :
    /\ side = "type" /\ cur.on
    /\ cur' = vga_type(cur, c)
    /\ UNCHANGED <<side, vvars, kvars, keys, gvars>>

CInit ==
  /\ side \in {"screen", "keys", "snake", "type"}
  /\ vid = VideoInit /\ paper = Window(VideoInit) /\ base = 0 /\ col = 1 /\ row = 1
  /\ outside = "any" /\ calls = 0
  /\ KInit /\ keys = 0
  /\ cur = [x |-> 0, y |-> 0, on |-> TRUE, drawn |-> <<0, 0>>]
  /\ SnakeInit

CNext == Video \/ Keyboard \/ PlaySnake \/ TypeText

-----------------------------------------------------------------------------
(* The scrolling region lies on the screen and the cursor in the region,   *)
(* or on the line below it while a scroll is due, whatever arguments       *)
(* cio_setscroll and cio_moveto are given.                                 *)
CursorInRegion ==
  /\ Region(vid) # {} /\ Region(vid) \subseteq Cells
  /\ vid.x \in vid.min_x..vid.max_x
  /\ vid.y \in vid.min_y..vid.max_y+1

(* The region is a window on the end of an endless paper: what cio_putchar *)
(* and its callers write is shown line by line, wrapped at the margin, the *)
(* lines that scroll off are the oldest, and the delayed scroll shows at   *)
(* the next character.                                                     *)
WindowShowsPaper ==
  side = "screen" =>
    /\ Window(vid) = SubSeq(paper, base + 1, base + Height(vid))
    /\ vid.x = vid.min_x + col - 1
    /\ vid.y = vid.min_y + row - base - 1

(* cio_printf shows what cio_puts would show of the string sprint builds.  *)
PrintfIsSprint ==
  side = "screen" =>
    \A f \in Formats : cio_printf(vid, f[1], f[2]) = cio_puts(vid, sprint(f[1], f[2]))

(* Output into the scrolling region changes nothing outside it; output     *)
(* beside it, a newline that erases a line included, does not enter it.    *)
RegionsKept ==
  [][LET changed == {p \in Cells : vid'.screen[p] # vid.screen[p]} IN
     /\ outside' = "text" => changed \subseteq Region(vid)
     /\ outside' \in {"left", "right"} =>
          \A p \in changed : IF outside' = "left" THEN p[1] < vid.min_x
                             ELSE p[1] > vid.max_x]_vvars

(* While the game runs the snake is a chain of different cells inside the  *)
(* border and the food is beside it; the array is never written past its   *)
(* end, because no round is played on a full board.                        *)
SnakeWhole ==
  mode = "play" =>
    /\ BodyCells(snake_body) \subseteq Play
    /\ \A i, j \in DOMAIN snake_body : i # j => snake_body[i] # snake_body[j]
    /\ \A i \in 1..Len(snake_body)-1 :
         vga_abs(snake_body[i][1] - snake_body[i+1][1])
           + vga_abs(snake_body[i][2] - snake_body[i+1][2]) = 1
    /\ food \in Play \ BodyCells(snake_body)
    /\ Len(snake_body) < MAX_LEN

(* vga_type draws every character whole on the screen.                     *)
TypedOnScreen ==
  cur.drawn[1] + GLYPH <= VGA_WIDTH /\ cur.drawn[2] + GLYPH <= VGA_HEIGHT

(* Whatever calls of the kernel follow one another, the cursor stays in    *)
(* the region, the region shows the end of the paper and formatted output  *)
(* is that of sprint.                                                      *)
ScreenShowsPaper == CursorInRegion /\ WindowShowsPaper /\ PrintfIsSprint

(* The interrupt, a program and the system call share the keyboard ring:   *)
(* no character is lost, repeated or overtaken, and a read gets its line.  *)
KeyboardInOrder == KeysInOrder /\ ReadGetsLine

(* The programs stay inside what they draw on.                             *)
ProgramsInside == SnakeWhole /\ TypedOnScreen
=============================================================================
