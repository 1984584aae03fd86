------------------------------- MODULE Snake -------------------------------
(***************************************************************************)
(* usercode/vga/snake.c, the program that plays on keyboard, clock and     *)
(* graphics.  cio_kbhit and cio_getchar may deliver any character (module  *)
(* Cio).  Of the generator lcg_rand only the lowest bit is kept: odd       *)
(* multiplier and increment flip it in every call, and place_food calls it *)
(* twice per try.  What is drawn follows from the state: draw_cell of the  *)
(* food and of each cell of the body.                                      *)
(***************************************************************************)
EXTENDS Integers, Sequences

CONSTANTS
  PLAY_W, PLAY_H,      \* 38 and 23 in the code
  StartLength          \* 5

BORDER_CELLS == 1
GRID_W == PLAY_W + 2 * BORDER_CELLS
GRID_H == PLAY_H + 2 * BORDER_CELLS
MAX_LEN == PLAY_W * PLAY_H

(* The first snake must lie inside the playable area.                      *)
ASSUME SnakeAssumption ==
  /\ PLAY_W \in Nat /\ PLAY_H \in Nat \ {0} /\ StartLength \in Nat \ {0}
  /\ PLAY_W \div 2 + 1 >= StartLength

VARIABLES
  mode,          \* waiting for ENTER, playing, or looking for a free cell
  snake_body,    \* the first snake_length cells of the array, head first
  dir,           \* <<dir_x, dir_y>>
  food,
  low            \* the lowest bit of rng_state

gvars == <<mode, snake_body, dir, food, low>>

Play == (BORDER_CELLS..GRID_W-BORDER_CELLS-1) \X (BORDER_CELLS..GRID_H-BORDER_CELLS-1)
BodyCells(b) == {b[i] : i \in DOMAIN b}

NOKEY == -1
ESC == 27
ENTER == {10, 13}
Up == {119, 87, 56}        \* w W 8
Down == {115, 83, 50}      \* s S 2
Left == {97, 65, 52}       \* a A 4
Right == {100, 68, 54}     \* d D 6
Keys == {NOKEY, ESC, 10, 255, 119, 50, 65, 54}

FirstBody ==
  [i \in 1..StartLength |->
     <<BORDER_CELLS + PLAY_W \div 2 - (i - 1), BORDER_CELLS + PLAY_H \div 2>>]

(* The static variables are zero until the first ENTER.                    *)
SnakeInit ==
  mode = "enter" /\ snake_body = <<>> /\ dir = <<0, 0>> /\ food = <<0, 0>> /\ low = 0

(* The cells a try of place_food may give if the lowest bit is b: x takes  *)
(* the bit after one call, and keeps it if PLAY_W is even, as it is.       *)
lcg_rand(b) ==
  {p \in Play : PLAY_W % 2 = 0 => (p[1] - BORDER_CELLS) % 2 = 1 - b}

(* Mutant: the food may be placed on the snake.                            *)
place_food_Anywhere(body, b) == food' \in lcg_rand(b) /\ mode' = "play"

(* "do ... while (collision)": a free cell of the playable area.  If none  *)
(* can be drawn the loop does not end.                                     *)
place_food(body, b) ==
  IF lcg_rand(b) \subseteq BodyCells(body)
  THEN mode' = "hung" /\ UNCHANGED food
  ELSE mode' = "play" /\ food' \in lcg_rand(b) \ BodyCells(body)

(* A character while the title or GAME OVER is shown; the clock seeds the  *)
(* generator.                                                              *)
Enter ==
  \E c \in Keys \ {NOKEY} :
    /\ mode = "enter"
    /\ IF c \in ENTER
       THEN /\ snake_body' = FirstBody /\ dir' = <<1, 0>>
            /\ low' \in {0, 1} /\ place_food(FirstBody, low')
       ELSE UNCHANGED gvars

Turned(d, c) ==
  CASE c \in Up /\ d[2] # 1 -> <<0, -1>>
    [] c \in Down /\ d[2] # -1 -> <<0, 1>>
    [] c \in Left /\ d[1] # 1 -> <<-1, 0>>
    [] c \in Right /\ d[1] # -1 -> <<1, 0>>
    [] OTHER -> d

(* The array after "Move body": the cell the tail leaves is kept behind    *)
(* the body, where it becomes the tail if the snake grows.                 *)
Moved(body, d) == <<<<body[1][1] + d[1], body[1][2] + d[2]>>>> \o body

(* The border, or one of the snake_length - 1 cells behind the head.       *)
Collides(body, m) ==
  \/ m[1] \notin Play
  \/ \E i \in 2..Len(body) : m[i] = m[1]

(* One round of the game loop: at most one key.                            *)
Tick ==
  \E c \in Keys :
    LET d == Turned(dir, c)
        m == Moved(snake_body, d)
    IN /\ mode = "play" /\ UNCHANGED low
       /\ IF c = ESC
          THEN mode' = "enter" /\ UNCHANGED <<snake_body, dir, food>>
          ELSE /\ dir' = d
               /\ IF Collides(snake_body, m)
                  THEN /\ mode' = "enter"
                       /\ snake_body' = SubSeq(m, 1, Len(snake_body))
                       /\ UNCHANGED food
                  ELSE IF m[1] = food
                  THEN /\ snake_body' = IF Len(m) > MAX_LEN
                                        THEN SubSeq(m, 1, MAX_LEN) ELSE m
                       /\ place_food(snake_body', low)
                  ELSE /\ snake_body' = SubSeq(m, 1, Len(snake_body))
                       /\ UNCHANGED <<mode, food>>

(* The loop of place_food on a full board.                                 *)
Hung == mode = "hung" /\ UNCHANGED gvars

SnakeNext == Enter \/ Tick \/ Hung
=============================================================================
