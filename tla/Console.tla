------------------------------ MODULE Console ------------------------------
(***************************************************************************)
(* The keyboard of module Cio at work: the keyboard interrupt, a user      *)
(* program inside cio_getchar, which can be interrupted between its test   *)
(* of the buffer and its access to it, and the read system call on         *)
(* CHAN_CIO (syscalls.c), which runs with interrupts disabled and polls.   *)
(***************************************************************************)
EXTENDS Cio

CONSTANTS
  Codes,        \* scan codes the keyboard may send
  ReadLengths   \* arguments of the read system call

ASSUME ConsoleAssumption ==
  /\ Codes \subseteq 0..255
  /\ ReadLengths \subseteq Nat \ {0}

VARIABLES
  kbd,     \* the keyboard's state
  due,     \* the characters typed, while there was room, and not yet read
  user,    \* the program in cio_getchar: it tests the buffer, or takes
  sys,     \* the read system call
  raced    \* a character was taken from an empty buffer

kvars == <<kbd, due, user, sys, raced>>

Idle == [state |-> "idle", len |-> 0, got |-> <<>>, enough |-> FALSE, eot |-> FALSE]

KInit ==
  /\ kbd = KeyboardInit /\ due = <<>> /\ user = "test" /\ sys = Idle /\ raced = FALSE

Modifiers == {L_SHIFT_DN, R_SHIFT_DN, L_CTRL_DN}

(* A code arrives.  Its character, if it has one, is due if it was typed   *)
(* while there was room for it.                                            *)
Key(code) ==
  /\ kbd' = input_scan_code(kbd, code)
  /\ due' = IF code < 128 /\ code \notin Modifiers /\ Len(due) < C_BUFSIZE - 1
            THEN Append(due, KeyOf(kbd, code)) ELSE due

(* keyboard_isr: not while the kernel runs.                                *)
keyboard_isr ==
  \E code \in Codes :
    /\ sys.state # "gets" /\ ~raced
    /\ Key(code) /\ UNCHANGED <<user, sys, raced>>

(* cio_getchar called by a user program, interrupts enabled: the loop that *)
(* tests the buffer ends, and then the character is taken.  What a program *)
(* gets that takes from an empty buffer is not modelled further.           *)
GetcharTest ==
  /\ sys.state # "gets" /\ ~raced /\ user = "test" /\ cio_kbhit(kbd)
  /\ user' = "take" /\ UNCHANGED <<kbd, due, sys, raced>>
GetcharTake ==
  /\ sys.state # "gets" /\ ~raced /\ user = "take"
  /\ raced' = ~cio_kbhit(kbd)
  /\ kbd' = Taken(kbd) /\ user' = "test"
  /\ due' = IF due = <<>> THEN due ELSE Tail(due)
  /\ UNCHANGED sys

(* sys_read on CHAN_CIO: cio_gets if more than one character waits.        *)
(* `enough' records whether they make a line or fill the caller's buffer.  *)
sys_read ==
  \E len \in ReadLengths :
    /\ sys.state # "gets" /\ ~raced
    /\ sys' = IF cio_input_queue(kbd) > 1
              THEN [Idle EXCEPT !.state = "gets", !.len = len,
                      !.enough = (len = 1 \/ \E i \in DOMAIN due :
                                    due[i] \in {EOT, NEWLINE} \/ i = len - 1)]
              ELSE Idle
    /\ UNCHANGED <<kbd, due, user, raced>>

(* The loop of cio_gets ends: one place is kept for the NUL.               *)
GetsDone(s) ==
  \/ Len(s.got) + 1 >= s.len
  \/ s.eot \/ (s.got # <<>> /\ s.got[Len(s.got)] = NEWLINE)

(* Its cio_getchar, interrupts disabled: a character that waits,           *)
GetsTake ==
  /\ sys.state = "gets" /\ ~GetsDone(sys) /\ cio_kbhit(kbd)
  /\ LET c == NextChar(kbd) IN
     sys' = IF c = EOT THEN [sys EXCEPT !.eot = TRUE] ELSE [sys EXCEPT !.got = Append(@, c)]
  /\ kbd' = Taken(kbd) /\ due' = Tail(due)
  /\ UNCHANGED <<user, raced>>

(* or the keyboard is polled and the whole system waits for a key.         *)
GetsPoll ==
  \E code \in Codes :
    /\ sys.state = "gets" /\ ~GetsDone(sys) /\ ~cio_kbhit(kbd)
    /\ Key(code) /\ UNCHANGED <<user, sys, raced>>

GetsReturn ==
  /\ sys.state = "gets" /\ GetsDone(sys)
  /\ sys' = [sys EXCEPT !.state = "done"]
  /\ UNCHANGED <<kbd, due, user, raced>>

-----------------------------------------------------------------------------
(* The place of the i-th character that waits.                             *)
Place(k, i) ==
  LET p == k.next_char + i - 1 IN IF p >= C_BUFSIZE THEN p - C_BUFSIZE ELSE p

(* The circular buffer holds the characters typed and not yet read, in     *)
(* order, full when all places but one are taken, whoever reads them,      *)
(* until a program takes a character that a read got after its test.       *)
KeysInOrder ==
  ~raced =>
    /\ cio_input_queue(kbd) = Len(due)
    /\ \A i \in 1..Len(due) :
         kbd.buf[Place(kbd, i)] = due[i]

(* A read of the console gives a line, or as much of it as fits beside the *)
(* NUL; it waits for the keyboard only if no line and not enough           *)
(* characters were there.                                                  *)
ReadGetsLine ==
  /\ sys.state = "done" =>
       /\ Len(sys.got) < sys.len
       /\ \A i \in 1..Len(sys.got)-1 : sys.got[i] # NEWLINE
       /\ \/ sys.eot \/ Len(sys.got) + 1 = sys.len
          \/ sys.got # <<>> /\ sys.got[Len(sys.got)] = NEWLINE
  /\ sys.state = "gets" /\ sys.enough => GetsDone(sys) \/ cio_kbhit(kbd)
=============================================================================
