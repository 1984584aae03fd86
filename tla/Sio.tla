-------------------------------- MODULE Sio --------------------------------
(***************************************************************************)
(* sio.c: the input and the output buffer of the serial port, the receive  *)
(* and transmit interrupts, and the calls that reach them: read and write  *)
(* on CHAN_SIO (syscalls.c) and the copy of the console (cio.c).           *)
(*                                                                         *)
(* The buffers are modelled with their pointers, as indices; index         *)
(* BUF_SIZE is the first byte after the buffer.  A store there sets        *)
(* `stray' and ends the behaviour: what it overwrites is not modelled.     *)
(* Characters are numbered in the order in which they must be delivered,   *)
(* modulo Numbers; what they are matters only where LF is mapped to CR LF. *)
(***************************************************************************)
EXTENDS Integers, Sequences

CONSTANTS
  BUF_SIZE,      \* 2048 in the code
  Numbers,       \* characters are numbered 0..Numbers-1, over and over
  Lengths,       \* lengths given to read and write
  MaxBurst,      \* characters one receive interrupt may deliver
  MaxReaders     \* processes blocked in read at the same time

ASSUME SioAssumption ==
  /\ BUF_SIZE \in Nat \ {0}
  /\ Numbers \in Nat /\ Numbers > BUF_SIZE + 4
  /\ Lengths \subseteq Nat
  /\ MaxBurst \in Nat /\ MaxReaders \in Nat

VARIABLES
  in,         \* the input buffer: [buf, last, next, count]
  out,        \* the output buffer: the same
  received,   \* number of the next character put into the input buffer
  read,       \* number of the next character a process will get
  written,    \* number of the next character given to sio.c to send
  sent,       \* number after that of the last character sent
  readers,    \* the lengths of the blocked reads, first come first
  sending,
  txie,       \* ier & UA4_IER_TX_IE
  busy,       \* the transmitter holds a character
  stray       \* a store went past the end of a buffer

insvars == <<in, received, read, readers>>
outvars == <<out, written, sent, sending, txie, busy>>
svars == <<insvars, outvars, stray>>

Plus(a, n) == (a + n) % Numbers
Least(a, b) == IF a < b THEN a ELSE b

Buffer(buf, last, next, count) ==
  [buf |-> buf, last |-> last, next |-> next, count |-> count]

Emptied(b) == Buffer(b.buf, 0, 0, 0)
Empty == Buffer([i \in 0..BUF_SIZE-1 |-> 0], 0, 0, 0)

(* After the boot's sio_flush: a console message printed before it has     *)
(* left the transmitter interrupt enabled.                                 *)
SInit ==
  /\ in = Empty /\ out = Empty
  /\ received = 0 /\ read = 0 /\ written = 0 /\ sent = 0
  /\ readers = <<>> /\ sending = FALSE /\ txie \in BOOLEAN /\ busy = FALSE
  /\ stray = FALSE

-----------------------------------------------------------------------------
(* Input.                                                                  *)

(* "*inlast++ = ch; ++incount;" for n characters.  inlast does not wrap.   *)
Store(b, n, number) ==
  Buffer([i \in 0..BUF_SIZE-1 |->
            IF i \in b.last..b.last+n-1 THEN Plus(number, i - b.last) ELSE b.buf[i]],
         b.last + n, b.next, b.count + n)

(* Mutant: only innext is reset when the buffer has been drained.          *)
Fetch_KeepLast(b, n) ==
  LET c == b.count - n IN
  IF c < 1 THEN Buffer(b.buf, b.last, 0, 0) ELSE Buffer(b.buf, b.last, b.next + n, c)

(* "*buf++ = *innext++; --incount;" n times, and the reset of the buffer   *)
(* variables once it is empty.                                             *)
Fetch(b, n) ==
  LET c == b.count - n IN
  IF c < 1 THEN Emptied(b) ELSE Buffer(b.buf, b.last, b.next + n, c)

(* sio_isr, UA4_IIR_RX: n characters are in the receiver.  The first       *)
(* blocked reader, if any, gets what it will accept.                       *)
ReceiveInterrupt ==
  \E n \in 1..MaxBurst :
    LET kept == Least(n, BUF_SIZE - in.count)
        full == Store(in, kept, received)
        num == Least(Head(readers), full.count)
    IN /\ ~stray
       /\ received' = Plus(received, kept)
       /\ stray' = (in.last + kept > BUF_SIZE)
       /\ IF readers = <<>>
          THEN in' = full /\ UNCHANGED <<read, readers>>
          ELSE /\ in' = Fetch(full, num)
               /\ read' = Plus(read, num)
               /\ readers' = Tail(readers)
       /\ UNCHANGED outvars

(* sys_read on CHAN_SIO: sio_read if there is input, else the process is   *)
(* blocked.                                                                *)
Read ==
  \E len \in Lengths \ {0} :
    /\ ~stray
    /\ IF in.count < 1
       THEN /\ Len(readers) < MaxReaders
            /\ readers' = Append(readers, len)
            /\ UNCHANGED <<in, read>>
       ELSE /\ in' = Fetch(in, Least(len, in.count))
            /\ read' = Plus(read, Least(len, in.count))
            /\ UNCHANGED readers
    /\ UNCHANGED <<received, stray, outvars>>

-----------------------------------------------------------------------------
(* Output.                                                                 *)

(* sio_writec of a character that is no LF, while sending: appended        *)
(* without a test for the end of the buffer or for a full one.             *)
Append1(b, number) ==
  Buffer([i \in 0..BUF_SIZE-1 |-> IF i = b.last THEN number ELSE b.buf[i]],
         b.last + 1, b.next, b.count + 1)

(* Mutant: the transmitter interrupt is not enabled.                       *)
Prime_NoInterrupt(number) ==
  sending' = TRUE /\ busy' = TRUE /\ sent' = Plus(number, 1) /\ UNCHANGED txie

(* ... and while not sending: "outb( UA4_TXD, ch ); sio_enable( SIO_TX )". *)
Prime(number) ==
  sending' = TRUE /\ busy' = TRUE /\ sent' = Plus(number, 1) /\ txie' = TRUE

(* putchar_at of a printable character (CIO_DUP2_SIO).                     *)
sio_writec ==
  /\ ~stray
  /\ written' = Plus(written, 1)
  /\ IF sending
     THEN /\ out' = Append1(out, written)
          /\ stray' = (out.last >= BUF_SIZE)
          /\ UNCHANGED <<sent, sending, txie, busy>>
     ELSE Prime(written) /\ UNCHANGED <<out, stray>>
  /\ UNCHANGED insvars

(* Mutant: outlast does not wrap.                                          *)
Wrapped_Not(i) == i

(* "if( outlast >= outbuffer + BUF_SIZE ) outlast = outbuffer"             *)
Wrapped(i) == IF i >= BUF_SIZE THEN 0 ELSE i

(* The copy loop of sio_write.                                             *)
Copied(b, n, number) ==
  LET at[i \in 0..n] ==
        IF i = 0 THEN b
        ELSE LET c == Append1(at[i - 1], Plus(number, i - 1))
             IN Buffer(c.buf, Wrapped(c.last), c.next, c.count)
  IN at[n]

(* sio_write of `length' characters, none of them LF if lf is FALSE, the   *)
(* first of them LF if lf is TRUE.  While not sending, the others are      *)
(* copied first and the first one, however long the text, is given to      *)
(* sio_writec; for an LF that sends CR and appends LF.                     *)
sio_write(length, lf) ==
  LET room == IF out.count < BUF_SIZE THEN BUF_SIZE - out.count ELSE 0
      n == IF sending THEN Least(length, room)
           ELSE Least(IF length < 1 THEN 0 ELSE length - 1, room)
      first == IF sending THEN 0 ELSE IF lf THEN 2 ELSE 1
      copied == Copied(out, n, Plus(written, first))
  IN /\ ~stray
     /\ written' = Plus(written, first + n)
     /\ IF sending THEN out' = copied /\ UNCHANGED <<sent, sending, txie, busy>>
        ELSE /\ Prime(written)
             /\ out' = IF lf THEN Append1(copied, Plus(written, 1)) ELSE copied
     /\ stray' = (n > 0 /\ out.last >= BUF_SIZE)
     /\ UNCHANGED insvars

(* sys_write on CHAN_SIO and putchar_at of a code that is not printable.   *)
Write == \E length \in Lengths : sio_write(length, FALSE)
WriteLF == \E length \in Lengths : sio_write(length, TRUE)

Transmitted == ~stray /\ busy /\ busy' = FALSE
               /\ UNCHANGED <<insvars, out, written, sent, sending, txie, stray>>

(* Mutant: "outcount > 1".                                                 *)
TransmitInterrupt_Early ==
  /\ ~stray /\ txie /\ ~busy
  /\ IF sending /\ out.count > 1
     THEN /\ busy' = TRUE
          /\ sent' = Plus(out.buf[out.next], 1)
          /\ out' = Buffer(out.buf, out.last, Wrapped(out.next + 1), out.count - 1)
          /\ UNCHANGED <<sending, txie>>
     ELSE /\ out' = Emptied(out)
          /\ sending' = FALSE
          /\ txie' = FALSE
          /\ UNCHANGED <<busy, sent>>
  /\ UNCHANGED <<written, insvars, stray>>

(* sio_isr, UA4_IIR_TX.                                                    *)
TransmitInterrupt ==
  /\ ~stray /\ txie /\ ~busy
  /\ IF sending /\ out.count > 0
     THEN /\ busy' = TRUE
          /\ sent' = Plus(out.buf[out.next], 1)
          /\ out' = Buffer(out.buf, out.last, Wrapped(out.next + 1), out.count - 1)
          /\ UNCHANGED <<sending, txie>>
     ELSE /\ out' = Emptied(out)
          /\ sending' = FALSE
          /\ txie' = FALSE
          /\ UNCHANGED <<busy, sent>>
  /\ UNCHANGED <<written, insvars, stray>>

(* What a store outside the buffers overwrites is not modelled.            *)
Undefined == stray /\ UNCHANGED svars

SNext ==
  \/ ReceiveInterrupt \/ Read \/ sio_writec \/ Write \/ WriteLF
  \/ Transmitted \/ TransmitInterrupt \/ Undefined

SSpec == SInit /\ [][SNext]_svars

(* The transmitter finishes, and its interrupt is taken.                   *)
SFairSpec == SSpec /\ WF_svars(Transmitted) /\ WF_svars(TransmitInterrupt)
=============================================================================
