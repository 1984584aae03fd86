------------------------------- MODULE MCSio -------------------------------
(***************************************************************************)
(* The serial port with a history variable.  Two things sio.c does put     *)
(* output out of order, and `garbled' records that one of them happened:   *)
(* sio_write of a text that begins with LF while nothing is being sent,    *)
(* and sio_writec into a full output buffer.                               *)
(***************************************************************************)
EXTENDS Sio

VARIABLES garbled, side

hvars == <<svars, garbled, side>>

(* Input and output share no variable, so the behaviours of one half of    *)
(* the port are checked while the other half rests.                        *)
HInit ==
  /\ SInit /\ garbled = FALSE
  /\ side \in {"in", "out"} /\ (txie => side = "out")

Input == side = "in" /\ (ReceiveInterrupt \/ Read \/ Undefined)

Output == side = "out" /\ (Write \/ Transmitted \/ TransmitInterrupt \/ Undefined)

HNext ==
  /\ \/ /\ side = "out" /\ WriteLF
        /\ garbled' = (garbled \/ ~sending)
     \/ /\ side = "out" /\ sio_writec
        /\ garbled' = (garbled \/ (sending /\ out.count >= BUF_SIZE))
     \/ (Input \/ Output) /\ UNCHANGED garbled
  /\ UNCHANGED side

HSpec ==
  /\ HInit /\ [][HNext]_hvars
  /\ WF_svars(Transmitted) /\ WF_svars(TransmitInterrupt)

-----------------------------------------------------------------------------
(* The input buffer is a FIFO: what is in it is what was received and not  *)
(* yet read, in order, whether processes read from the buffer or are       *)
(* served by the interrupt, until a character is stored past its end.      *)
InputInOrder ==
  ~stray =>
    /\ received = Plus(read, in.count)
    /\ \A i \in 0..in.count-1 : in.buf[in.next + i] = Plus(read, i)

(* So is the output: every character is sent once, in the order written,   *)
(* across the wrap of outlast and outnext, until the output is garbled.    *)
OutputInOrder ==
  ~stray /\ ~garbled =>
    /\ written = Plus(sent, out.count)
    /\ \A i \in 0..out.count-1 :
         out.buf[(out.next + i) % BUF_SIZE] = Plus(sent, i)

(* What is in the output buffer will be sent: a transmit sequence is under *)
(* way, its interrupt is enabled; and a sequence is begun only when the    *)
(* transmitter is empty, so that no character is overwritten there.        *)
PumpPrimed ==
  ~stray => /\ out.count > 0 => sending
            /\ sending => txie
            /\ busy => sending

(* A character in the output buffer does not stay there for ever.          *)
OutputProgress ==
  \A x \in 0..Numbers-1 :
    (sent = x /\ out.count > 0) ~> (sent # x \/ stray \/ garbled)

=============================================================================
