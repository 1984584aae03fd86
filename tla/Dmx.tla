-------------------------------- MODULE Dmx --------------------------------
(***************************************************************************)
(* dmx.c: dmx_write builds the bits of all the frames of one packet and    *)
(* writes them to the data register of the port in chunks of eight, the    *)
(* earliest bit lowest.                                                    *)
(*                                                                         *)
(* The model ends at the register.  What the line carries is another       *)
(* matter: sio.c sets the port to eight data bits, no parity and one stop  *)
(* bit, so that the UART puts a start and a stop bit of its own around     *)
(* each chunk, and dmx_write does not test whether the transmitter has     *)
(* taken one chunk before it writes the next.                              *)
(***************************************************************************)
EXTENDS Integers, Sequences

CONSTANTS DMX_SLOTS,             \* 32 in the code
          DMX_FRAME_DATA_SIZE    \* 3: bits of a data byte that are sent

ASSUME DmxAssumption ==
  /\ DMX_SLOTS \in Nat \ {0} /\ DMX_FRAME_DATA_SIZE \in Nat \ {0}
  /\ (DMX_SLOTS * (DMX_FRAME_DATA_SIZE + 2)) % 8 = 0

DMX_FRAME_SIZE == DMX_FRAME_DATA_SIZE + 2

(* "1100001" and its NUL, which sizeof counts.                             *)
StartCode == <<1, 1, 0, 0, 0, 0, 1, 0>>
DmxOffset == Len(StartCode)
BitsSize == DMX_SLOTS * DMX_FRAME_SIZE + DmxOffset

BitOf(v, n) == (v \div 2^n) % 2

(* Bit k of the frame of slot i.  The second stop bit of a slot is stored  *)
(* where the start bit of the next one is stored later.                    *)
FrameBit(data, i, k) ==
  CASE k = 0 -> 0
    [] k \in 1..DMX_FRAME_DATA_SIZE -> BitOf(data[i], k - 1)
    [] OTHER -> 1

(* The elements of bits[] that the stop bits of the last slot are stored   *)
(* in; the array ends at BitsSize - 1.                                     *)
LastStops ==
  LET base == DmxOffset + (DMX_SLOTS - 1) * DMX_FRAME_SIZE + 1
  IN {base + DMX_FRAME_DATA_SIZE, base + DMX_FRAME_DATA_SIZE + 1}

Bits(data) ==
  [n \in 0..BitsSize-1 |->
     IF n < DmxOffset THEN StartCode[n + 1]
     ELSE FrameBit(data, (n - DmxOffset) \div DMX_FRAME_SIZE,
                   (n - DmxOffset) % DMX_FRAME_SIZE)]

(* Mutant: the bits of a byte are not flipped.                             *)
Chunk_NotFlipped(bits, i) ==
  LET f[b \in 0..8] == IF b = 0 THEN 0 ELSE 2 * f[b - 1] + bits[8 * i + b - 1] IN f[8]

(* "for (int bit = 7; bit >= 0; bit--) byte = byte << 1 | bits[...]"       *)
Chunk(bits, i) ==
  LET f[b \in 0..8] == IF b = 0 THEN 0 ELSE 2 * f[b - 1] + bits[8 * i + 8 - b] IN f[8]

(* The bytes written to the data register, in this order: two zeroes for   *)
(* the break, then the chunks.                                             *)
dmx_write(data) ==
  [n \in 1..BitsSize \div 8 + 2 |-> IF n <= 2 THEN 0 ELSE Chunk(Bits(data), n - 3)]
=============================================================================
