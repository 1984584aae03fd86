----------------------------- MODULE MCLibrary -----------------------------
(***************************************************************************)
(* The functions of both libraries, the stack of a new program, the DMX    *)
(* and Ethernet frames and the drawing routines, called with small         *)
(* arguments and compared with what they are for.  `call' is the call      *)
(* being looked at.                                                        *)
(***************************************************************************)
EXTENDS Ulibc, UserStack, Dmx, Vga, Net, FiniteSets

CONSTANTS
  MemSize,      \* bytes of memory for the copying functions
  MaxString,    \* the longest strings
  Letters,      \* the characters of strings
  MaxRadius,    \* circles
  Reach         \* lines and rectangles go this far outside the screen

VARIABLE call

Strings == UNION {[1..n -> Letters] : n \in 0..MaxString}

(* Numbers around the powers of ten and the ends of int32_t.               *)
Numerals ==
  {INT_MIN, INT_MIN + 1, INT_MAX, -1, -9, -10, -11, 214748364, 2147483640}
    \cup {0, 1, 7, 8, 9, 10, 11, 99, 100, 101, 999, 1000, 65536, 1000000000}

(* 32-bit values: one run of ones anywhere, and its complement.            *)
BitStrings ==
  {[i \in 1..32 |-> IF i \in a..b THEN 1 ELSE 0] : a, b \in 1..33}
    \cup {[i \in 1..32 |-> IF i \in a..b THEN 0 ELSE 1] : a, b \in 1..32}

(* A format of one directive between two plain characters, and its value.  *)
Directives ==
  [leftadjust : BOOLEAN, zero : BOOLEAN, width : {0, 3, 12}, code : {99, 100, 115, 117}]

Values(code) ==
  CASE code = 99 -> {65}
    [] code = 100 -> {0, -7, 1234, INT_MIN}
    [] code = 115 -> {<<>>, <<65, 66>>}
    [] code = 117 -> {[q |-> 0, r |-> 5], [q |-> 429496729, r |-> 5]}

Rendered(d) ==
  <<65, PERCENT>> \o (IF d.leftadjust THEN <<MINUS>> ELSE <<>>)
    \o (IF d.zero THEN <<ZERO>> ELSE <<>>)
    \o (IF d.width = 0 THEN <<>> ELSE cvtdec(d.width)) \o <<d.code, 66>>

Xs == -Reach..VGA_WIDTH+Reach-1
Ys == -Reach..VGA_HEIGHT+Reach-1

LInit == call = [fn |-> "none"]

CallMove ==
  \E dst, src \in 0..MemSize-1 : \E len \in 0..MemSize :
    /\ dst + len <= MemSize /\ src + len <= MemSize
    /\ call' = [fn |-> "move", dst |-> dst, src |-> src, len |-> len]
CallStrings == \E s, t \in Strings : call' = [fn |-> "strings", s |-> s, t |-> t]
CallDec == \E v \in Numerals : call' = [fn |-> "dec", value |-> v]
CallBits == \E b \in BitStrings : call' = [fn |-> "bits", bits |-> b]
CallFormat ==
  \E d \in Directives : \E v \in Values(d.code) :
    call' = [fn |-> "format", d |-> d, value |-> v]
CallStack ==
  \E n \in 0..N_ARGS+1 : \E lens \in [1..n -> {0, 1, 2, 5, SZ_PAGE - 2}] :
    call' = [fn |-> "stack", args |-> [i \in 1..n |-> [j \in 1..lens[i] |-> 64 + i]]]
CallDmx ==
  \E data \in [0..DMX_SLOTS-1 -> {0, 6, 255}] : call' = [fn |-> "dmx", data |-> data]
CallLine ==
  \E x0, x1 \in Xs : \E y0, y1 \in Ys :
    call' = [fn |-> "line", x0 |-> x0, y0 |-> y0, x1 |-> x1, y1 |-> y1]
CallCircle == \E r \in 0..MaxRadius : call' = [fn |-> "circle", r |-> r]
CallRect ==
  \E x \in Xs : \E y \in Ys : \E w \in 0..VGA_WIDTH+1 : \E h \in 0..VGA_HEIGHT+1 :
    \E filled \in BOOLEAN :
      call' = [fn |-> "rect", x |-> x, y |-> y, w |-> w, h |-> h, filled |-> filled]
CallText ==
  \E str \in UNION {[1..n -> Letters \cup {10}] : n \in 0..MaxString+1} :
    \E x \in 0..VGA_WIDTH-1 : call' = [fn |-> "text", str |-> str, x |-> x]
CallNet ==
  \E n \in 0..UDP_MAX_PAYLOAD+2 : \E k \in {0, 1, 37, 255} :
    call' = [fn |-> "net", message |-> [i \in 1..n |-> (i * k) % 256]]
CallMac ==
  \E eeprom \in BOOLEAN : \E done \in SUBSET (1..3) :
    \E words \in [1..3 -> {<<0, 0>>, <<255, 255>>, <<1, 2>>}] :
      call' = [fn |-> "mac", eeprom |-> eeprom, done |-> done, words |-> words]

Called ==
  \/ CallMove \/ CallStrings \/ CallDec \/ CallBits \/ CallFormat \/ CallStack
  \/ CallDmx \/ CallLine \/ CallCircle \/ CallRect \/ CallText \/ CallNet \/ CallMac

LNext ==
  \/ call.fn = "none" /\ Called
  \/ call.fn # "none" /\ call' = [fn |-> "none"]

LSpec == LInit /\ [][LNext]_call

-----------------------------------------------------------------------------
(* memmove and blkmov "deal with overlapping buffers": the destination     *)
(* gets what the source held before, nothing else changes, whichever way   *)
(* the copy runs and whether by bytes or by words.  memcpy does so unless  *)
(* the destination begins inside the source.                               *)
MovesOverlap ==
  call.fn = "move" =>
    LET m == [a \in 0..MemSize-1 |-> a]
        moved == [a \in DOMAIN m |-> IF a \in call.dst..call.dst+call.len-1
                                     THEN m[call.src + a - call.dst] ELSE m[a]]
    IN /\ memmove(m, call.dst, call.src, call.len) = moved
       /\ ublkmov(m, call.dst, call.src, call.len) = moved
       /\ umemcpy(m, call.dst, call.src, call.len) = moved
            <=> call.dst \notin call.src+1..call.src+call.len-1

(* The string at p.                                                        *)
StringAt(m, p) == [i \in 1..strlen(m, p) |-> m[p + i - 1]]

(* strcpy, strcat, strcmp and strlen on strings in memory do what copying, *)
(* concatenation, lexicographic order and length are on the strings, and   *)
(* store nothing outside the result.                                       *)
StringsRight ==
  call.fn = "strings" =>
    LET s == call.s
        t == call.t
        m == [a \in 0..49 |-> CASE a - 9 \in DOMAIN s -> s[a - 9]
                                [] a - 29 \in DOMAIN t -> t[a - 29]
                                [] OTHER -> IF a \in {10 + Len(s), 30 + Len(t)} THEN 0 ELSE 99]
        cat == strcat(m, 10, 30)
        differ == {i \in 1..Len(s) : i > Len(t) \/ s[i] # t[i]}
        at == CHOOSE i \in differ : \A j \in differ : i <= j
        cmp == ustrcmp(m, 10, 30)
    IN /\ StringAt(cat, 10) = s \o t
       /\ \A a \in 0..49 \ (10+Len(s)..10+Len(s)+Len(t)) : cat[a] = m[a]
       /\ StringAt(ustrcpy(m, 10, 30), 10) = t
       /\ (cmp = 0) <=> (s = t)
       /\ (cmp < 0) <=> IF differ = {} THEN Len(s) < Len(t)
                        ELSE at <= Len(t) /\ s[at] < t[at]

(* The magnitude of a numeral, negated so that it fits 32 bits.            *)
NegValue(digits) ==
  LET f[n \in 0..Len(digits)] ==
        IF n = 0 THEN 0 ELSE 10 * f[n - 1] - (digits[n] - ZERO)
  IN f[Len(digits)]

(* cvtdec writes the shortest numeral of every int32_t, INT_MIN included,  *)
(* and fits the 12 bytes of sprint's buffer; cvtuns continues it above     *)
(* INT_MAX; str2int reads it back, and itoa, an independent                *)
(* implementation, writes the same for every value but INT_MIN.            *)
NumbersRoundTrip ==
  call.fn = "dec" =>
    LET v == call.value
        text == cvtdec(v)
        digits == IF v < 0 THEN Tail(text) ELSE text
    IN /\ \A i \in DOMAIN digits : digits[i] \in ZERO..NINE
       /\ NegValue(digits) = IF v < 0 THEN v ELSE -v
       /\ v < 0 => text[1] = MINUS
       /\ Len(digits) > 1 => digits[1] # ZERO
       /\ Len(text) + 1 <= 12
       /\ v # INT_MIN => str2int(text, 10) = v /\ itoa(v, 10) = text
       /\ v \in 0..429496729 =>
            ucvtuns([q |-> v, r |-> 5])
              = IF v = 0 THEN <<ZERO + 5>> ELSE text \o <<ZERO + 5>>

(* The number a hexadecimal or octal character stands for, as bits.        *)
DigitBits(c, width) ==
  LET d == IF c > NINE THEN c - 55 ELSE c - ZERO
  IN [i \in 1..width |-> (d \div 2^(width - i)) % 2]

(* The bits of a numeral, w to a digit.                                    *)
NumeralBits(text, w) ==
  [i \in 1..w * Len(text) |->
     DigitBits(text[(i - 1) \div w + 1], w)[((i - 1) % w) + 1]]

(* cvthex and cvtoct write each bit of a 32-bit value in its place,        *)
(* "minimal-length", that is without leading zeroes, and fit the 12 bytes  *)
(* of sprint's buffer.  cvtbin, which sprint does not use, always writes   *)
(* all 32 bits.                                                            *)
DigitsRight ==
  call.fn = "bits" =>
    LET Same(text, w) ==
          LET b == NumeralBits(text, w)
              off == Len(b) - 32
          IN /\ \A i \in 1..32 : call.bits[i] = IF i + off < 1 THEN 0 ELSE b[i + off]
             /\ \A i \in 1..off : b[i] = 0
             /\ Len(text) > 1 => text[1] # ZERO
             /\ Len(text) + 1 <= 12
    IN /\ Same(cvthex(call.bits), 4)
       /\ Same(ucvtoct(call.bits), 3)
       /\ Len(cvtbin(call.bits)) = 32
       /\ NumeralBits(cvtbin(call.bits), 1) = call.bits

(* What C prescribes for a directive: blanks on the right if the text is   *)
(* left-adjusted, whether or not zeroes are asked for; else zeroes between *)
(* sign and digits if they are asked for, or blanks on the left.  (C says  *)
(* nothing of zeroes with %c and %s.)                                      *)
CField(d, text) ==
  LET fill == IF Len(text) > d.width THEN 0 ELSE d.width - Len(text)
      Run(c) == [i \in 1..fill |-> c]
  IN IF d.leftadjust THEN text \o Run(SPACE)
     ELSE IF ~d.zero THEN Run(SPACE) \o text
     ELSE IF Len(text) > 0 /\ text[1] = MINUS THEN <<MINUS>> \o Run(ZERO) \o Tail(text)
     ELSE Run(ZERO) \o text

(* Where sprint differs from C: it pads with zeroes on the right too       *)
(* (%-012d), and before the sign of a negative number (%03d of -7 gives    *)
(* 0-7).                                                                   *)
PadsUnlikeC(d, text) ==
  /\ d.zero /\ Len(text) < d.width
  /\ d.leftadjust \/ (d.code = 100 /\ text[1] = MINUS)

(* sprint prints a directive as C's printf does, except for exactly the    *)
(* two uses of zeroes above, where it still fills up the width and leaves  *)
(* the text whole at the side asked for; and it goes on after the          *)
(* directive.                                                              *)
FormatsKnown ==
  call.fn = "format" =>
    LET d == call.d
        text == Converted(d.code, call.value)
        out == usprint(Rendered(d), <<call.value>>)
        body == SubSeq(out, 2, Len(out) - 1)
    IN /\ out[1] = 65 /\ out[Len(out)] = 66
       /\ body = CField(d, text) <=> ~PadsUnlikeC(d, text)
       /\ PadsUnlikeC(d, text) =>
            /\ Len(body) = d.width
            /\ \A i \in DOMAIN body :
                 IF d.leftadjust THEN body[i] = IF i <= Len(text) THEN text[i] ELSE ZERO
                 ELSE LET from == d.width - Len(text)
                      IN body[i] = IF i > from THEN text[i - from] ELSE ZERO

(* A new program finds its arguments: at its entry the stack holds the     *)
(* return address, argc at a multiple of 16, argv, the vector with its     *)
(* NULL and every string whole; the strings are those that fit one page.   *)
(* Nothing overlaps anything else and all of it is inside the stack.       *)
ProgramSeesArgs ==
  call.fn = "stack" /\ ~ArraysOverrun(call.args) =>
    LET s == stack_setup(call.args)
        esp == s.context + SZ_CONTEXT
        argc == s.mem[esp + 4]
        argv == s.mem[esp + 8]
    IN /\ s.context >= 0
       /\ \A a \in s.context..esp-1 : s.mem[a] = CONTEXT
       /\ s.mem[esp] = FAKE_EXIT
       /\ (esp + 4) % 16 = 0
       /\ argc \in 0..Len(call.args)
       /\ argc < Len(call.args) => Offset(call.args, argc + 1) > SZ_PAGE
       /\ argv = esp + 12
       /\ \A i \in 1..argc :
            LET p == s.mem[argv + 4 * (i - 1)]
                n == Len(call.args[i])
            IN /\ p \in argv + 4 * (argc + 1)..SZ_USTACK - 5
               /\ \A j \in 1..n : s.mem[p + j - 1] = call.args[i][j]
               /\ s.mem[p + n] = 0
       /\ s.mem[argv + 4 * argc] = 0
       /\ s.mem[SZ_USTACK - 4] = 0

(* doc/dmx.txt says that frames are assembled by padding the data with     *)
(* start and stop bits.  They are, in memory: the bytes dmx_write hands to *)
(* the port, strung together lowest bit first, hold after the start code   *)
(* one frame per slot: a start bit, the low data bits lowest first and a   *)
(* stop bit; the chunks cut nothing off the last one.  This is the packet  *)
(* in the driver's buffer; no claim is made about the line (see Dmx).      *)
DmxPacked ==
  call.fn = "dmx" =>
    LET written == dmx_write(call.data)
        Packed(n) == BitOf(written[n \div 8 + 3], n % 8)
    IN \A i \in 0..DMX_SLOTS-1 :
         LET frame == DmxOffset + i * DMX_FRAME_SIZE
         IN /\ Packed(frame) = 0
            /\ \A b \in 1..DMX_FRAME_DATA_SIZE : Packed(frame + b) = BitOf(call.data[i], b - 1)
            /\ Packed(frame + DMX_FRAME_SIZE - 1) = 1

(* vga_draw_line reaches its end point, one pixel per step along its       *)
(* longer side, never more than half a pixel from the ideal line.          *)
LinesStraight ==
  call.fn = "line" =>
    LET c == call
        l == LinePixels(c.x0, c.y0, c.x1, c.y1, 2 * (VGA_WIDTH + VGA_HEIGHT))
        dx == c.x1 - c.x0
        dy == c.y1 - c.y0
        side == IF vga_abs(dx) > vga_abs(dy) THEN vga_abs(dx) ELSE vga_abs(dy)
    IN /\ Len(l) = side + 1
       /\ l[Len(l)] = <<c.x1, c.y1>>
       /\ \A n \in 1..Len(l)-1 : /\ vga_abs(l[n+1][1] - l[n][1]) <= 1
                                 /\ vga_abs(l[n+1][2] - l[n][2]) <= 1
       /\ \A n \in DOMAIN l :
            2 * vga_abs(dy * (l[n][1] - c.x0) - dx * (l[n][2] - c.y0)) <= side

(* vga_draw_circle's outline stays within a pixel and a quarter of the     *)
(* ideal circle and has no gap; filled, it has no hole and that outline.   *)
CirclesRound ==
  call.fn = "circle" =>
    LET r == call.r
        outline == vga_draw_circle(r, FALSE)
        disc == vga_draw_circle(r, TRUE)
    IN /\ \A p \in outline :
            LET d2 == p[1]*p[1] + p[2]*p[2]
            IN 16 * d2 <= (4*r + 5) * (4*r + 5) /\ (r > 1 => 16 * d2 >= (4*r - 5) * (4*r - 5))
       /\ r > 0 => \A p \in outline :
            Cardinality({q \in outline : q # p /\ vga_abs(q[1] - p[1]) <= 1
                                         /\ vga_abs(q[2] - p[2]) <= 1}) >= 2
       /\ outline \subseteq disc
       /\ \A y \in -r..r : \A x \in -r..r :
            <<x, y>> \in disc <=> \E p \in outline : p[2] = y /\ vga_abs(x) <= p[1]

(* A rectangle drawn into the back buffer, which tests the bounds itself,  *)
(* is the rectangle vga_draw_rect draws, and stays inside the buffer.      *)
RectsAgree ==
  call.fn = "rect" =>
    LET buf == vga_draw_rect_buf(call.x, call.y, call.w, call.h, call.filled)
    IN buf = vga_draw_rect(call.x, call.y, call.w, call.h, call.filled) \cap Screen

(* Two glyphs; the font's are not modelled.                                *)
font8x8 == [c \in Letters |-> IF c = 97 THEN {<<0, 0>>, <<1, 0>>, <<1, 1>>} ELSE {<<0, 1>>}]

(* vga_draw_string keeps every glyph inside the columns of the screen and  *)
(* off every other glyph, as long as its own margin leaves room for one;   *)
(* and a glyph is drawn as vga_blit draws the sprite of its pixels.        *)
TextOnScreen ==
  call.fn = "text" /\ call.x + GLYPH <= VGA_WIDTH =>
    LET s == call.str
        shown == {n \in DOMAIN s : s[n] # 10}
        at == Places(s, 10, call.x, 0)
        Box(n) == (at[n][1]..at[n][1]+GLYPH-1) \X (at[n][2]..at[n][2]+GLYPH-1)
        Sprite(c) == [q \in (0..GLYPH-1) \X (0..GLYPH-1) |-> IF q \in font8x8[c] THEN 1 ELSE 0]
        pics[n \in 0..Len(s)] ==
          IF n = 0 THEN vga_clear(0)
          ELSE IF n \notin shown THEN pics[n-1]
          ELSE vga_blit(pics[n-1], Sprite(s[n]), at[n][1], at[n][2], 0)
    IN /\ \A n \in shown : \A p \in Box(n) : p[1] \in call.x..VGA_WIDTH-1
       /\ \A n, k \in shown : n # k => Box(n) \cap Box(k) = {}
       /\ vga_put_pixel(vga_clear(0), vga_draw_string(s, 10, call.x, 0, font8x8), 1)
            = pics[Len(s)]

(* The number in two bytes, the first the high one.                        *)
Number(bytes, i) == 256 * bytes[i] + bytes[i + 1]

(* The three layers, put together with a buffer that is large enough, as   *)
(* networktests.c does, make a frame that carries the message: the lengths *)
(* of all three layers agree, no layer cuts off what the one above it has  *)
(* put into the packet, and the addresses and ports are where they belong. *)
(* A short packet is lengthened to the minimum, but not "zero-filled" as   *)
(* ethernet.c says: the padding is what the buffer held.  Told that the    *)
(* buffer is too small, eth_serialize builds nothing at all; so it is in   *)
(* net_transmit, which passes the size of a pointer (EthSize of Nic).      *)
FrameDecodes ==
  call.fn = "net" =>
    LET mac == <<0, 17, 34, 51, 68, 85>>
        held == [i \in 1..100 |-> i % 7]
        frame == Frame(call.message, mac, held, 100)
        packet == SubSeq(frame, ETH_HEADER_LEN + 1, ETH_HEADER_LEN + Number(frame, 17))
        datagram == SubSeq(packet, IPV4_HEADER_MIN_LEN + 1,
                           IPV4_HEADER_MIN_LEN + Number(packet, 25))
        kept == IF Len(call.message) > UDP_MAX_PAYLOAD THEN UDP_MAX_PAYLOAD ELSE Len(call.message)
    IN /\ SubSeq(frame, 1, 12) = DEST_MAC \o mac /\ Number(frame, 13) = ETH_TYPE_IPV4
       /\ Len(frame) = ETH_HEADER_LEN + (IF Len(packet) < ETH_MIN_PAYLOAD
                                         THEN ETH_MIN_PAYLOAD ELSE Len(packet))
       /\ Len(packet) <= ETH_MTU /\ packet[1] = 69 /\ packet[10] = IPV4_PROTO_UDP
       /\ SubSeq(packet, 13, 20) = SRC_IP \o DEST_IP
       /\ Len(packet) = IPV4_HEADER_MIN_LEN + Number(packet, 25)
       /\ Number(datagram, 1) = 10000 /\ Number(datagram, 3) = 11000
       /\ SubSeq(datagram, 9, Len(datagram)) = SubSeq(call.message, 1, kept)
       /\ \A i \in ETH_HEADER_LEN+Len(packet)+1..Len(frame) : frame[i] = held[i]
       /\ \A size \in 0..100 :
            Frame(call.message, mac, held, size) = IF size < Len(frame) THEN <<>> ELSE frame

(* The header with the bytes of its checksum exchanged.                    *)
Exchanged(header) ==
  [i \in 1..20 |-> header[CASE i = 11 -> 12 [] i = 12 -> 11 [] OTHER -> i]]

(* The checksum of the IPv4 header is not the one a receiver computes: the *)
(* words are summed as an x86 reads them and the sum is stored the other   *)
(* way round.  Exchanged back, the header sums up to 0xFFFF; as it is, it  *)
(* does so only if both bytes are the same.  Of the UDP checksum, which    *)
(* takes the addresses in host order, only this is claimed: it is never 0, *)
(* which would mean that there is none.                                    *)
ChecksumExchanged ==
  call.fn = "net" =>
    LET packet == Packet(call.message)
        header == SubSeq(packet, 1, 20)
    IN /\ Folded(WordSum(Exchanged(header))) = 65535
       /\ Folded(WordSum(header)) = 65535 <=> packet[11] = packet[12]
       /\ Number(packet, 27) # 0

(* The station's address is the one in the EEPROM or in the registers,     *)
(* with 0xFFFF for each word of the EEPROM that timed out, and never all   *)
(* zeros or all ones.                                                      *)
StationAddress ==
  call.fn = "mac" =>
    LET w == call.words
        mac == get_mac_addr(call.eeprom, w, call.done, w[1] \o w[2] \o w[3])
        Same(i) == <<mac[2*i - 1], mac[2*i]>> = IF call.eeprom /\ i \notin call.done
                                                THEN <<255, 255>> ELSE w[i]
    IN /\ \E i, j \in 1..6 : mac[i] # 0 /\ mac[j] # 255
       /\ mac = DEFAULT_MAC \/ \A i \in 1..3 : Same(i)
       /\ (\E i \in 1..3 : w[i] = <<1, 2>> /\ (call.eeprom => i \in call.done))
            => mac # DEFAULT_MAC

(* Both libraries copy memory and strings as their names say.              *)
MemoryRight == MovesOverlap /\ StringsRight

(* Numbers become the numerals of the same value, and these become the     *)
(* same numbers again; formatted, they differ from what C prints in the    *)
(* known cases only.                                                       *)
ConversionsKnown == NumbersRoundTrip /\ DigitsRight /\ FormatsKnown

(* Every drawing routine gives its shape, on the screen and in the back    *)
(* buffer.                                                                 *)
DrawingRight == LinesStraight /\ CirclesRound /\ RectsAgree /\ TextOnScreen

(* A frame carries the message, its lengths and the address of the         *)
(* station.  Where it is not what it should be, in its padding and in the  *)
(* bytes of the header checksum, the parts say how.                        *)
FramesKnown == FrameDecodes /\ ChecksumExchanged /\ StationAddress
=============================================================================
