------------------------------- MODULE Klibc -------------------------------
(***************************************************************************)
(* klibc.c: the memory, string, conversion and formatting functions of the *)
(* kernel, and itoa.c.                                                     *)
(*                                                                         *)
(* Memory is a function from addresses to bytes, a pointer an address, a   *)
(* character its ASCII code.  A function that appends to a buffer, or      *)
(* fills it from the start, gives the sequence of characters stored there, *)
(* its NUL left out.  Signed values are 32 bits wide, like the integers of *)
(* TLC; an unsigned value is given by its bits, or by its quotient and     *)
(* remainder where the code divides it by 10.                              *)
(***************************************************************************)
EXTENDS Integers, Sequences

NUL == 0
MINUS == 45
PERCENT == 37
ZERO == 48      \* '0'
NINE == 57      \* '9'
SPACE == 32

INT_MAX == 2147483647
INT_MIN == -2147483647 - 1

bound(min, value, max) ==
  LET v == IF value < min THEN min ELSE value
  IN IF v > max THEN max ELSE v

-----------------------------------------------------------------------------
(* Memory.  w bytes are moved by one assignment: 1 or sizeof(uint32_t).    *)

Assign(m, dst, src, w) ==
  [a \in DOMAIN m |-> IF a \in dst..dst+w-1 THEN m[src + a - dst] ELSE m[a]]

(* "while( len-- ) *dest++ = *source++;"                                   *)
CopyUp(m, dst, src, len, w) ==
  LET f[i \in 0..len] ==
        IF i = 0 THEN m ELSE Assign(f[i-1], dst + (i-1)*w, src + (i-1)*w, w)
  IN f[len]

(* "while( len-- > 0 ) *--dest = *--source;" from the ends of both.        *)
CopyDown(m, dst, src, len, w) ==
  LET f[i \in 0..len] ==
        IF i = 0 THEN m ELSE Assign(f[i-1], dst + (len-i)*w, src + (len-i)*w, w)
  IN f[len]

memcpy(m, dst, src, len) == CopyUp(m, dst, src, len, 1)

(* Mutant: the overlap is tested the wrong way round.                      *)
Move_Swapped(m, dst, src, len, w) ==
  IF dst < src /\ dst + len * w > src
  THEN CopyDown(m, dst, src, len, w) ELSE CopyUp(m, dst, src, len, w)

(* The direction memmove and blkmov choose.                                *)
Move(m, dst, src, len, w) ==
  IF src < dst /\ src + len * w > dst
  THEN CopyDown(m, dst, src, len, w) ELSE CopyUp(m, dst, src, len, w)

memmove(m, dst, src, len) == Move(m, dst, src, len, 1)

blkmov(m, dst, src, len) ==
  IF dst % 4 # 0 \/ src % 4 # 0 \/ len % 4 # 0
  THEN memmove(m, dst, src, len)
  ELSE Move(m, dst, src, len \div 4, 4)

memset(m, buf, len, value) ==
  [a \in DOMAIN m |-> IF a \in buf..buf+len-1 THEN value ELSE m[a]]

memclr(m, buf, len) == [a \in DOMAIN m |-> IF a \in buf..buf+len-1 THEN 0 ELSE m[a]]

-----------------------------------------------------------------------------
(* NUL-terminated strings in memory.                                       *)

strlen(m, str) ==
  LET f[a \in DOMAIN m] == IF m[a] = NUL THEN 0 ELSE 1 + f[a + 1] IN f[str]

(* Byte by byte, up to and with the NUL.                                   *)
strcpy(m, dst, src) ==
  LET Ends(i) == CopyUp(m, dst, src, i + 1, 1)[dst + i] = NUL
      n == CHOOSE i \in DOMAIN m : Ends(i) /\ \A j \in 0..i-1 : ~Ends(j)
  IN CopyUp(m, dst, src, n + 1, 1)

strcat(m, dst, src) == strcpy(m, dst + strlen(m, dst), src)

strcmp(m, s1, s2) ==
  LET f[i \in Nat] ==
        IF m[s1 + i] # NUL /\ m[s1 + i] = m[s2 + i] THEN f[i + 1]
        ELSE m[s1 + i] - m[s2 + i]
  IN f[0]

-----------------------------------------------------------------------------
(* Numbers to strings.                                                     *)

(* -value and value / 10 of int32_t.                                       *)
Negated(v) == IF v = INT_MIN THEN INT_MIN ELSE -v
Quotient(v, base) == IF v < 0 THEN (v + base - 1) \div base ELSE v \div base
Remainder(v, base) == v - base * Quotient(v, base)

(* Mutant: INT_MIN, which -value leaves negative, is not treated.          *)
cvtdec0_NoMin(value) ==
  LET f[v \in Int] ==
        LET q == Quotient(v, 10)
        IN (IF q # 0 THEN f[q] ELSE <<>>) \o <<Remainder(v, 10) + ZERO>>
  IN f[value]

cvtdec0(value) ==
  LET f[v \in Int] ==
        LET q == Quotient(v, 10)
            quotient == IF q < 0 THEN 214748364 ELSE q
            digit == IF q < 0 THEN 8 ELSE Remainder(v, 10)
        IN (IF quotient # 0 THEN f[quotient] ELSE <<>>) \o <<digit + ZERO>>
  IN f[value]

cvtdec(value) ==
  IF value < 0 THEN <<MINUS>> \o cvtdec0(Negated(value)) ELSE cvtdec0(value)

(* The value is 10 * u.q + u.r.  The quotient goes to cvtdec0.             *)
cvtuns0(u) == (IF u.q # 0 THEN cvtdec0(u.q) ELSE <<>>) \o <<u.r + ZERO>>
cvtuns(u) == cvtuns0(u)

(* The number in bits i..j of a value, bit 1 the most significant.         *)
Field(bits, i, j) ==
  LET f[k \in i-1..j] == IF k < i THEN 0 ELSE 2 * f[k - 1] + bits[k] IN f[j]

(* Digits are stored from the first that is not 0; the last one always.    *)
Minimal(digits) ==
  LET stored == {i \in DOMAIN digits :
                   i = Len(digits) \/ \E j \in 1..i : digits[j] # 0}
  IN SubSeq(digits, CHOOSE i \in stored : \A j \in stored : i <= j, Len(digits))

HexDigit(d) == IF d < 10 THEN d + ZERO ELSE d + 55

cvthex(bits) ==
  LET min == Minimal([i \in 1..8 |-> Field(bits, 4*i - 3, 4*i)])
  IN [i \in DOMAIN min |-> HexDigit(min[i])]

(* The top digit has two bits, the other ten have three.                   *)
cvtoct(bits) ==
  LET min == Minimal([i \in 1..11 |-> IF i = 1 THEN Field(bits, 1, 2)
                                      ELSE Field(bits, 3*i - 3, 3*i - 1)])
  IN [i \in DOMAIN min |-> min[i] + ZERO]

cvtbin(bits) == [i \in 1..32 |-> bits[i] + ZERO]

(* itoa.c: the digits are stored last one first, then '-', and reversed.   *)
(* Only base 10 has a sign: other digits of a negative number are stored   *)
(* as "rem + '0'" with a negative remainder.                               *)
itoa(num, base) ==
  LET negative == num < 0 /\ base = 10
      Digit(rem) == IF rem > 9 THEN rem - 10 + 97 ELSE rem + ZERO
      f[v \in Int] ==
        IF v = 0 THEN <<>>
        ELSE <<Digit(Remainder(v, base))>> \o f[Quotient(v, base)]
      stored == f[IF negative THEN Negated(num) ELSE num]
                  \o IF negative THEN <<MINUS>> ELSE <<>>
  IN IF num = 0 THEN <<ZERO>>
     ELSE [i \in DOMAIN stored |-> stored[Len(stored) + 1 - i]]

-----------------------------------------------------------------------------
(* Strings to numbers.                                                     *)

(* The digits are ZERO..bchar: for a base over 10 these are the characters *)
(* that follow '9' in ASCII, no letters.                                   *)
str2int(str, base) ==
  LET sign == IF str # <<>> /\ str[1] = MINUS THEN -1 ELSE 1
      from == IF sign = -1 THEN 2 ELSE 1
      bchar == IF base = 10 THEN NINE ELSE ZERO + base - 1
      digit == {i \in from..Len(str) : \A j \in from..i : str[j] \in ZERO..bchar}
      f[i \in Nat] ==
        IF i \notin digit THEN 0 ELSE f[i - 1] * base + str[i] - ZERO
      last == IF digit = {} THEN 0 ELSE CHOOSE i \in digit : i + 1 \notin digit
  IN f[last] * sign

-----------------------------------------------------------------------------
(* Formatted output.                                                       *)

pad(extra, padchar) == IF extra > 0 THEN [i \in 1..extra |-> padchar] ELSE <<>>

(* The text with its filler, on the left unless left-justified.            *)
padstr(str, width, leftadjust, padchar) ==
  LET fill == pad(width - Len(str), padchar)
  IN IF leftadjust THEN str \o fill ELSE fill \o str

(* What follows '%' at place i of the format: the options and the code.    *)
Directive(fmt, i) ==
  LET left == fmt[i] = MINUS
      j == IF left THEN i + 1 ELSE i
      zero == fmt[j] = ZERO
      k == IF zero THEN j + 1 ELSE j
      e == CHOOSE n \in k..Len(fmt) :
             fmt[n] \notin ZERO..NINE /\ \A o \in k..n-1 : fmt[o] \in ZERO..NINE
      width[n \in k-1..e-1] == IF n < k THEN 0 ELSE width[n-1] * 10 + fmt[n] - ZERO
  IN [leftadjust |-> left, padchar |-> IF zero THEN ZERO ELSE SPACE,
      width |-> width[e - 1], code |-> fmt[e], next |-> e + 1]

(* The conversions, by the character of their code: c d s x o u.           *)
Converted(code, arg) ==
  CASE code = 99 -> <<arg>>
    [] code = 100 -> cvtdec(arg)
    [] code = 115 -> arg
    [] code = 120 -> cvthex(arg)
    [] code = 111 -> cvtoct(arg)
    [] code = 117 -> cvtuns(arg)

SprintCodes == {99, 100, 115, 120, 111, 117}

(* The string sprint leaves in dst.  A code it does not know takes no      *)
(* argument and stores nothing.  Place i of the format and argument n are  *)
(* next.                                                                   *)
sprint(fmt, args) ==
  LET f[p \in Nat \X Nat] ==
        LET i == p[1]
            n == p[2]
        IN IF i > Len(fmt) THEN <<>>
           ELSE IF fmt[i] # PERCENT THEN <<fmt[i]>> \o f[<<i + 1, n>>]
           ELSE LET d == Directive(fmt, i + 1)
                IN IF d.code \notin SprintCodes THEN f[<<d.next, n>>]
                   ELSE padstr(Converted(d.code, args[n]), d.width, d.leftadjust,
                               d.padchar) \o f[<<d.next, n + 1>>]
  IN f[<<1, 1>>]
=============================================================================
