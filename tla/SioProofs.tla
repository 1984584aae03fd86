----------------------------- MODULE SioProofs -----------------------------
(***************************************************************************)
(* For every buffer size: the input and the output buffer of sio.c are     *)
(* FIFO queues across all interrupts, reads and writes, and whatever is in *)
(* the output buffer is being sent.                                        *)
(***************************************************************************)
EXTENDS MCSio, ProofBasics, TLAPS

Number == 0..Numbers-1

InBuffer == [buf : [0..BUF_SIZE-1 -> Number], last : Nat, next : Nat, count : Nat]
OutBuffer ==
  [buf : [0..BUF_SIZE-1 -> Number], last : Nat, next : 0..BUF_SIZE-1, count : Nat]

(* The input buffer does not wrap: inlast is innext plus incount.          *)
InQueue(b, s) ==
  /\ b.last = b.next + b.count /\ b.last <= BUF_SIZE
  /\ \A i \in 0..b.count-1 : b.buf[b.next + i] = Plus(s, i)

(* The output buffer does, but sio_writec leaves outlast behind its end    *)
(* when it has filled the last place.                                      *)
OutQueue(b, s) ==
  /\ b.count <= BUF_SIZE
  /\ IF b.last = BUF_SIZE THEN b.next + b.count \in {0, BUF_SIZE}
     ELSE b.last < BUF_SIZE /\ b.last \in {b.next + b.count, b.next + b.count - BUF_SIZE}
  /\ \A i \in 0..b.count-1 : b.buf[(b.next + i) % BUF_SIZE] = Plus(s, i)

(* The inductive invariant: it says nothing once a store went astray.      *)
InInv ==
  /\ in \in InBuffer /\ received \in Number /\ read \in Number
  /\ readers \in Seq(Nat)
  /\ InQueue(in, read) /\ received = Plus(read, in.count)

OutInv ==
  /\ out \in OutBuffer /\ written \in Number /\ sent \in Number
  /\ PumpPrimed
  /\ ~garbled => OutQueue(out, sent) /\ written = Plus(sent, out.count)

SInv == ~stray => InInv /\ OutInv

-----------------------------------------------------------------------------
(* The numbers of characters, counted round and round.                     *)
LEMMA PlusIs ==
  ASSUME NEW a \in Number, NEW n \in Nat, n < Numbers
  PROVE  /\ Plus(a, n) \in Number
         /\ Plus(a, n) = IF a + n < Numbers THEN a + n ELSE a + n - Numbers
<1> DEFINE x == a + n
<1>1. Numbers \in Nat \ {0} /\ x \in Nat /\ x < 2 * Numbers
  BY SioAssumption DEF Number
<1> HIDE DEF x
<1>2. x % Numbers = IF x < Numbers THEN x ELSE x - Numbers
  BY <1>1, ModTwice
<1>3. x % Numbers \in 0..Numbers-1
  BY <1>1, ModRange
<1>4. Plus(a, n) = x % Numbers /\ x = a + n
  BY DEF Plus, x
<1>5. Plus(a, n) \in Number
  BY <1>3, <1>4 DEF Number
<1> QED
  BY <1>1, <1>2, <1>4, <1>5 DEF Number

LEMMA PlusPlus ==
  ASSUME NEW a \in Number, NEW n \in Nat, NEW m \in Nat, n + m < Numbers
  PROVE  Plus(Plus(a, n), m) = Plus(a, n + m)
<1>1. /\ Plus(a, n) \in Number
      /\ Plus(a, n) = IF a + n < Numbers THEN a + n ELSE a + n - Numbers
  BY PlusIs, SioAssumption
<1>2. Plus(Plus(a, n), m) = IF Plus(a, n) + m < Numbers THEN Plus(a, n) + m
                            ELSE Plus(a, n) + m - Numbers
  BY <1>1, PlusIs, SioAssumption
<1>3. Plus(a, n + m) = IF a + (n + m) < Numbers THEN a + (n + m)
                       ELSE a + (n + m) - Numbers
  BY PlusIs
<1> QED
  BY <1>1, <1>2, <1>3, SioAssumption DEF Number

LEMMA PlusZero ==
  ASSUME NEW a \in Number
  PROVE  Plus(a, 0) = a
BY PlusIs, SioAssumption DEF Number

LEMMA PlusType ==
  ASSUME NEW a \in Number, NEW n \in Nat
  PROVE  Plus(a, n) \in Number
<1>1. Numbers \in Nat \ {0} /\ a + n \in Nat
  BY SioAssumption DEF Number
<1> QED
  BY <1>1, ModRange DEF Plus, Number

-----------------------------------------------------------------------------
(* Input: sio_isr stores behind what is there, and sio_read takes from the *)
(* front.                                                                  *)
LEMMA StoreQueue ==
  ASSUME NEW b \in InBuffer, NEW s \in Number, InQueue(b, s), NEW n \in Nat,
         b.last + n <= BUF_SIZE
  PROVE  LET c == Store(b, n, Plus(s, b.count)) IN
         c \in InBuffer /\ InQueue(c, s) /\ c.count = b.count + n
<1> DEFINE number == Plus(s, b.count)
           c == Store(b, n, number)
           buf == [i \in 0..BUF_SIZE-1 |->
                     IF i \in b.last..b.last+n-1 THEN Plus(number, i - b.last)
                     ELSE b.buf[i]]
<1>1. /\ b.buf \in [0..BUF_SIZE-1 -> Number] /\ b.last \in Nat /\ b.next \in Nat
      /\ b.count \in Nat /\ b.last = b.next + b.count /\ b.last <= BUF_SIZE
      /\ BUF_SIZE \in Nat /\ Numbers \in Nat /\ Numbers > BUF_SIZE
  BY SioAssumption DEF InBuffer, InQueue
<1>2. number \in Number
  BY <1>1, PlusType
<1> HIDE DEF number
<1>3. buf \in [0..BUF_SIZE-1 -> Number]
  <2>1. ASSUME NEW i \in 0..BUF_SIZE-1, i \in b.last..b.last+n-1
        PROVE  Plus(number, i - b.last) \in Number
    BY <1>1, <1>2, <2>1, PlusType
  <2> QED
    BY <1>1, <2>1
<1>4. /\ c \in InBuffer
      /\ c.buf = buf /\ c.last = b.last + n /\ c.next = b.next /\ c.count = b.count + n
  BY <1>1, <1>3 DEF Store, Buffer, InBuffer
<1>5. ASSUME NEW i \in 0..(b.count + n)-1 PROVE buf[b.next + i] = Plus(s, i)
  <2>1. b.next + i \in 0..BUF_SIZE-1
    BY <1>1, SMTT(30)
  <2>2. CASE i < b.count
    <3>1. ~(b.next + i \in b.last..b.last+n-1) /\ i \in 0..b.count-1
      BY <1>1, <2>2, SMTT(30)
    <3> QED
      BY <2>1, <3>1 DEF InQueue
  <2>3. CASE ~(i < b.count)
    <3>1. /\ b.next + i \in b.last..b.last+n-1 /\ (b.next + i) - b.last = i - b.count
          /\ i - b.count \in Nat /\ b.count + (i - b.count) = i /\ i < Numbers
      <4> DEFINE x == b.next y == b.count z == b.last
      <4>1. x \in Nat /\ y \in Nat /\ z = x + y /\ z + n <= BUF_SIZE /\ i \in Nat
            /\ i < y + n /\ ~(i < y) /\ BUF_SIZE \in Nat /\ Numbers \in Nat
            /\ BUF_SIZE < Numbers
        BY <1>1, <2>3
      <4> HIDE DEF x, y, z
      <4>2. x + i \in z..z+n-1 /\ (x + i) - z = i - y /\ i - y \in Nat
            /\ y + (i - y) = i /\ i < Numbers
        BY <4>1
      <4> QED
        BY <4>2 DEF x, y, z
    <3>2. buf[b.next + i] = Plus(number, i - b.count)
      BY <2>1, <3>1
    <3>3. Plus(Plus(s, b.count), i - b.count) = Plus(s, b.count + (i - b.count))
      BY <1>1, <3>1, PlusPlus
    <3> QED
      BY <3>1, <3>2, <3>3 DEF number
  <2> QED
    BY <2>2, <2>3
<1> HIDE DEF buf
<1>6. InQueue(c, s)
  <2> HIDE DEF c
  <2>1. c.last = c.next + c.count /\ c.last <= BUF_SIZE
    BY <1>1, <1>4
  <2>2. ASSUME NEW i \in 0..c.count-1 PROVE c.buf[c.next + i] = Plus(s, i)
    BY <1>4, <1>5
  <2> QED
    BY <2>1, <2>2 DEF InQueue
<1> QED
  BY <1>4, <1>6 DEF number

LEMMA FetchQueue ==
  ASSUME NEW b \in InBuffer, NEW s \in Number, InQueue(b, s), NEW n \in Nat,
         n <= b.count
  PROVE  /\ Fetch(b, n) \in InBuffer /\ InQueue(Fetch(b, n), Plus(s, n))
         /\ Fetch(b, n).count = b.count - n
<1>1. /\ b.buf \in [0..BUF_SIZE-1 -> Number] /\ b.last \in Nat /\ b.next \in Nat
      /\ b.count \in Nat /\ b.last = b.next + b.count /\ b.last <= BUF_SIZE
      /\ BUF_SIZE \in Nat /\ Numbers \in Nat /\ Numbers > BUF_SIZE
  BY SioAssumption DEF InBuffer, InQueue
<1>2. CASE n = b.count
  <2>1. /\ Fetch(b, n).buf = b.buf /\ Fetch(b, n).last = 0 /\ Fetch(b, n).next = 0
        /\ Fetch(b, n).count = 0 /\ Fetch(b, n) \in InBuffer
    BY <1>1, <1>2 DEF Fetch, Emptied, Buffer, InBuffer
  <2> QED
    BY <1>1, <1>2, <2>1 DEF InQueue
<1>3. CASE n # b.count
  <2>1. /\ Fetch(b, n).buf = b.buf /\ Fetch(b, n).last = b.last
        /\ Fetch(b, n).next = b.next + n /\ Fetch(b, n).count = b.count - n
        /\ Fetch(b, n) \in InBuffer
    BY <1>1, <1>3 DEF Fetch, Buffer, InBuffer
  <2>2. ASSUME NEW i \in 0..(b.count - n)-1
        PROVE  b.buf[(b.next + n) + i] = Plus(Plus(s, n), i)
    <3>1. n + i \in 0..b.count-1 /\ (b.next + n) + i = b.next + (n + i) /\ n + i < Numbers
      BY <1>1
    <3>2. b.buf[b.next + (n + i)] = Plus(s, n + i)
      BY <3>1 DEF InQueue
    <3> QED
      BY <3>1, <3>2, PlusPlus
  <2>3. InQueue(Fetch(b, n), Plus(s, n))
    BY <1>1, <2>1, <2>2 DEF InQueue
  <2> QED
    BY <2>1, <2>3
<1> QED
  BY <1>2, <1>3
-----------------------------------------------------------------------------
(* Output: sio_writec and the copy loop of sio_write store behind what is  *)
(* there, and sio_isr sends from the front, across the end of the buffer.  *)
LEMMA RingIndex ==
  ASSUME NEW x \in 0..BUF_SIZE-1, NEW i \in 0..BUF_SIZE
  PROVE  (x + i) % BUF_SIZE = IF x + i < BUF_SIZE THEN x + i ELSE x + i - BUF_SIZE
BY RingPlace, SioAssumption

(* One turn of the copy loop of sio_write.                                 *)
Put(b, number) ==
  LET c == Append1(b, number) IN Buffer(c.buf, Wrapped(c.last), c.next, c.count)

LEMMA AppendType ==
  ASSUME NEW b \in OutBuffer, NEW number \in Number
  PROVE  Append1(b, number) \in OutBuffer /\ Put(b, number) \in OutBuffer
<1> DEFINE c == Append1(b, number)
           buf == [i \in 0..BUF_SIZE-1 |-> IF i = b.last THEN number ELSE b.buf[i]]
<1>1. /\ b.buf \in [0..BUF_SIZE-1 -> Number] /\ b.last \in Nat /\ b.next \in 0..BUF_SIZE-1
      /\ b.count \in Nat /\ BUF_SIZE \in Nat
  BY SioAssumption DEF OutBuffer
<1>2. buf \in [0..BUF_SIZE-1 -> Number]
  BY <1>1
<1>3. c.buf = buf /\ c.last = b.last + 1 /\ c.next = b.next /\ c.count = b.count + 1
  BY DEF Append1, Buffer
<1>4. c \in OutBuffer
  BY <1>1, <1>2 DEF Append1, Buffer, OutBuffer
<1> HIDE DEF c, buf
<1>5. Put(b, number) = Buffer(c.buf, Wrapped(c.last), c.next, c.count)
  BY DEF Put, c
<1>6. Wrapped(c.last) \in Nat
  BY <1>1, <1>3 DEF Wrapped
<1>7. Put(b, number) \in OutBuffer
  BY <1>4, <1>5, <1>6 DEF Buffer, OutBuffer
<1> QED
  BY <1>4, <1>7 DEF c

LEMMA AppendQueue ==
  ASSUME NEW b \in OutBuffer, NEW s \in Number, OutQueue(b, s),
         b.last < BUF_SIZE, b.count < BUF_SIZE
  PROVE  LET number == Plus(s, b.count)
             c == Append1(b, number)
             d == Put(b, number)
         IN /\ OutQueue(c, s) /\ c.count = b.count + 1
            /\ OutQueue(d, s) /\ d.count = b.count + 1 /\ d.last < BUF_SIZE
<1> DEFINE number == Plus(s, b.count)
           c == Append1(b, number)
           d == Put(b, number)
           buf == [i \in 0..BUF_SIZE-1 |-> IF i = b.last THEN number ELSE b.buf[i]]
           x == b.next
           n == b.count
           l == b.last
<1>1. /\ l \in Nat /\ x \in 0..BUF_SIZE-1 /\ n \in Nat /\ BUF_SIZE \in Nat \ {0}
      /\ n < BUF_SIZE /\ l < BUF_SIZE
  BY SioAssumption DEF OutBuffer
<1>2. l = x + n \/ l = x + n - BUF_SIZE
  BY <1>1 DEF OutQueue
<1>3. c.buf = buf /\ c.last = l + 1 /\ c.next = x /\ c.count = n + 1
  BY DEF Append1, Buffer
<1>4. d.buf = buf /\ d.last = Wrapped(l + 1) /\ d.next = x /\ d.count = n + 1
  BY DEF Append1, Buffer, Put
<1>5. ASSUME NEW i \in 0..n PROVE buf[(x + i) % BUF_SIZE] = Plus(s, i)
  <2> DEFINE j == (x + i) % BUF_SIZE
  <2>1. j = IF x + i < BUF_SIZE THEN x + i ELSE x + i - BUF_SIZE
    <3> HIDE DEF x, n, l, c, d, buf
    <3>1. i \in 0..BUF_SIZE
      BY <1>1
    <3> QED
      BY <1>1, <3>1, RingIndex
  <2>2. j \in 0..BUF_SIZE-1 /\ (j = l <=> i = n)
    <3> HIDE DEF j, x, n, l, c, d, buf
    <3> QED
      BY <1>1, <1>2, <2>1
  <2>3. CASE i = n
    <3>1. j \in 0..BUF_SIZE-1 /\ j = b.last
      BY <2>2, <2>3
    <3> HIDE DEF j
    <3>2. buf[j] = Plus(s, b.count)
      BY <3>1
    <3> QED
      BY <2>3, <3>2 DEF j
  <2>4. CASE i # n
    <3>1. i \in 0..n-1
      BY <1>1, <2>4
    <3>2. b.buf[j] = Plus(s, i)
      BY <3>1 DEF OutQueue
    <3> HIDE DEF j
    <3>3. buf[j] = b.buf[j]
      BY <2>2, <2>4
    <3> QED
      BY <3>2, <3>3 DEF j
  <2> QED
    BY <2>3, <2>4
<1> HIDE DEF buf, c, d, x, n, l, number
<1>6. n + 1 \in Nat /\ n + 1 <= BUF_SIZE /\ 0..(n + 1)-1 = 0..n
  BY <1>1
<1>7. OutQueue(c, s)
  <2>1. IF c.last = BUF_SIZE THEN c.next + c.count \in {0, BUF_SIZE}
        ELSE c.last < BUF_SIZE
             /\ c.last \in {c.next + c.count, c.next + c.count - BUF_SIZE}
    BY <1>1, <1>2, <1>3
  <2>2. c.count <= BUF_SIZE
    BY <1>3, <1>6
  <2>3. \A i \in 0..c.count-1 : c.buf[(c.next + i) % BUF_SIZE] = Plus(s, i)
    BY <1>3, <1>5, <1>6
  <2> QED
    BY <2>1, <2>2, <2>3 DEF OutQueue
<1>8. OutQueue(d, s) /\ d.last < BUF_SIZE
  <2>1. d.last = IF l + 1 = BUF_SIZE THEN 0 ELSE l + 1
    BY <1>1, <1>4 DEF Wrapped
  <2>2. /\ d.last < BUF_SIZE
        /\ d.last \in {d.next + d.count, d.next + d.count - BUF_SIZE}
    BY <1>1, <1>2, <1>4, <2>1
  <2>3. d.count <= BUF_SIZE
    BY <1>4, <1>6
  <2>4. \A i \in 0..d.count-1 : d.buf[(d.next + i) % BUF_SIZE] = Plus(s, i)
    BY <1>4, <1>5, <1>6
  <2>5. d.last # BUF_SIZE
    BY <1>1, <2>1, <2>2
  <2> QED
    BY <2>2, <2>3, <2>4, <2>5 DEF OutQueue
<1> QED
  BY <1>3, <1>4, <1>7, <1>8 DEF c, d, n, number

LEMMA SendQueue ==
  ASSUME NEW b \in OutBuffer, b.count > 0
  PROVE  LET c == Buffer(b.buf, b.last, Wrapped(b.next + 1), b.count - 1) IN
         /\ c \in OutBuffer /\ b.buf[b.next] \in Number
         /\ \A s \in Number : OutQueue(b, s) => /\ b.buf[b.next] = s
                                                /\ OutQueue(c, Plus(s, 1))
<1> DEFINE c == Buffer(b.buf, b.last, Wrapped(b.next + 1), b.count - 1)
           x == b.next
           n == b.count
           l == b.last
<1>1. /\ l \in Nat /\ x \in 0..BUF_SIZE-1 /\ n \in Nat /\ BUF_SIZE \in Nat \ {0}
      /\ n > 0 /\ b.buf \in [0..BUF_SIZE-1 -> Number]
      /\ Numbers \in Nat /\ Numbers > BUF_SIZE + 4
  BY SioAssumption DEF OutBuffer
<1>2. Wrapped(x + 1) \in 0..BUF_SIZE-1
      /\ Wrapped(x + 1) = IF x + 1 = BUF_SIZE THEN 0 ELSE x + 1
  BY <1>1 DEF Wrapped
<1>3. c.buf = b.buf /\ c.last = l /\ c.next = Wrapped(x + 1) /\ c.count = n - 1
  BY DEF Buffer
<1>4. c \in OutBuffer /\ b.buf[b.next] \in Number
  BY <1>1, <1>2 DEF Buffer, OutBuffer
<1>5. ASSUME NEW s \in Number, OutQueue(b, s)
      PROVE  b.buf[x] = s /\ OutQueue(c, Plus(s, 1))
  <2>1. n <= BUF_SIZE /\ IF l = BUF_SIZE THEN x + n \in {0, BUF_SIZE}
                         ELSE l < BUF_SIZE /\ l \in {x + n, x + n - BUF_SIZE}
    BY <1>5 DEF OutQueue
  <2>2. ASSUME NEW i \in 0..n-1 PROVE b.buf[(x + i) % BUF_SIZE] = Plus(s, i)
    BY <1>5 DEF OutQueue
  <2> HIDE DEF c, x, n, l
  <2>3. b.buf[x] = s
    <3>1. 0 \in 0..n-1 /\ (x + 0) % BUF_SIZE = x
      BY <1>1
    <3>2. b.buf[x] = Plus(s, 0)
      BY <2>2, <3>1
    <3> QED
      BY <3>2, PlusZero
  <2>4. c.count <= BUF_SIZE
        /\ IF c.last = BUF_SIZE THEN c.next + c.count \in {0, BUF_SIZE}
           ELSE c.last < BUF_SIZE
                /\ c.last \in {c.next + c.count, c.next + c.count - BUF_SIZE}
    BY <1>1, <1>2, <1>3, <2>1
  <2>5. ASSUME NEW i \in 0..(n-1)-1
        PROVE  b.buf[(Wrapped(x + 1) + i) % BUF_SIZE] = Plus(Plus(s, 1), i)
    <3> DEFINE y == Wrapped(x + 1)
               k == i + 1
    <3>1. k \in 0..n-1 /\ k \in 0..BUF_SIZE /\ i \in 0..BUF_SIZE /\ 1 + i < Numbers
          /\ i \in Nat
      BY <1>1, <2>1
    <3>2. (x + k) % BUF_SIZE = IF x + k < BUF_SIZE THEN x + k ELSE x + k - BUF_SIZE
      <4> HIDE DEF k
      <4> QED
        BY <1>1, <3>1, RingIndex
    <3>3. (y + i) % BUF_SIZE = IF y + i < BUF_SIZE THEN y + i ELSE y + i - BUF_SIZE
      <4> HIDE DEF y
      <4>1. y \in 0..BUF_SIZE-1
        BY <1>2 DEF y
      <4> QED
        BY <3>1, <4>1, RingIndex
    <3> HIDE DEF y
    <3>4. (y + i) % BUF_SIZE = (x + k) % BUF_SIZE
      <4>1. y = IF x + 1 = BUF_SIZE THEN 0 ELSE x + 1
        BY <1>2 DEF y
      <4> QED
        BY <1>1, <2>1, <3>1, <3>2, <3>3, <4>1
    <3>5. b.buf[(x + k) % BUF_SIZE] = Plus(s, k)
      <4> HIDE DEF k
      <4> QED
        BY <2>2, <3>1
    <3>6. Plus(Plus(s, 1), i) = Plus(s, 1 + i)
      BY <3>1, PlusPlus
    <3>7. k = 1 + i
      BY <3>1
    <3> QED
      BY <3>4, <3>5, <3>6, <3>7 DEF y
  <2>6. \A i \in 0..c.count-1 : c.buf[(c.next + i) % BUF_SIZE] = Plus(Plus(s, 1), i)
    BY <1>3, <2>5
  <2> QED
    BY <2>3, <2>4, <2>6 DEF OutQueue
<1> QED
  BY <1>4, <1>5
(* The copy loop of sio_write, turn by turn.                               *)
LEMMA CopiedQueue ==
  ASSUME NEW b \in OutBuffer, NEW n \in Nat, NEW number \in Number
  PROVE  /\ Copied(b, n, number) \in OutBuffer
         /\ \A s \in Number :
              /\ OutQueue(b, s) /\ number = Plus(s, b.count)
              /\ (n > 0 => b.last < BUF_SIZE) /\ b.count + n <= BUF_SIZE
              => /\ OutQueue(Copied(b, n, number), s)
                 /\ Copied(b, n, number).count = b.count + n
<1> DEFINE W(f) == [i \in 0..n |->
                      IF i = 0 THEN b
                      ELSE LET c == Append1(f[i - 1], Plus(number, i - 1))
                           IN Buffer(c.buf, Wrapped(c.last), c.next, c.count)]
           at == CHOOSE f : f = W(f)
<1>1. Copied(b, n, number) = at[n]
  BY DEF Copied
<1>2. ASSUME NEW f, NEW i \in 0..n
      PROVE  W(f)[i] = IF i = 0 THEN b ELSE Put(f[i - 1], Plus(number, i - 1))
  BY DEF Put
<1>3. at = W(at)
  <2> DEFINE g == [t \in Nat \X OutBuffer |->
                     IF t[1] = 0 THEN b ELSE Put(t[2], Plus(number, t[1] - 1))]
  <2>1. g \in [Nat \X OutBuffer -> OutBuffer]
    <3>1. ASSUME NEW t \in Nat \X OutBuffer, t[1] # 0
          PROVE  Put(t[2], Plus(number, t[1] - 1)) \in OutBuffer
      <4> DEFINE k == t[1] - 1
                 m == Plus(number, k)
      <4>1. k \in Nat /\ t[2] \in OutBuffer
        BY <3>1
      <4>2. m \in Number
        <5> HIDE DEF k
        <5> QED
          BY <4>1, PlusType
      <4> HIDE DEF m
      <4>3. Put(t[2], m) \in OutBuffer
        BY <4>1, <4>2, AppendType
      <4> QED
        BY <4>3 DEF m
    <3> QED
      BY <3>1
  <2>2. PICK f \in [0..n -> OutBuffer] :
          f[0] = b /\ \A i \in 1..n : f[i] = g[<<i, f[i - 1]>>]
    <3> HIDE DEF g, W, at
    <3>1. LoopRuns(b, g, n, OutBuffer) # {}
      BY <2>1, Iterates
    <3> QED
      BY <3>1 DEF LoopRuns
  <2>3. f = W(f)
    <3>1. ASSUME NEW i \in 0..n PROVE f[i] = W(f)[i]
      <4>1. CASE i = 0
        BY <1>2, <2>2, <4>1
      <4>2. CASE i # 0
        <5>1. i \in 1..n /\ i - 1 \in 0..n /\ i \in Nat
          BY <4>2
        <5>2. f[i] = g[<<i, f[i - 1]>>] /\ f[i - 1] \in OutBuffer
          BY <2>2, <5>1
        <5>3. f[i] = Put(f[i - 1], Plus(number, i - 1))
          BY <4>2, <5>1, <5>2
        <5> HIDE DEF W
        <5> QED
          BY <1>2, <4>2, <5>3
      <4> QED
        BY <4>1, <4>2
    <3> QED
      BY <2>2, <3>1
  <2> QED
    BY <2>3
<1> HIDE DEF at
<1>4. ASSUME NEW i \in 0..n
      PROVE  at[i] = IF i = 0 THEN b ELSE Put(at[i - 1], Plus(number, i - 1))
  <2> HIDE DEF W
  <2>1. at[i] = W(at)[i]
    BY <1>3
  <2> QED
    BY <1>2, <2>1
<1> HIDE DEF W
<1> DEFINE Fits(s) == /\ OutQueue(b, s) /\ number = Plus(s, b.count)
                      /\ (n > 0 => b.last < BUF_SIZE) /\ b.count + n <= BUF_SIZE
           Good(i) == /\ at[i] \in OutBuffer
                      /\ \A s \in Number :
                           Fits(s) => /\ OutQueue(at[i], s) /\ at[i].count = b.count + i
                                      /\ (i < n => at[i].last < BUF_SIZE)
           Bad == {i \in 0..n : ~Good(i)}
<1>5. ASSUME NEW i \in Bad, \A j \in Bad : i <= j PROVE FALSE
  <2>1. CASE i = 0
    <3>1. at[0] = b
      BY <1>4
    <3>2. b.count + 0 = b.count
      BY DEF OutBuffer
    <3> QED
      BY <2>1, <3>1, <3>2
  <2>2. CASE i # 0
    <3> DEFINE j == i - 1
               a == at[j]
               m == Plus(number, j)
    <3>1. j \in 0..n /\ j \notin Bad /\ j + 1 = i /\ i \in 0..n /\ j < n
      <4> HIDE DEF Good
      <4>1. i \in 0..n /\ Bad \subseteq Int
        BY <1>5
      <4> QED
        BY <4>1, <1>5, <2>2
    <3>2. Good(j)
      BY <3>1
    <3>3. at[i] = Put(a, m)
      BY <1>4, <2>2, <3>1
    <3> HIDE DEF j
    <3>4. a \in OutBuffer /\ m \in Number
      BY <3>1, <3>2, PlusType
    <3>5. at[i] \in OutBuffer
      <4> HIDE DEF a, m
      <4> QED
        BY <3>3, <3>4, AppendType
    <3>6. ASSUME NEW s \in Number, Fits(s)
          PROVE  /\ OutQueue(at[i], s) /\ at[i].count = b.count + i
                 /\ at[i].last < BUF_SIZE
      <4>1. /\ OutQueue(a, s) /\ a.count = b.count + j /\ a.last < BUF_SIZE
        BY <3>1, <3>2, <3>6
      <4>2. b.count \in Nat /\ b.count + n <= BUF_SIZE /\ number = Plus(s, b.count)
        BY <3>6 DEF OutBuffer
      <4>3. a.count < BUF_SIZE /\ b.count + j < Numbers /\ a.count + 1 = b.count + i
            /\ j \in Nat
        BY <3>1, <4>1, <4>2, SioAssumption
      <4>4. m = Plus(s, a.count)
        <5>1. Plus(Plus(s, b.count), j) = Plus(s, b.count + j)
          BY <4>2, <4>3, PlusPlus
        <5> QED
          BY <4>1, <4>2, <5>1
      <4> HIDE DEF a, m
      <4>5. /\ OutQueue(Put(a, Plus(s, a.count)), s)
            /\ Put(a, Plus(s, a.count)).count = a.count + 1
            /\ Put(a, Plus(s, a.count)).last < BUF_SIZE
        BY <3>4, <4>1, <4>3, AppendQueue
      <4> QED
        BY <3>3, <4>3, <4>4, <4>5
    <3> HIDE DEF Fits
    <3> QED
      BY <1>5, <3>1, <3>5, <3>6
  <2> QED
    BY <2>1, <2>2
<1>6. Good(n)
  <2>1. n \notin Bad
    <3> HIDE DEF Good
    <3>1. Bad \subseteq Nat
      OBVIOUS
    <3> HIDE DEF Bad
    <3> QED
      BY <1>5, <3>1, LeastNat
  <2> QED
    BY <2>1
<1> QED
  BY <1>1, <1>6
-----------------------------------------------------------------------------
(* The steps.                                                              *)
LEMMA Fetched ==
  ASSUME NEW b \in InBuffer, NEW s \in Number, InQueue(b, s), NEW k \in Nat
  PROVE  LET n == Least(k, b.count) IN
         /\ Fetch(b, n) \in InBuffer /\ InQueue(Fetch(b, n), Plus(s, n))
         /\ Plus(s, n) \in Number
         /\ Plus(s, b.count) = Plus(Plus(s, n), Fetch(b, n).count)
<1> DEFINE n == Least(k, b.count)
<1>1. b.count \in Nat /\ b.count <= BUF_SIZE /\ n \in Nat /\ n <= b.count
  <2>1. b.count \in Nat /\ b.last \in Nat /\ b.next \in Nat /\ BUF_SIZE \in Nat
        /\ b.last = b.next + b.count /\ b.last <= BUF_SIZE
    BY SioAssumption DEF InBuffer, InQueue
  <2> QED
    BY <2>1 DEF Least
<1> HIDE DEF n
<1>2. /\ Fetch(b, n) \in InBuffer /\ InQueue(Fetch(b, n), Plus(s, n))
      /\ Fetch(b, n).count = b.count - n
  BY <1>1, FetchQueue
<1>3. Plus(s, n) \in Number
  BY <1>1, PlusType
<1>4. Plus(Plus(s, n), b.count - n) = Plus(s, b.count)
  <2> DEFINE m == b.count - n
  <2>1. m \in Nat /\ n + m = b.count /\ n + m < Numbers
    BY <1>1, SioAssumption
  <2> HIDE DEF m
  <2>2. Plus(Plus(s, n), m) = Plus(s, n + m)
    BY <1>1, <2>1, PlusPlus
  <2> QED
    BY <2>1, <2>2 DEF m
<1> QED
  BY <1>2, <1>3, <1>4 DEF n

LEMMA ReceiveStep ==
  ASSUME InInv, ReceiveInterrupt, ~stray'
  PROVE  InInv'
<1>1. /\ in \in InBuffer /\ received \in Number /\ read \in Number
      /\ readers \in Seq(Nat) /\ InQueue(in, read) /\ received = Plus(read, in.count)
  BY DEF InInv
<1>0. PICK n \in 1..MaxBurst :
        LET kept == Least(n, BUF_SIZE - in.count)
            full == Store(in, kept, received)
            num == Least(Head(readers), full.count)
        IN /\ received' = Plus(received, kept)
           /\ stray' = (in.last + kept > BUF_SIZE)
           /\ IF readers = <<>>
              THEN in' = full /\ UNCHANGED <<read, readers>>
              ELSE /\ in' = Fetch(full, num)
                   /\ read' = Plus(read, num)
                   /\ readers' = Tail(readers)
  BY DEF ReceiveInterrupt
<1> DEFINE kept == Least(n, BUF_SIZE - in.count)
           full == Store(in, kept, received)
           num == Least(Head(readers), full.count)
<1>2. /\ received' = Plus(received, kept) /\ in.last + kept <= BUF_SIZE
      /\ in.count \in Nat /\ in.last \in Nat /\ kept \in Nat
      /\ in.count + kept < Numbers
  <2>1. in.count \in Nat /\ in.last \in Nat /\ in.next \in Nat /\ n \in Nat
        /\ in.last = in.next + in.count /\ in.last <= BUF_SIZE /\ BUF_SIZE \in Nat
        /\ Numbers \in Nat /\ Numbers > BUF_SIZE + 4
    BY <1>1, SioAssumption DEF InBuffer, InQueue
  <2>2. kept \in Nat
    <3>1. BUF_SIZE - in.count \in Nat
      BY <2>1
    <3> QED
      BY <2>1, <3>1 DEF Least
  <2>3. in.last + kept <= BUF_SIZE
    <3>1. stray' = (in.last + kept > BUF_SIZE)
      BY <1>0
    <3> HIDE DEF kept
    <3>2. ~(in.last + kept > BUF_SIZE)
      BY <3>1, Zenon
    <3> QED
      BY <2>1, <2>2, <3>2
  <2> HIDE DEF kept
  <2>4. in.count + kept < Numbers
    BY <2>1, <2>2, <2>3
  <2> QED
    BY <1>0, <2>1, <2>2, <2>3, <2>4 DEF kept
<1>3. IF readers = <<>> THEN in' = full /\ read' = read /\ readers' = readers
      ELSE in' = Fetch(full, num) /\ read' = Plus(read, num) /\ readers' = Tail(readers)
  BY <1>0
<1> HIDE DEF kept
<1>4. full \in InBuffer /\ InQueue(full, read) /\ full.count = in.count + kept
  BY <1>1, <1>2, StoreQueue
<1>5. received' = Plus(read, full.count) /\ received' \in Number
  <2>1. Plus(Plus(read, in.count), kept) = Plus(read, in.count + kept)
    BY <1>1, <1>2, PlusPlus
  <2>2. Plus(received, kept) \in Number
    BY <1>1, <1>2, PlusType
  <2> QED
    BY <1>1, <1>2, <1>4, <2>1, <2>2
<1> HIDE DEF full
<1>6. CASE readers = <<>>
  BY <1>1, <1>3, <1>4, <1>5, <1>6 DEF InInv
<1>7. CASE readers # <<>>
  <2> DEFINE k == Head(readers)
  <2>1. k \in Nat /\ Tail(readers) \in Seq(Nat)
    BY <1>1, <1>7
  <2> HIDE DEF k
  <2>2. /\ Fetch(full, num) \in InBuffer /\ InQueue(Fetch(full, num), Plus(read, num))
        /\ Plus(read, num) \in Number
        /\ Plus(read, full.count) = Plus(Plus(read, num), Fetch(full, num).count)
    <3>1. num = Least(k, full.count)
      BY DEF k
    <3> HIDE DEF num
    <3> QED
      BY <1>1, <1>4, <2>1, <3>1, Fetched
  <2> HIDE DEF num
  <2> QED
    BY <1>3, <1>5, <1>7, <2>1, <2>2 DEF InInv
<1> QED
  BY <1>6, <1>7

LEMMA ReadStep ==
  ASSUME InInv, Read
  PROVE  InInv'
<1>1. /\ in \in InBuffer /\ received \in Number /\ read \in Number
      /\ readers \in Seq(Nat) /\ InQueue(in, read) /\ received = Plus(read, in.count)
  BY DEF InInv
<1>2. PICK len \in Lengths \ {0} :
        /\ IF in.count < 1
           THEN readers' = Append(readers, len) /\ in' = in /\ read' = read
           ELSE /\ in' = Fetch(in, Least(len, in.count))
                /\ read' = Plus(read, Least(len, in.count))
                /\ readers' = readers
        /\ received' = received
  BY DEF Read
<1>3. len \in Nat
  BY SioAssumption
<1>4. CASE in.count < 1
  <2>1. Append(readers, len) \in Seq(Nat)
    BY <1>1, <1>3
  <2> QED
    BY <1>1, <1>2, <1>4, <2>1 DEF InInv
<1>5. CASE ~(in.count < 1)
  <2> DEFINE n == Least(len, in.count)
  <2>1. /\ Fetch(in, n) \in InBuffer /\ InQueue(Fetch(in, n), Plus(read, n))
        /\ Plus(read, n) \in Number
        /\ Plus(read, in.count) = Plus(Plus(read, n), Fetch(in, n).count)
    BY <1>1, <1>3, Fetched
  <2>2. in' = Fetch(in, n) /\ read' = Plus(read, n) /\ readers' = readers
        /\ received' = received
    BY <1>2, <1>5
  <2> HIDE DEF n
  <2> QED
    BY <1>1, <2>1, <2>2 DEF InInv
<1> QED
  BY <1>4, <1>5
LEMMA WriteStep ==
  ASSUME OutInv, NEW length \in Nat, NEW lf \in BOOLEAN, sio_write(length, lf), ~stray',
         ~garbled' => ~garbled /\ (lf => sending)
  PROVE  OutInv'
<1> DEFINE room == IF out.count < BUF_SIZE THEN BUF_SIZE - out.count ELSE 0
           n == IF sending THEN Least(length, room)
                ELSE Least(IF length < 1 THEN 0 ELSE length - 1, room)
           first == IF sending THEN 0 ELSE IF lf THEN 2 ELSE 1
           number == Plus(written, first)
           copied == Copied(out, n, number)
<1>1. /\ out \in OutBuffer /\ written \in Number /\ sent \in Number /\ PumpPrimed
      /\ out.count \in Nat /\ BUF_SIZE \in Nat /\ out.last \in Nat
      /\ Numbers \in Nat /\ Numbers > BUF_SIZE + 4
  BY SioAssumption DEF OutInv, OutBuffer
<1>2. /\ ~stray /\ written' = Plus(written, first + n)
      /\ stray' = (n > 0 /\ out.last >= BUF_SIZE)
      /\ IF sending THEN out' = copied /\ UNCHANGED <<sent, sending, txie, busy>>
         ELSE /\ Prime(written)
              /\ out' = IF lf THEN Append1(copied, Plus(written, 1)) ELSE copied
  BY DEF sio_write
<1>3. first \in Nat /\ first <= 2
  OBVIOUS
<1>4. room \in Nat /\ (out.count <= BUF_SIZE => room = BUF_SIZE - out.count)
  BY <1>1
<1>5. n \in Nat /\ n <= room
  <2> DEFINE l == IF length < 1 THEN 0 ELSE length - 1
  <2>1. l \in Nat
    OBVIOUS
  <2>2. n = IF sending THEN Least(length, room) ELSE Least(l, room)
    OBVIOUS
  <2> HIDE DEF room, l, n
  <2>3. /\ Least(length, room) \in Nat /\ Least(length, room) <= room
        /\ Least(l, room) \in Nat /\ Least(l, room) <= room
    BY <1>4, <2>1 DEF Least
  <2> QED
    BY <2>2, <2>3
<1>6. sending \/ out.count = 0
  <2>1. out.count > 0 => sending
    BY <1>1, <1>2 DEF PumpPrimed
  <2> QED
    BY <1>1, <2>1
<1>7. sending => first = 0
  OBVIOUS
<1>8. ~sending /\ ~lf => first = 1
  OBVIOUS
<1> HIDE DEF room, n, first
<1>9. number \in Number
  BY <1>1, <1>3, PlusType
<1> HIDE DEF number
<1>10. copied \in OutBuffer
  BY <1>1, <1>5, <1>9, CopiedQueue
<1>11. n > 0 => out.last < BUF_SIZE
  <2>1. ~(n > 0 /\ out.last >= BUF_SIZE)
    BY <1>2, Zenon
  <2> QED
    BY <1>1, <1>5, <2>1
<1>12. ASSUME NEW s \in Number, OutQueue(out, s), number = Plus(s, out.count)
       PROVE  OutQueue(copied, s) /\ copied.count = out.count + n
  <2>1. out.count <= BUF_SIZE
    BY <1>12 DEF OutQueue
  <2>2. out.count + n <= BUF_SIZE
    BY <1>1, <1>4, <1>5, <2>1
  <2> QED
    BY <1>1, <1>5, <1>9, <1>11, <1>12, <2>2, CopiedQueue
<1> HIDE DEF copied
<1>13. out' \in OutBuffer
  <2>1. Append1(copied, Plus(written, 1)) \in OutBuffer
    <3>1. Plus(written, 1) \in Number
      BY <1>1, PlusType
    <3> QED
      BY <1>10, <3>1, AppendType
  <2> QED
    BY <1>2, <1>10, <2>1
<1>14. written' \in Number
  <2>1. first + n \in Nat
    BY <1>3, <1>5
  <2> QED
    BY <1>1, <1>2, <2>1, PlusType
<1>15. sent' \in Number /\ sending' /\ txie'
  <2>1. CASE sending
    BY <1>1, <1>2, <2>1 DEF PumpPrimed
  <2>2. CASE ~sending
    <3>1. Plus(written, 1) \in Number
      BY <1>1, PlusType
    <3> QED
      BY <1>2, <2>2, <3>1 DEF Prime
  <2> QED
    BY <2>1, <2>2
<1>16. ASSUME ~garbled' PROVE OutQueue(out', sent') /\ written' = Plus(sent', out'.count)
  <2>1. OutQueue(out, sent) /\ written = Plus(sent, out.count) /\ out.count <= BUF_SIZE
    BY <1>16 DEF OutInv, OutQueue
  <2>2. CASE sending
    <3>1. out' = copied /\ sent' = sent /\ number = written /\ written' = Plus(written, n)
      BY <1>1, <1>2, <1>5, <1>7, <2>2, PlusZero DEF number
    <3>2. OutQueue(copied, sent) /\ copied.count = out.count + n
      BY <1>1, <1>12, <2>1, <3>1
    <3>3. out.count + n < Numbers
      BY <1>1, <1>4, <1>5, <2>1
    <3>4. Plus(Plus(sent, out.count), n) = Plus(sent, out.count + n)
      BY <1>1, <1>5, <3>3, PlusPlus
    <3> QED
      BY <2>1, <3>1, <3>2, <3>4
  <2>3. CASE ~sending
    <3> DEFINE s == Plus(sent, 1)
    <3>1. out.count = 0 /\ ~lf /\ written = sent
      BY <1>1, <1>6, <1>16, <2>1, <2>3, PlusZero
    <3>2. out' = copied /\ sent' = s /\ number = s /\ written' = Plus(sent, 1 + n)
      BY <1>2, <1>8, <2>3, <3>1 DEF number, Prime
    <3>3. s \in Number
      BY <1>1, PlusType
    <3>4. OutQueue(out, s)
      BY <1>1, <2>1, <3>1 DEF OutQueue
    <3>5. s = Plus(s, 0)
      <4> HIDE DEF s
      <4> QED
        BY <3>3, PlusZero
    <3>6. OutQueue(copied, s) /\ copied.count = n
      <4> HIDE DEF s
      <4> QED
        BY <1>5, <1>12, <3>1, <3>2, <3>3, <3>4, <3>5
    <3>7. Plus(Plus(sent, 1), n) = Plus(sent, 1 + n)
      <4>1. 1 + n < Numbers
        BY <1>1, <1>4, <1>5, <3>1
      <4> QED
        BY <1>1, <1>5, <4>1, PlusPlus
    <3> QED
      BY <3>2, <3>6, <3>7
  <2> QED
    BY <2>2, <2>3
<1> QED
  BY <1>13, <1>14, <1>15, <1>16 DEF OutInv, PumpPrimed

LEMMA WritecStep ==
  ASSUME OutInv, sio_writec, ~stray',
         garbled' = (garbled \/ (sending /\ out.count >= BUF_SIZE))
  PROVE  OutInv'
<1>1. /\ out \in OutBuffer /\ written \in Number /\ sent \in Number /\ PumpPrimed
      /\ out.count \in Nat /\ BUF_SIZE \in Nat /\ out.last \in Nat
      /\ Numbers \in Nat /\ Numbers > BUF_SIZE + 4
  BY SioAssumption DEF OutInv, OutBuffer
<1>2. /\ ~stray /\ written' = Plus(written, 1)
      /\ IF sending
         THEN /\ out' = Append1(out, written)
              /\ stray' = (out.last >= BUF_SIZE)
              /\ UNCHANGED <<sent, sending, txie, busy>>
         ELSE Prime(written) /\ UNCHANGED <<out, stray>>
  BY DEF sio_writec
<1>3. Plus(written, 1) \in Number
  BY <1>1, PlusType
<1>4. sending \/ out.count = 0
  <2>1. out.count > 0 => sending
    BY <1>1, <1>2 DEF PumpPrimed
  <2> QED
    BY <1>1, <2>1
<1>5. CASE sending
  <2>1. out' \in OutBuffer
    BY <1>1, <1>2, <1>5, AppendType
  <2>2. ASSUME ~garbled'
        PROVE  OutQueue(out', sent') /\ written' = Plus(sent', out'.count)
    <3>1. ~garbled /\ ~(out.count >= BUF_SIZE) /\ ~(out.last >= BUF_SIZE)
      BY <1>2, <1>5, <2>2, Zenon
    <3>2. out.count < BUF_SIZE /\ out.last < BUF_SIZE
      BY <1>1, <3>1
    <3>3. OutQueue(out, sent) /\ written = Plus(sent, out.count)
      BY <3>1 DEF OutInv
    <3>4. /\ OutQueue(Append1(out, Plus(sent, out.count)), sent)
          /\ Append1(out, Plus(sent, out.count)).count = out.count + 1
      BY <1>1, <3>2, <3>3, AppendQueue
    <3>5. Plus(Plus(sent, out.count), 1) = Plus(sent, out.count + 1)
      <4>1. out.count + 1 < Numbers
        BY <1>1, <3>2
      <4> QED
        BY <1>1, <4>1, PlusPlus
    <3> QED
      BY <1>2, <1>5, <3>3, <3>4, <3>5
  <2> QED
    BY <1>1, <1>2, <1>3, <1>5, <2>1, <2>2 DEF OutInv, PumpPrimed
<1>6. CASE ~sending
  <2> DEFINE s == Plus(written, 1)
  <2>1. out' = out /\ sent' = s /\ written' = s /\ sending' /\ txie'
    BY <1>2, <1>6 DEF Prime
  <2>2. ASSUME ~garbled' PROVE OutQueue(out, s) /\ s = Plus(s, out.count)
    <3>1. OutQueue(out, sent) /\ out.count = 0
      BY <1>4, <1>6, <2>2 DEF OutInv
    <3>2. s = Plus(s, 0)
      <4> HIDE DEF s
      <4> QED
        BY <1>3, PlusZero DEF s
    <3> QED
      BY <1>1, <3>1, <3>2 DEF OutQueue
  <2> QED
    BY <1>1, <1>3, <2>1, <2>2 DEF OutInv, PumpPrimed
<1> QED
  BY <1>5, <1>6

LEMMA TransmitStep ==
  ASSUME OutInv, TransmitInterrupt, garbled' = garbled
  PROVE  OutInv'
<1>1. /\ out \in OutBuffer /\ written \in Number /\ sent \in Number /\ PumpPrimed
      /\ out.count \in Nat /\ BUF_SIZE \in Nat \ {0} /\ out.last \in Nat
      /\ Numbers \in Nat /\ Numbers > BUF_SIZE + 4
  BY SioAssumption DEF OutInv, OutBuffer
<1>2. /\ ~stray /\ txie /\ ~busy /\ written' = written /\ stray' = stray
      /\ IF sending /\ out.count > 0
         THEN /\ busy' = TRUE
              /\ sent' = Plus(out.buf[out.next], 1)
              /\ out' = Buffer(out.buf, out.last, Wrapped(out.next + 1), out.count - 1)
              /\ UNCHANGED <<sending, txie>>
         ELSE /\ out' = Emptied(out)
              /\ sending' = FALSE
              /\ txie' = FALSE
              /\ UNCHANGED <<busy, sent>>
  BY DEF TransmitInterrupt
<1>3. CASE sending /\ out.count > 0
  <2> DEFINE c == Buffer(out.buf, out.last, Wrapped(out.next + 1), out.count - 1)
             x == out.buf[out.next]
  <2>1. /\ c \in OutBuffer /\ x \in Number
        /\ \A s \in Number : OutQueue(out, s) => x = s /\ OutQueue(c, Plus(s, 1))
    BY <1>1, <1>3, SendQueue
  <2>2. c.count = out.count - 1
    BY DEF Buffer
  <2>3. out' = c /\ sent' = Plus(x, 1) /\ sending' /\ txie'
    BY <1>2, <1>3
  <2> HIDE DEF c, x
  <2>4. sent' \in Number
    BY <2>1, <2>3, PlusType
  <2>5. ASSUME ~garbled'
        PROVE  OutQueue(out', sent') /\ written' = Plus(sent', out'.count)
    <3>1. OutQueue(out, sent) /\ written = Plus(sent, out.count) /\ out.count <= BUF_SIZE
      BY <2>5 DEF OutInv, OutQueue
    <3>2. x = sent /\ OutQueue(c, Plus(sent, 1))
      BY <1>1, <2>1, <3>1
    <3> DEFINE m == out.count - 1
    <3>3. m \in Nat /\ 1 + m = out.count /\ 1 + m < Numbers
      BY <1>1, <1>3, <3>1
    <3> HIDE DEF m
    <3>4. Plus(Plus(sent, 1), m) = Plus(sent, 1 + m)
      BY <1>1, <3>3, PlusPlus
    <3> QED
      BY <1>2, <2>2, <2>3, <3>1, <3>2, <3>3, <3>4 DEF m
  <2> QED
    BY <1>1, <1>2, <2>1, <2>3, <2>4, <2>5 DEF OutInv, PumpPrimed
<1>4. CASE ~(sending /\ out.count > 0)
  <2>1. out.count = 0
    BY <1>1, <1>2, <1>4 DEF PumpPrimed
  <2>2. /\ out' = Emptied(out) /\ sending' = FALSE /\ txie' = FALSE
        /\ busy' = busy /\ sent' = sent
    BY <1>2, <1>4
  <2>3. out' \in OutBuffer /\ out'.count = 0 /\ out'.last = 0 /\ out'.next = 0
    BY <1>1, <2>2 DEF Emptied, Buffer, OutBuffer
  <2>4. OutQueue(out', sent)
    BY <1>1, <2>3 DEF OutQueue
  <2>5. ~garbled => written = Plus(sent, 0)
    BY <2>1 DEF OutInv
  <2>6. PumpPrimed'
    BY <1>2, <2>2, <2>3 DEF PumpPrimed
  <2> QED
    BY <1>1, <1>2, <2>2, <2>3, <2>4, <2>5, <2>6 DEF OutInv
<1> QED
  BY <1>3, <1>4
LEMMA SInvInit ==
  ASSUME HInit
  PROVE  SInv
<1>1. /\ in = Empty /\ out = Empty /\ received = 0 /\ read = 0 /\ written = 0
      /\ sent = 0 /\ readers = <<>> /\ sending = FALSE /\ busy = FALSE
  BY DEF HInit, SInit
<1>2. BUF_SIZE \in Nat \ {0} /\ Numbers \in Nat /\ Numbers > BUF_SIZE + 4 /\ 0 \in Number
  BY SioAssumption DEF Number
<1>3. /\ Empty \in InBuffer /\ Empty \in OutBuffer
      /\ Empty.last = 0 /\ Empty.next = 0 /\ Empty.count = 0
  BY <1>2 DEF Empty, Buffer, InBuffer, OutBuffer
<1>4. Plus(0, 0) = 0
  BY <1>2, PlusZero
<1>5. InQueue(Empty, 0) /\ OutQueue(Empty, 0)
  BY <1>2, <1>3 DEF InQueue, OutQueue
<1>6. <<>> \in Seq(Nat)
  OBVIOUS
<1>7. InInv
  BY <1>1, <1>2, <1>3, <1>4, <1>5, <1>6 DEF InInv
<1>8. OutInv
  BY <1>1, <1>2, <1>3, <1>4, <1>5 DEF OutInv, PumpPrimed
<1> QED
  BY <1>7, <1>8 DEF SInv

LEMMA SInvStep ==
  ASSUME SInv, [HNext]_hvars
  PROVE  SInv'
<1> SUFFICES ASSUME ~stray' PROVE InInv' /\ OutInv'
  BY DEF SInv
<1>1. CASE UNCHANGED hvars
  BY <1>1 DEF SInv, hvars, svars, insvars, outvars, InInv, OutInv, PumpPrimed
<1>2. ASSUME ~stray, UNCHANGED outvars, garbled' = garbled PROVE OutInv'
  <2>1. OutInv
    BY <1>2 DEF SInv
  <2> QED
    BY <1>2, <2>1 DEF outvars, OutInv, PumpPrimed
<1>3. ASSUME ~stray, UNCHANGED insvars PROVE InInv'
  BY <1>3 DEF SInv, insvars, InInv
<1>4. CASE Undefined
  BY <1>4 DEF Undefined, svars
<1>5. CASE ReceiveInterrupt /\ UNCHANGED garbled
  <2>1. ~stray /\ UNCHANGED outvars
    BY <1>5 DEF ReceiveInterrupt
  <2> QED
    BY <1>2, <1>5, <2>1, ReceiveStep DEF SInv
<1>6. CASE Read /\ UNCHANGED garbled
  <2>1. ~stray /\ UNCHANGED outvars
    BY <1>6 DEF Read
  <2> QED
    BY <1>2, <1>6, <2>1, ReadStep DEF SInv
<1>7. CASE sio_writec /\ garbled' = (garbled \/ (sending /\ out.count >= BUF_SIZE))
  <2>1. ~stray /\ UNCHANGED insvars
    BY <1>7 DEF sio_writec
  <2> QED
    BY <1>3, <1>7, <2>1, WritecStep DEF SInv
<1>8. CASE Write /\ UNCHANGED garbled
  <2>1. PICK length \in Lengths : sio_write(length, FALSE)
    BY <1>8 DEF Write
  <2>2. ~stray /\ UNCHANGED insvars /\ length \in Nat
    BY <2>1, SioAssumption DEF sio_write
  <2>3. OutInv
    BY <2>2 DEF SInv
  <2>4. FALSE \in BOOLEAN /\ (~garbled' => ~garbled /\ (FALSE => sending))
    BY <1>8
  <2> QED
    BY <1>3, <2>1, <2>2, <2>3, <2>4, WriteStep
<1>9. CASE WriteLF /\ garbled' = (garbled \/ ~sending)
  <2>1. PICK length \in Lengths : sio_write(length, TRUE)
    BY <1>9 DEF WriteLF
  <2>2. ~stray /\ UNCHANGED insvars /\ length \in Nat
    BY <2>1, SioAssumption DEF sio_write
  <2>3. OutInv
    BY <2>2 DEF SInv
  <2>4. TRUE \in BOOLEAN /\ (~garbled' => ~garbled /\ (TRUE => sending))
    BY <1>9
  <2> QED
    BY <1>3, <2>1, <2>2, <2>3, <2>4, WriteStep
<1>10. CASE Transmitted /\ UNCHANGED garbled
  <2>1. /\ ~stray /\ UNCHANGED insvars /\ busy' = FALSE
        /\ UNCHANGED <<out, written, sent, sending, txie, stray>>
    BY <1>10 DEF Transmitted
  <2>2. OutInv
    BY <2>1 DEF SInv
  <2>3. PumpPrimed'
    BY <2>1, <2>2 DEF OutInv, PumpPrimed
  <2>4. OutInv'
    BY <1>10, <2>1, <2>2, <2>3 DEF OutInv
  <2> QED
    BY <1>3, <2>1, <2>4
<1>11. CASE TransmitInterrupt /\ UNCHANGED garbled
  <2>1. ~stray /\ UNCHANGED insvars
    BY <1>11 DEF TransmitInterrupt
  <2> QED
    BY <1>3, <1>11, <2>1, TransmitStep DEF SInv
<1> QED
  BY <1>1, <1>4, <1>5, <1>6, <1>7, <1>8, <1>9, <1>10, <1>11 DEF HNext, Input, Output

LEMMA SInvHolds == HSpec => []SInv
<1>1. HInit => SInv
  BY SInvInit
<1>2. SInv /\ [HNext]_hvars => SInv'
  BY SInvStep
<1> QED
  BY <1>1, <1>2, PTL DEF HSpec

(* For every buffer size, burst and length: until a store goes astray, the *)
(* input buffer of sio.c is a queue of what was received and not yet read, *)
(* whether sio_read or sio_isr delivers it.                                *)
THEOREM InputAlwaysInOrder == HSpec => []InputInOrder
<1>1. SInv => InputInOrder
  BY DEF SInv, InInv, InQueue, InputInOrder
<1> QED
  BY <1>1, SInvHolds, PTL

(* Until output is garbled by a leading LF or a sio_writec into a full     *)
(* buffer, sio_isr sends every character given to sio_writec and sio_write *)
(* once and in order, across the end of the buffer.                        *)
THEOREM OutputAlwaysInOrder == HSpec => []OutputInOrder
<1>1. SInv => OutputInOrder
  BY DEF SInv, OutInv, OutQueue, OutputInOrder
<1> QED
  BY <1>1, SInvHolds, PTL

(* While the output buffer of sio.c holds characters, or the transmitter   *)
(* one, a transmit sequence is under way and its interrupt is enabled.     *)
THEOREM AlwaysPumpPrimed == HSpec => []PumpPrimed
<1>1. SInv => PumpPrimed
  BY DEF SInv, OutInv, PumpPrimed
<1> QED
  BY <1>1, SInvHolds, PTL
=============================================================================
