---------------------------- MODULE DevicesProofs ----------------------------
(***************************************************************************)
(* The network controller, the PCI bus and the audio controller, for rings *)
(* of every size, every bus of well-formed functions and all codecs:       *)
(* intel8255x.c and its device neither lose, repeat nor reorder a frame,   *)
(* pci.c finds the first function that matches and probes it, and hda.c    *)
(* learns what the codecs are.                                             *)
(*                                                                         *)
(* The keyboard of cio.c, for buffers of every size, every sequence of     *)
(* scan codes and every length of the caller's line: the interrupt, a      *)
(* program inside cio_getchar and the read system call share the circular  *)
(* buffer without losing, repeating or reordering a character, and a read  *)
(* gives a line.  And the programs that use the screen, for boards and     *)
(* screens of every size: the snake of snake.c and the cursor of           *)
(* vga_type.c never leave the array they are drawn in.                     *)
(***************************************************************************)
EXTENDS MCDevices, ProofBasics, FiniteSetTheorems, TLAPS

Frames == [n : Nat, len : Nat \cup {EthSize}]
Rooms == {ETH_MIN_FRAME_SIZE - 1, ETH_MIN_FRAME_SIZE}
Copies == [n : Nat, len : Nat \cup {EthSize} \cup Rooms, room : Rooms]
Descriptor == [dd : BOOLEAN, frame : Frames]
NicRecord ==
  [status : {"boot", "none", "wild", "up"}, enabled : BOOLEAN,
   rx : [Ring -> Descriptor], tx : [Ring -> Descriptor],
   rdh : Ring, rdt : Ring, tdh : Ring, tdt : Ring, rx_next : Ring, used : Nat]

(* The descriptors from TDH on hold the frames accepted and not yet sent,  *)
(* in order and not done; TDT is behind them.                              *)
TxKept(k, a, w) ==
  /\ Len(a) - Len(w) \in 0..RING_SIZE
  /\ k.tdt = (k.tdh + (Len(a) - Len(w))) % RING_SIZE
  /\ \A i \in 0..(Len(a) - Len(w))-1 :
       /\ ~k.tx[(k.tdh + i) % RING_SIZE].dd
       /\ k.tx[(k.tdh + i) % RING_SIZE].frame = a[Len(w) + 1 + i]
  /\ \A i \in 1..Len(w) : w[i] = a[i]

(* The copy c that the driver made of the stored frame f.                  *)
CopyOf(f, c) ==
  c.n = f.n /\ c.len = IF f.len > c.room THEN c.room ELSE f.len

(* The descriptors from rx_next up to RDH, and no others, are done: they   *)
(* hold the frames stored and not yet delivered; RDT is before rx_next.    *)
RxKept(k, s, d) ==
  /\ Len(s) - Len(d) \in 0..RING_SIZE-1
  /\ k.rdh = (k.rx_next + (Len(s) - Len(d))) % RING_SIZE
  /\ k.rdt = (k.rx_next + (RING_SIZE - 1)) % RING_SIZE
  /\ \A i \in Ring :
       k.rx[(k.rx_next + i) % RING_SIZE].dd <=> i < Len(s) - Len(d)
  /\ \A i \in 0..(Len(s) - Len(d))-1 :
       k.rx[(k.rx_next + i) % RING_SIZE].frame = s[Len(d) + 1 + i]
  /\ \A i \in 1..Len(d) : CopyOf(s[i], d[i])

(* The inductive invariant.                                                *)
NicTypes ==
  /\ nic \in NicRecord
  /\ accepted \in Seq(Frames) /\ wire \in Seq(Frames)
  /\ stored \in Seq(Frames) /\ delivered \in Seq(Copies)

NicInv ==
  /\ NicTypes
  /\ nic.status = "boot" =>
       accepted = <<>> /\ wire = <<>> /\ stored = <<>> /\ delivered = <<>>
  /\ IF nic.enabled
     THEN /\ nic.status = "up"
          /\ TxKept(nic, accepted, wire) /\ RxKept(nic, stored, delivered)
     ELSE wire = <<>>

-----------------------------------------------------------------------------
(* What the driver and the device do to the rings.                         *)
Transmitted1(k, frame) ==
  [k EXCEPT !.tx[k.tdt] = [dd |-> FALSE, frame |-> frame], !.tdt = (@ + 1) % RING_SIZE]
Sent1(k) == [k EXCEPT !.tx[k.tdh].dd = TRUE, !.tdh = (@ + 1) % RING_SIZE]
Stored1(k, frame) ==
  [k EXCEPT !.rx[k.rdh] = [dd |-> TRUE, frame |-> frame], !.rdh = (@ + 1) % RING_SIZE]

LEMMA Turns ==
  ASSUME NEW x \in Ring
  PROVE  (x + 1) % RING_SIZE \in Ring
<1>1. RING_SIZE \in Nat \ {0} /\ x + 1 \in Nat
  BY NicAssumption DEF Ring
<1> QED
  BY <1>1, ModRange DEF Ring

LEMMA TransmitFields ==
  ASSUME NEW k \in NicRecord, NEW frame \in Frames
  PROVE  LET c == Transmitted1(k, frame) IN
         /\ c \in NicRecord
         /\ c.tx = [i \in Ring |-> IF i = k.tdt THEN [dd |-> FALSE, frame |-> frame]
                                   ELSE k.tx[i]]
         /\ c.tdt = (k.tdt + 1) % RING_SIZE /\ c.tdh = k.tdh
         /\ c.rx = k.rx /\ c.rdh = k.rdh /\ c.rdt = k.rdt /\ c.rx_next = k.rx_next
         /\ c.status = k.status /\ c.enabled = k.enabled
<1> DEFINE c == Transmitted1(k, frame)
           tx == [k.tx EXCEPT ![k.tdt] = [dd |-> FALSE, frame |-> frame]]
           t == (k.tdt + 1) % RING_SIZE
<1>1. k.tx \in [Ring -> Descriptor] /\ k.tdt \in Ring
  BY DEF NicRecord
<1>2. tx \in [Ring -> Descriptor]
  BY <1>1 DEF Descriptor
<1>3. tx = [i \in Ring |-> IF i = k.tdt THEN [dd |-> FALSE, frame |-> frame] ELSE k.tx[i]]
  BY <1>1
<1>4. t \in Ring
  BY <1>1, Turns
<1>5. c = [k EXCEPT !.tx = tx, !.tdt = t]
  BY Zenon DEF Transmitted1
<1> HIDE DEF c, tx, t
<1>6. /\ c \in NicRecord
      /\ c.tx = tx /\ c.tdt = t /\ c.tdh = k.tdh
      /\ c.rx = k.rx /\ c.rdh = k.rdh /\ c.rdt = k.rdt /\ c.rx_next = k.rx_next
      /\ c.status = k.status /\ c.enabled = k.enabled
  BY <1>2, <1>4, <1>5 DEF NicRecord
<1> QED
  BY <1>3, <1>6 DEF c, t

LEMMA DoneSet ==
  ASSUME NEW f \in [Ring -> Descriptor], NEW x \in Ring, NEW v \in BOOLEAN
  PROVE  LET g == [f EXCEPT ![x].dd = v] IN
         /\ g \in [Ring -> Descriptor]
         /\ g[x].dd = v /\ g[x].frame = f[x].frame
         /\ \A i \in Ring : i # x => g[i] = f[i]
BY DEF Descriptor

LEMMA SentFields ==
  ASSUME NEW k \in NicRecord
  PROVE  LET c == Sent1(k) IN
         /\ c \in NicRecord
         /\ \A i \in Ring : i # k.tdh => c.tx[i] = k.tx[i]
         /\ c.tdh = (k.tdh + 1) % RING_SIZE /\ c.tdt = k.tdt
         /\ c.rx = k.rx /\ c.rdh = k.rdh /\ c.rdt = k.rdt /\ c.rx_next = k.rx_next
         /\ c.status = k.status /\ c.enabled = k.enabled
<1> DEFINE c == Sent1(k)
           tx == [k.tx EXCEPT ![k.tdh].dd = TRUE]
           t == (k.tdh + 1) % RING_SIZE
<1>1. k.tx \in [Ring -> Descriptor] /\ k.tdh \in Ring
  BY DEF NicRecord
<1>2. tx \in [Ring -> Descriptor] /\ \A i \in Ring : i # k.tdh => tx[i] = k.tx[i]
  BY <1>1, DoneSet
<1>3. t \in Ring
  BY <1>1, Turns
<1>4. c = [k EXCEPT !.tx = tx, !.tdh = t]
  BY Zenon DEF Sent1
<1> HIDE DEF c, tx, t
<1>5. /\ c \in NicRecord
      /\ c.tx = tx /\ c.tdh = t /\ c.tdt = k.tdt
      /\ c.rx = k.rx /\ c.rdh = k.rdh /\ c.rdt = k.rdt /\ c.rx_next = k.rx_next
      /\ c.status = k.status /\ c.enabled = k.enabled
  BY <1>2, <1>3, <1>4 DEF NicRecord
<1> QED
  BY <1>2, <1>5 DEF c, t

LEMMA StoredFields ==
  ASSUME NEW k \in NicRecord, NEW frame \in Frames
  PROVE  LET c == Stored1(k, frame) IN
         /\ c \in NicRecord
         /\ c.rx = [i \in Ring |-> IF i = k.rdh THEN [dd |-> TRUE, frame |-> frame]
                                   ELSE k.rx[i]]
         /\ c.rdh = (k.rdh + 1) % RING_SIZE /\ c.rdt = k.rdt /\ c.rx_next = k.rx_next
         /\ c.tx = k.tx /\ c.tdh = k.tdh /\ c.tdt = k.tdt
         /\ c.status = k.status /\ c.enabled = k.enabled
<1> DEFINE c == Stored1(k, frame)
           rx == [k.rx EXCEPT ![k.rdh] = [dd |-> TRUE, frame |-> frame]]
           t == (k.rdh + 1) % RING_SIZE
<1>1. k.rx \in [Ring -> Descriptor] /\ k.rdh \in Ring
  BY DEF NicRecord
<1>2. rx \in [Ring -> Descriptor]
  BY <1>1 DEF Descriptor
<1>3. rx = [i \in Ring |-> IF i = k.rdh THEN [dd |-> TRUE, frame |-> frame] ELSE k.rx[i]]
  BY <1>1
<1>4. t \in Ring
  BY <1>1, Turns
<1>5. c = [k EXCEPT !.rx = rx, !.rdh = t]
  BY Zenon DEF Stored1
<1> HIDE DEF c, rx, t
<1>6. /\ c \in NicRecord
      /\ c.rx = rx /\ c.rdh = t /\ c.rdt = k.rdt /\ c.rx_next = k.rx_next
      /\ c.tx = k.tx /\ c.tdh = k.tdh /\ c.tdt = k.tdt
      /\ c.status = k.status /\ c.enabled = k.enabled
  BY <1>2, <1>4, <1>5 DEF NicRecord
<1> QED
  BY <1>3, <1>6 DEF c, t

LEMMA ReceiveFields ==
  ASSUME NEW k \in NicRecord
  PROVE  LET c == i8255x_receive(k) IN
         /\ c \in NicRecord
         /\ ~c.rx[k.rx_next].dd
         /\ \A i \in Ring : i # k.rx_next => c.rx[i] = k.rx[i]
         /\ c.rdt = k.rx_next /\ c.rdh = k.rdh
         /\ c.rx_next = (k.rx_next + 1) % RING_SIZE
         /\ c.tx = k.tx /\ c.tdh = k.tdh /\ c.tdt = k.tdt
         /\ c.status = k.status /\ c.enabled = k.enabled
<1> DEFINE c == i8255x_receive(k)
           rx == [k.rx EXCEPT ![k.rx_next].dd = FALSE]
           t == k.rx_next
           x == (k.rx_next + 1) % RING_SIZE
<1>1. k.rx \in [Ring -> Descriptor] /\ k.rx_next \in Ring
  BY DEF NicRecord
<1>2. /\ rx \in [Ring -> Descriptor] /\ rx[k.rx_next].dd = FALSE
      /\ \A i \in Ring : i # k.rx_next => rx[i] = k.rx[i]
  BY <1>1, DoneSet
<1>3. x \in Ring
  BY <1>1, Turns
<1>4. c = [k EXCEPT !.rx = rx, !.rdt = t, !.rx_next = x]
  BY Zenon DEF i8255x_receive
<1> HIDE DEF c, rx, x
<1>5. /\ c \in NicRecord
      /\ c.rx = rx /\ c.rdt = t /\ c.rx_next = x /\ c.rdh = k.rdh
      /\ c.tx = k.tx /\ c.tdh = k.tdh /\ c.tdt = k.tdt
      /\ c.status = k.status /\ c.enabled = k.enabled
  BY <1>1, <1>2, <1>3, <1>4 DEF NicRecord
<1> QED
  BY <1>2, <1>5 DEF c, x
-----------------------------------------------------------------------------
(* i8255x_transmit finds the descriptor at TDT done: the ring is not full. *)
LEMMA TransmitKeeps ==
  ASSUME NEW k \in NicRecord, NEW a \in Seq(Frames), NEW w \in Seq(Frames),
         TxKept(k, a, w), k.tx[k.tdt].dd, NEW frame \in Frames
  PROVE  TxKept(Transmitted1(k, frame), Append(a, frame), w)
<1> DEFINE c == Transmitted1(k, frame)
           b == Append(a, frame)
           x == k.tdh
           p == Len(a) - Len(w)
           d == [dd |-> FALSE, frame |-> frame]
<1>1. /\ c.tx = [i \in Ring |-> IF i = k.tdt THEN d ELSE k.tx[i]]
      /\ c.tdt = (k.tdt + 1) % RING_SIZE /\ c.tdh = x
  BY TransmitFields
<1>2. x \in 0..RING_SIZE-1 /\ RING_SIZE \in Nat \ {0}
  BY NicAssumption DEF NicRecord, Ring
<1>3. /\ Len(a) \in Nat /\ Len(w) \in Nat /\ p \in 0..RING_SIZE
      /\ Len(b) = Len(a) + 1 /\ Len(b) - Len(w) = p + 1
      /\ \A i \in 1..Len(a) : b[i] = a[i]
      /\ b[Len(a) + 1] = frame
  BY DEF TxKept
<1>4. k.tdt = (x + p) % RING_SIZE
  BY DEF TxKept
<1>5. ASSUME NEW i \in 0..p-1
      PROVE  /\ ~k.tx[(x + i) % RING_SIZE].dd
             /\ k.tx[(x + i) % RING_SIZE].frame = a[Len(w) + 1 + i]
  BY DEF TxKept
<1>6. ASSUME NEW i \in 1..Len(w) PROVE w[i] = a[i]
  BY DEF TxKept
<1> HIDE DEF c, b, x, d
<1>7. p # RING_SIZE
  <2> SUFFICES ASSUME p = RING_SIZE PROVE FALSE
    OBVIOUS
  <2>1. (x + p) % RING_SIZE = x /\ (x + 0) % RING_SIZE = x
    <3>1. (x + RING_SIZE) % RING_SIZE = x /\ (x + 0) % RING_SIZE = x
      BY <1>2, RingHere
    <3> QED
      BY <3>1
  <2>2. 0 \in 0..p-1
    BY <1>2
  <2> HIDE DEF p
  <2> QED
    BY <1>4, <1>5, <2>1, <2>2
<1>8. p \in 0..RING_SIZE-1 /\ p + 1 \in 0..RING_SIZE
  BY <1>2, <1>3, <1>7
<1>9. c.tdt = (x + (p + 1)) % RING_SIZE
  <2> HIDE DEF p
  <2> QED
    BY <1>1, <1>2, <1>4, <1>8, RingMore
<1>10. ASSUME NEW i \in 0..(p+1)-1
       PROVE  /\ ~c.tx[(x + i) % RING_SIZE].dd
              /\ c.tx[(x + i) % RING_SIZE].frame = b[Len(w) + 1 + i]
  <2>1. i \in 0..RING_SIZE-1 /\ i \in 0..RING_SIZE
    BY <1>2, <1>8
  <2>2. (x + i) % RING_SIZE \in Ring
    BY <1>2, <2>1, RingPlace DEF Ring
  <2>3. CASE i = p
    <3>1. Len(w) + 1 + i = Len(a) + 1
      BY <1>3, <2>3
    <3>2. c.tx[(x + i) % RING_SIZE] = d
      <4> HIDE DEF p
      <4> QED
        BY <1>1, <1>4, <2>2, <2>3
    <3> QED
      BY <1>3, <3>1, <3>2 DEF d
  <2>4. CASE i # p
    <3>1. (x + i) % RING_SIZE # k.tdt
      <4> HIDE DEF p
      <4> QED
        BY <1>2, <1>4, <1>8, <2>1, <2>4, RingApart
    <3>2. i \in 0..p-1 /\ Len(w) + 1 + i \in 1..Len(a)
      BY <1>3, <1>8, <2>4
    <3>3. c.tx[(x + i) % RING_SIZE] = k.tx[(x + i) % RING_SIZE]
      BY <1>1, <2>2, <3>1
    <3> HIDE DEF p
    <3> QED
      BY <1>3, <1>5, <3>2, <3>3
  <2> QED
    BY <2>3, <2>4
<1>11. ASSUME NEW i \in 1..Len(w) PROVE w[i] = b[i]
  <2>1. i \in 1..Len(a)
    BY <1>3
  <2> QED
    BY <1>3, <1>6, <2>1
<1> HIDE DEF p
<1>12. TxKept(c, b, w)
  BY <1>1, <1>3, <1>8, <1>9, <1>10, <1>11 DEF TxKept
<1> QED
  BY <1>12 DEF c, b

(* The device sends the frame at TDH, which is before TDT.                 *)
LEMMA SendKeeps ==
  ASSUME NEW k \in NicRecord, NEW a \in Seq(Frames), NEW w \in Seq(Frames),
         TxKept(k, a, w), k.tdh # k.tdt
  PROVE  TxKept(Sent1(k), a, Append(w, k.tx[k.tdh].frame))
<1> DEFINE c == Sent1(k)
           x == k.tdh
           v == Append(w, k.tx[x].frame)
           p == Len(a) - Len(w)
           y == (x + 1) % RING_SIZE
<1>1. /\ \A i \in Ring : i # x => c.tx[i] = k.tx[i]
      /\ c.tdh = y /\ c.tdt = k.tdt
  BY SentFields
<1>2. x \in 0..RING_SIZE-1 /\ RING_SIZE \in Nat \ {0} /\ k.tx[x].frame \in Frames
  BY NicAssumption DEF NicRecord, Ring, Descriptor
<1>3. /\ Len(a) \in Nat /\ Len(w) \in Nat /\ p \in 0..RING_SIZE
      /\ Len(v) = Len(w) + 1 /\ Len(a) - Len(v) = p - 1
      /\ \A i \in 1..Len(w) : v[i] = w[i]
      /\ v[Len(w) + 1] = k.tx[x].frame
  BY <1>2 DEF TxKept
<1>4. k.tdt = (x + p) % RING_SIZE
  BY DEF TxKept
<1>5. ASSUME NEW i \in 0..p-1
      PROVE  /\ ~k.tx[(x + i) % RING_SIZE].dd
             /\ k.tx[(x + i) % RING_SIZE].frame = a[Len(w) + 1 + i]
  BY DEF TxKept
<1>6. ASSUME NEW i \in 1..Len(w) PROVE w[i] = a[i]
  BY DEF TxKept
<1>7. (x + 0) % RING_SIZE = x
  <2> HIDE DEF x
  <2> QED
    BY <1>2, RingHere
<1> HIDE DEF c, v, x
<1>8. p # 0
  <2> SUFFICES ASSUME p = 0 PROVE FALSE
    OBVIOUS
  <2> HIDE DEF p
  <2> QED
    BY <1>4, <1>7 DEF x
<1>9. p - 1 \in 0..RING_SIZE-1 /\ p - 1 \in 0..RING_SIZE /\ (p - 1) + 1 = p /\ 0 \in 0..p-1
  BY <1>2, <1>3, <1>8
<1>10. c.tdt = (y + (p - 1)) % RING_SIZE
  <2> DEFINE q == p - 1
  <2>1. q \in 0..RING_SIZE-1 /\ q + 1 = p
    BY <1>9
  <2> HIDE DEF q, p
  <2>2. (y + q) % RING_SIZE = (x + (q + 1)) % RING_SIZE
    BY <1>2, <2>1, RingNext
  <2> QED
    BY <1>1, <1>4, <2>1, <2>2 DEF q
<1>11. ASSUME NEW i \in 0..(p-1)-1
       PROVE  /\ ~c.tx[(y + i) % RING_SIZE].dd
              /\ c.tx[(y + i) % RING_SIZE].frame = a[(Len(w) + 1) + 1 + i]
  <2> DEFINE j == i + 1
  <2>1. /\ i \in 0..RING_SIZE-1 /\ j \in 0..p-1 /\ j \in 0..RING_SIZE-1 /\ j # 0
        /\ j \in 0..RING_SIZE /\ 0 \in 0..RING_SIZE-1
        /\ Len(w) + 1 + j = (Len(w) + 1) + 1 + i
    BY <1>2, <1>3, <1>9
  <2>2. (y + i) % RING_SIZE = (x + j) % RING_SIZE
    BY <1>2, <2>1, RingNext
  <2> HIDE DEF j, p, y
  <2>3. (x + j) % RING_SIZE \in Ring
    BY <1>2, <2>1, RingPlace DEF Ring
  <2>4. (x + j) % RING_SIZE # x
    <3>1. (x + j) % RING_SIZE # (x + 0) % RING_SIZE
      BY <1>2, <2>1, RingApart
    <3> QED
      BY <1>7, <3>1
  <2>5. c.tx[(x + j) % RING_SIZE] = k.tx[(x + j) % RING_SIZE]
    BY <1>1, <2>3, <2>4
  <2> QED
    BY <1>5, <2>1, <2>2, <2>5
<1>12. ASSUME NEW i \in 1..Len(v) PROVE v[i] = a[i]
  <2>1. CASE i = Len(w) + 1
    <3>1. k.tx[(x + 0) % RING_SIZE].frame = a[Len(w) + 1 + 0]
      <4> HIDE DEF p
      <4> QED
        BY <1>5, <1>9
    <3>2. Len(w) + 1 + 0 = Len(w) + 1
      BY <1>3
    <3> QED
      BY <1>3, <1>7, <2>1, <3>1, <3>2
  <2>2. CASE i # Len(w) + 1
    <3>1. i \in 1..Len(w)
      BY <1>3, <2>2
    <3> QED
      BY <1>3, <1>6, <3>1
  <2> QED
    BY <2>1, <2>2
<1> HIDE DEF p, y
<1>13. TxKept(c, a, v)
  BY <1>1, <1>3, <1>9, <1>10, <1>11, <1>12 DEF TxKept
<1> QED
  BY <1>13 DEF c, v, x
(* The device stores a frame at RDH, which is before RDT.                  *)
LEMMA StoreKeeps ==
  ASSUME NEW k \in NicRecord, NEW s \in Seq(Frames), NEW d \in Seq(Copies),
         RxKept(k, s, d), k.rdh # k.rdt, NEW frame \in Frames
  PROVE  RxKept(Stored1(k, frame), Append(s, frame), d)
<1> DEFINE c == Stored1(k, frame)
           t == Append(s, frame)
           x == k.rx_next
           q == Len(s) - Len(d)
           e == [dd |-> TRUE, frame |-> frame]
<1>1. /\ c.rx = [i \in Ring |-> IF i = k.rdh THEN e ELSE k.rx[i]]
      /\ c.rdh = (k.rdh + 1) % RING_SIZE /\ c.rdt = k.rdt /\ c.rx_next = x
  BY StoredFields
<1>2. x \in 0..RING_SIZE-1 /\ RING_SIZE \in Nat \ {0}
  BY NicAssumption DEF NicRecord, Ring
<1>3. /\ Len(s) \in Nat /\ Len(d) \in Nat /\ q \in 0..RING_SIZE-1
      /\ Len(t) = Len(s) + 1 /\ Len(t) - Len(d) = q + 1
      /\ \A i \in 1..Len(s) : t[i] = s[i]
      /\ t[Len(s) + 1] = frame
  BY DEF RxKept
<1>4. /\ k.rdh = (x + q) % RING_SIZE
      /\ k.rdt = (x + (RING_SIZE - 1)) % RING_SIZE
      /\ \A i \in Ring : k.rx[(x + i) % RING_SIZE].dd <=> i < q
  BY DEF RxKept
<1>5. ASSUME NEW i \in 0..q-1 PROVE k.rx[(x + i) % RING_SIZE].frame = s[Len(d) + 1 + i]
  BY DEF RxKept
<1>6. ASSUME NEW i \in 1..Len(d) PROVE CopyOf(s[i], d[i])
  BY DEF RxKept
<1> HIDE DEF c, t, x, e
<1>7. q # RING_SIZE - 1
  <2> SUFFICES ASSUME q = RING_SIZE - 1 PROVE FALSE
    OBVIOUS
  <2> HIDE DEF q
  <2> QED
    BY <1>4
<1>8. q + 1 \in 0..RING_SIZE-1 /\ q \in 0..RING_SIZE
  BY <1>2, <1>3, <1>7
<1>9. c.rdh = (x + (q + 1)) % RING_SIZE
  <2>1. c.rdh = (((x + q) % RING_SIZE) + 1) % RING_SIZE
    BY <1>1, <1>4, Zenon
  <2>2. q \in 0..RING_SIZE-1
    BY <1>3
  <2> HIDE DEF q
  <2>3. (((x + q) % RING_SIZE) + 1) % RING_SIZE = (x + (q + 1)) % RING_SIZE
    BY <1>2, <2>2, RingMore
  <2> QED
    BY <2>1, <2>3
<1>10. ASSUME NEW i \in Ring
       PROVE  /\ c.rx[(x + i) % RING_SIZE].dd <=> i < q + 1
              /\ i < q + 1 => c.rx[(x + i) % RING_SIZE].frame = t[Len(d) + 1 + i]
  <2>1. i \in 0..RING_SIZE-1 /\ i \in 0..RING_SIZE
    BY <1>2 DEF Ring
  <2>2. (x + i) % RING_SIZE \in Ring
    BY <1>2, <2>1, RingPlace DEF Ring
  <2>3. CASE i = q
    <3>1. Len(d) + 1 + i = Len(s) + 1 /\ i < q + 1
      BY <1>3, <2>3
    <3>2. c.rx[(x + i) % RING_SIZE] = e
      <4> HIDE DEF q
      <4> QED
        BY <1>1, <1>4, <2>2, <2>3
    <3> QED
      BY <1>3, <3>1, <3>2 DEF e
  <2>4. CASE i # q
    <3>1. (x + i) % RING_SIZE # k.rdh
      <4> HIDE DEF q
      <4> QED
        BY <1>2, <1>3, <1>4, <2>1, <2>4, RingApart, ZenonT(30)
    <3>2. (i < q + 1 <=> i < q) /\ (i < q => i \in 0..q-1 /\ Len(d) + 1 + i \in 1..Len(s))
      BY <1>3, <1>8, <2>1, <2>4
    <3>3. c.rx[(x + i) % RING_SIZE] = k.rx[(x + i) % RING_SIZE]
      BY <1>1, <2>2, <3>1
    <3>4. k.rx[(x + i) % RING_SIZE].dd <=> i < q
      BY <1>4
    <3> HIDE DEF q
    <3>5. c.rx[(x + i) % RING_SIZE].dd <=> i < q + 1
      BY <3>2, <3>3, <3>4
    <3>6. ASSUME i < q + 1
          PROVE  c.rx[(x + i) % RING_SIZE].frame = t[Len(d) + 1 + i]
      <4>1. k.rx[(x + i) % RING_SIZE].frame = s[Len(d) + 1 + i]
        BY <1>5, <3>2, <3>6
      <4> QED
        BY <1>3, <3>2, <3>3, <3>6, <4>1
    <3> QED
      BY <3>5, <3>6
  <2> QED
    BY <2>3, <2>4
<1>11. ASSUME NEW i \in 1..Len(d) PROVE CopyOf(t[i], d[i])
  <2>1. i \in 1..Len(s)
    BY <1>3
  <2> QED
    BY <1>3, <1>6, <2>1
<1>12. ASSUME NEW i \in 0..(q+1)-1 PROVE i \in Ring /\ i < q + 1
  BY <1>2, <1>8 DEF Ring
<1>13. ASSUME NEW i \in 0..(q+1)-1
       PROVE  c.rx[(x + i) % RING_SIZE].frame = t[Len(d) + 1 + i]
  <2> HIDE DEF q
  <2> QED
    BY <1>10, <1>12
<1> HIDE DEF q
<1>14. RxKept(c, t, d)
  BY <1>1, <1>3, <1>4, <1>8, <1>9, <1>10, <1>11, <1>13 DEF RxKept
<1> QED
  BY <1>14 DEF c, t

(* i8255x_receive finds the descriptor at rx_next done and gives it back.  *)
LEMMA ReceiveKeeps ==
  ASSUME NEW k \in NicRecord, NEW s \in Seq(Frames), NEW d \in Seq(Copies),
         RxKept(k, s, d), k.rx[k.rx_next].dd, NEW copy \in Copies,
         CopyOf(k.rx[k.rx_next].frame, copy)
  PROVE  RxKept(i8255x_receive(k), s, Append(d, copy))
<1> DEFINE c == i8255x_receive(k)
           x == k.rx_next
           v == Append(d, copy)
           q == Len(s) - Len(d)
           y == (x + 1) % RING_SIZE
<1>1. /\ ~c.rx[x].dd /\ \A i \in Ring : i # x => c.rx[i] = k.rx[i]
      /\ c.rdt = x /\ c.rdh = k.rdh /\ c.rx_next = y
  BY ReceiveFields
<1>2. x \in 0..RING_SIZE-1 /\ RING_SIZE \in Nat \ {0} /\ x \in Ring /\ 0 \in Ring
      /\ 0 \in 0..RING_SIZE-1
  BY NicAssumption DEF NicRecord, Ring
<1>3. /\ Len(s) \in Nat /\ Len(d) \in Nat /\ q \in 0..RING_SIZE-1
      /\ Len(v) = Len(d) + 1 /\ Len(s) - Len(v) = q - 1
      /\ \A i \in 1..Len(d) : v[i] = d[i]
      /\ v[Len(d) + 1] = copy
  BY DEF RxKept
<1>4. /\ k.rdh = (x + q) % RING_SIZE
      /\ k.rdt = (x + (RING_SIZE - 1)) % RING_SIZE
      /\ \A i \in Ring : k.rx[(x + i) % RING_SIZE].dd <=> i < q
  BY DEF RxKept
<1>5. ASSUME NEW i \in 0..q-1 PROVE k.rx[(x + i) % RING_SIZE].frame = s[Len(d) + 1 + i]
  BY DEF RxKept
<1>6. ASSUME NEW i \in 1..Len(d) PROVE CopyOf(s[i], d[i])
  BY DEF RxKept
<1>7. (x + 0) % RING_SIZE = x /\ (x + RING_SIZE) % RING_SIZE = x
  <2> HIDE DEF x
  <2> QED
    BY <1>2, RingHere
<1>8. 0 < q
  <2>1. k.rx[(x + 0) % RING_SIZE].dd
    BY <1>7
  <2> QED
    BY <1>2, <1>4, <2>1
<1> HIDE DEF c, v
<1>9. q - 1 \in 0..RING_SIZE-1 /\ (q - 1) + 1 = q /\ 0 \in 0..q-1
  BY <1>2, <1>3, <1>8
<1>10. c.rdh = (y + (q - 1)) % RING_SIZE
  <2> DEFINE p == q - 1
  <2>1. p \in 0..RING_SIZE-1 /\ p + 1 = q
    BY <1>9
  <2> HIDE DEF p, q
  <2>2. (y + p) % RING_SIZE = (x + (p + 1)) % RING_SIZE
    BY <1>2, <2>1, RingNext
  <2> QED
    BY <1>1, <1>4, <2>1, <2>2 DEF p
<1>11. c.rdt = (y + (RING_SIZE - 1)) % RING_SIZE
  <2> DEFINE p == RING_SIZE - 1
  <2>1. p \in 0..RING_SIZE-1 /\ p + 1 = RING_SIZE
    BY <1>2
  <2> HIDE DEF p
  <2>2. (y + p) % RING_SIZE = (x + (p + 1)) % RING_SIZE
    BY <1>2, <2>1, RingNext
  <2> QED
    BY <1>1, <1>7, <2>1, <2>2 DEF p
<1>12. ASSUME NEW i \in Ring
       PROVE  /\ c.rx[(y + i) % RING_SIZE].dd <=> i < q - 1
              /\ i < q - 1 => c.rx[(y + i) % RING_SIZE].frame = s[(Len(d) + 1) + 1 + i]
  <2> DEFINE j == i + 1
  <2>1. i \in 0..RING_SIZE-1 /\ j \in 0..RING_SIZE /\ j # 0 /\ i \in Int /\ j = i + 1
    BY <1>2 DEF Ring
  <2>2. (y + i) % RING_SIZE = (x + j) % RING_SIZE
    <3> HIDE DEF x
    <3> QED
      BY <1>2, <2>1, RingNext
  <2>3. CASE i = RING_SIZE - 1
    <3>1. j = RING_SIZE /\ ~(i < q - 1)
      BY <1>2, <1>3, <2>3
    <3>2. ~c.rx[(y + i) % RING_SIZE].dd
      BY <1>1, <1>7, <2>2, <3>1
    <3> QED
      BY <3>1, <3>2
  <2>4. CASE i # RING_SIZE - 1
    <3>1. j \in 0..RING_SIZE-1 /\ j \in Ring
      BY <1>2, <2>1, <2>4 DEF Ring
    <3> HIDE DEF j, y
    <3>2. (x + j) % RING_SIZE \in Ring
      BY <1>2, <2>1, RingPlace DEF Ring
    <3>3. (x + j) % RING_SIZE # x
      <4>1. (x + j) % RING_SIZE # (x + 0) % RING_SIZE
        <5> HIDE DEF x
        <5> QED
          BY <1>2, <2>1, <3>1, RingApart
      <4> QED
        BY <1>7, <4>1
    <3>4. c.rx[(y + i) % RING_SIZE] = k.rx[(x + j) % RING_SIZE]
      BY <1>1, <2>2, <3>2, <3>3
    <3>5. k.rx[(x + j) % RING_SIZE].dd <=> j < q
      BY <1>4, <3>1
    <3>6. (j < q <=> i < q - 1) /\ (i < q - 1 => j \in 0..q-1)
          /\ Len(d) + 1 + j = (Len(d) + 1) + 1 + i
      BY <1>3, <2>1, <3>1
    <3> HIDE DEF q
    <3>7. ASSUME i < q - 1
          PROVE  c.rx[(y + i) % RING_SIZE].frame = s[(Len(d) + 1) + 1 + i]
      <4>1. k.rx[(x + j) % RING_SIZE].frame = s[Len(d) + 1 + j]
        BY <1>5, <3>6, <3>7
      <4> QED
        BY <3>4, <3>6, <4>1
    <3>8. c.rx[(y + i) % RING_SIZE].dd <=> i < q - 1
      BY <3>4, <3>5, <3>6
    <3> QED
      BY <3>7, <3>8
  <2> QED
    BY <2>3, <2>4
<1>13. ASSUME NEW i \in 0..(q-1)-1 PROVE i \in Ring /\ i < q - 1
  BY <1>2, <1>3 DEF Ring
<1>14. ASSUME NEW i \in 0..(q-1)-1
       PROVE  c.rx[(y + i) % RING_SIZE].frame = s[(Len(d) + 1) + 1 + i]
  <2> HIDE DEF q, y
  <2> QED
    BY <1>12, <1>13
<1>15. ASSUME NEW i \in 1..Len(v) PROVE CopyOf(s[i], v[i])
  <2>1. CASE i = Len(d) + 1
    <3>1. k.rx[(x + 0) % RING_SIZE].frame = s[Len(d) + 1 + 0]
      <4> HIDE DEF q
      <4> QED
        BY <1>5, <1>9
    <3>2. Len(d) + 1 + 0 = Len(d) + 1
      BY <1>3
    <3> QED
      BY <1>3, <1>7, <2>1, <3>1, <3>2
  <2>2. CASE i # Len(d) + 1
    <3>1. i \in 1..Len(d)
      BY <1>3, <2>2
    <3> QED
      BY <1>3, <1>6, <3>1
  <2> QED
    BY <2>1, <2>2
<1> HIDE DEF q, y
<1>16. RxKept(c, s, v)
  <2>1. Len(s) - Len(v) \in 0..RING_SIZE-1
    BY <1>3, <1>9, Zenon
  <2>2. /\ c.rdh = (c.rx_next + (Len(s) - Len(v))) % RING_SIZE
        /\ c.rdt = (c.rx_next + (RING_SIZE - 1)) % RING_SIZE
    BY <1>1, <1>3, <1>10, <1>11, Zenon
  <2>3. \A i \in Ring : c.rx[(c.rx_next + i) % RING_SIZE].dd <=> i < Len(s) - Len(v)
    BY <1>1, <1>3, <1>12, Zenon
  <2>4. \A i \in 0..(Len(s) - Len(v))-1 :
          c.rx[(c.rx_next + i) % RING_SIZE].frame = s[Len(v) + 1 + i]
    BY <1>1, <1>3, <1>14, Zenon
  <2> QED
    BY <1>15, <2>1, <2>2, <2>3, <2>4, Zenon DEF RxKept
<1> QED
  BY <1>16 DEF c, v
-----------------------------------------------------------------------------
(* The steps.                                                              *)
LEMMA TransmitStep ==
  ASSUME NEW k \in NicRecord, accepted \in Seq(Frames), wire \in Seq(Frames),
         NEW free, net_transmit(k, free)
  PROVE  /\ nic' \in NicRecord /\ accepted' \in Seq(Frames)
         /\ nic'.status = k.status /\ nic'.enabled = k.enabled
         /\ nic'.rx = k.rx /\ nic'.rdh = k.rdh /\ nic'.rdt = k.rdt
         /\ nic'.rx_next = k.rx_next
         /\ TxKept(k, accepted, wire) => TxKept(nic', accepted', wire)
<1> DEFINE frame == [n |-> Len(accepted) + 1, len |-> EthSize]
<1>1. frame \in Frames
  BY DEF Frames
<1>2. \/ nic' = k /\ accepted' = accepted
      \/ /\ k.tx[k.tdt].dd /\ nic' = Transmitted1(k, frame)
         /\ accepted' = Append(accepted, frame)
  <2> DEFINE t == i8255x_transmit(k, free - 1, frame)
  <2>1. \/ t.ok = FALSE /\ t.nic = k
        \/ t.ok = TRUE /\ t.nic = Transmitted1(k, frame) /\ k.tx[k.tdt].dd
    <3> HIDE DEF frame
    <3>1. CASE ~k.tx[k.tdt].dd \/ free - 1 = 0
      BY <3>1 DEF i8255x_transmit
    <3>2. CASE ~(~k.tx[k.tdt].dd \/ free - 1 = 0)
      <4> DEFINE kk == Transmitted1(k, frame)
      <4>1. i8255x_transmit(k, free - 1, frame) = [ok |-> TRUE, nic |-> kk]
        BY <3>2, Zenon DEF i8255x_transmit, Transmitted1
      <4> HIDE DEF kk
      <4>2. t.ok = TRUE /\ t.nic = kk
        BY <4>1
      <4> QED
        BY <3>2, <4>2 DEF kk
    <3> QED
      BY <3>1, <3>2
  <2>2. \/ free = 0 /\ nic' = k /\ accepted' = accepted
        \/ nic' = t.nic /\ accepted' = IF t.ok THEN Append(accepted, frame) ELSE accepted
    BY DEF net_transmit
  <2> HIDE DEF t, frame
  <2> QED
    BY <2>1, <2>2
<1> HIDE DEF frame
<1>3. CASE nic' = k /\ accepted' = accepted
  BY <1>3
<1>4. CASE /\ k.tx[k.tdt].dd /\ nic' = Transmitted1(k, frame)
           /\ accepted' = Append(accepted, frame)
  <2> DEFINE c == Transmitted1(k, frame)
  <2>1. /\ c \in NicRecord /\ c.status = k.status /\ c.enabled = k.enabled
        /\ c.rx = k.rx /\ c.rdh = k.rdh /\ c.rdt = k.rdt /\ c.rx_next = k.rx_next
    BY <1>1, TransmitFields
  <2>2. TxKept(k, accepted, wire) => TxKept(c, Append(accepted, frame), wire)
    BY <1>1, <1>4, TransmitKeeps
  <2>3. Append(accepted, frame) \in Seq(Frames)
    BY <1>1
  <2> HIDE DEF c
  <2> QED
    BY <1>4, <2>1, <2>2, <2>3 DEF c
<1> QED
  BY <1>2, <1>3, <1>4

LEMMA NoDriverFields ==
  ASSUME NEW status \in {"boot", "none", "wild", "up"}
  PROVE  /\ NoDriver(status) \in NicRecord
         /\ NoDriver(status).status = status /\ NoDriver(status).enabled = FALSE
<1>1. 0 \in Ring /\ NoFrame \in Frames
  BY NicAssumption DEF Ring, NoFrame, Frames
<1>2. [i \in Ring |-> [dd |-> FALSE, frame |-> NoFrame]] \in [Ring -> Descriptor]
  BY <1>1 DEF Descriptor
<1> QED
  BY <1>1, <1>2 DEF NoDriver, NicRecord

LEMMA SetupFields ==
  ASSUME NEW free \in Nat, NEW garbage \in BOOLEAN
  PROVE  LET k == i8255x_setup_rings(free, garbage) IN
         /\ k \in NicRecord /\ k.status = "up"
         /\ k.enabled => TxKept(k, <<>>, <<>>) /\ RxKept(k, <<>>, <<>>)
<1> DEFINE k == i8255x_setup_rings(free, garbage)
           complete == free >= RING_SIZE
           rx == [i \in Ring |-> IF i < free THEN [dd |-> FALSE, frame |-> NoFrame]
                                 ELSE [dd |-> garbage, frame |-> NoFrame]]
           tx == [i \in Ring |-> IF complete THEN [dd |-> TRUE, frame |-> NoFrame]
                                 ELSE [dd |-> garbage, frame |-> NoFrame]]
           t == IF complete THEN RING_SIZE - 1 ELSE 0
           u == IF complete THEN RING_SIZE ELSE free
<1>1. 0 \in Ring /\ NoFrame \in Frames /\ RING_SIZE \in Nat \ {0}
      /\ RING_SIZE - 1 \in Ring /\ complete \in BOOLEAN
  BY NicAssumption DEF Ring, NoFrame, Frames
<1>2. rx \in [Ring -> Descriptor] /\ tx \in [Ring -> Descriptor] /\ t \in Ring /\ u \in Nat
  BY <1>1 DEF Descriptor
<1>3. /\ k.status = "up" /\ k.enabled = complete /\ k.rx = rx /\ k.tx = tx
      /\ k.rdh = 0 /\ k.rdt = t /\ k.tdh = 0 /\ k.tdt = 0 /\ k.rx_next = 0
  BY DEF i8255x_setup_rings
<1>4. k = [status |-> "up", enabled |-> complete, rx |-> rx, tx |-> tx, rdh |-> 0,
           rdt |-> t, tdh |-> 0, tdt |-> 0, rx_next |-> 0, used |-> u]
  BY DEF i8255x_setup_rings
<1>5. k \in NicRecord
  <2> HIDE DEF k, rx, tx, t, u, complete
  <2> QED
    BY <1>1, <1>2, <1>4 DEF NicRecord
<1>6. ASSUME k.enabled PROVE TxKept(k, <<>>, <<>>) /\ RxKept(k, <<>>, <<>>)
  <2>1. complete /\ free >= RING_SIZE /\ t = RING_SIZE - 1
    BY <1>3, <1>6
  <2>2. ASSUME NEW i \in Ring PROVE (0 + i) % RING_SIZE \in Ring /\ i \in Nat /\ ~(i < 0)
    <3>1. i \in 0..RING_SIZE
      BY <1>1 DEF Ring
    <3> QED
      BY <1>1, <3>1, RingPlace DEF Ring
  <2>3. (0 + 0) % RING_SIZE = 0
    BY <1>1, RingHere DEF Ring
  <2>4. (0 + (RING_SIZE - 1)) % RING_SIZE = RING_SIZE - 1
    <3> DEFINE p == RING_SIZE - 1
    <3>1. p \in Nat /\ p < RING_SIZE /\ 0 + p = p
      BY <1>1
    <3> HIDE DEF p
    <3>2. p % RING_SIZE = p
      BY <1>1, <3>1, ModSmall
    <3> QED
      BY <3>1, <3>2 DEF p
  <2>5. ASSUME NEW i \in Ring PROVE ~rx[i].dd
    <3>1. i < free
      BY <1>1, <2>1 DEF Ring
    <3> QED
      BY <3>1
  <2> HIDE DEF k, rx, tx, t, complete
  <2>6. Len(<<>>) = 0
    OBVIOUS
  <2>7. TxKept(k, <<>>, <<>>)
    BY <1>1, <1>3, <2>3, <2>6 DEF TxKept
  <2>8. RxKept(k, <<>>, <<>>)
    <3>1. Len(<<>>) - Len(<<>>) = 0 /\ 0 \in 0..RING_SIZE-1
      BY <1>1, <2>6
    <3>2. k.rdh = (k.rx_next + 0) % RING_SIZE
          /\ k.rdt = (k.rx_next + (RING_SIZE - 1)) % RING_SIZE
      BY <1>3, <2>1, <2>3, <2>4
    <3>3. \A i \in Ring : k.rx[(k.rx_next + i) % RING_SIZE].dd <=> i < 0
      BY <1>3, <2>2, <2>5
    <3> QED
      BY <2>6, <3>1, <3>2, <3>3 DEF RxKept
  <2> QED
    BY <2>7, <2>8
<1> QED
  BY <1>3, <1>5, <1>6
LEMMA BootStep ==
  ASSUME NicInv, NEW m \in Machines, net_init(m)
  PROVE  NicInv'
<1> DEFINE k == i8255x_init(m)
<1>1. /\ nic.status = "boot"
      /\ IF k.status = "up" THEN net_transmit(k, m.free - k.used)
         ELSE nic' = k /\ accepted' = accepted
      /\ wire' = wire /\ stored' = stored /\ delivered' = delivered
  BY DEF net_init
<1>2. accepted = <<>> /\ wire = <<>> /\ stored = <<>> /\ delivered = <<>>
  BY <1>1 DEF NicInv
<1>3. <<>> \in Seq(Frames) /\ <<>> \in Seq(Copies)
  OBVIOUS
<1>4. CASE k.status # "up"
  <2>1. k = NoDriver("none") \/ k = NoDriver("wild")
    <3>1. m.free \in Nat /\ m.garbage \in BOOLEAN
      BY DevicesAssumption DEF Machines
    <3>2. i8255x_setup_rings(m.free, m.garbage).status = "up"
      BY <3>1, SetupFields
    <3> QED
      BY <1>4, <3>2 DEF i8255x_init
  <2>2. k \in NicRecord /\ k.status # "boot" /\ k.enabled = FALSE
    BY <2>1, NoDriverFields
  <2> HIDE DEF k
  <2> QED
    BY <1>1, <1>2, <1>3, <1>4, <2>2 DEF NicInv, NicTypes
<1>5. CASE k.status = "up"
  <2>1. k \in NicRecord /\ (k.enabled => TxKept(k, <<>>, <<>>) /\ RxKept(k, <<>>, <<>>))
    <3>1. m.free \in Nat /\ m.garbage \in BOOLEAN
      BY DevicesAssumption DEF Machines
    <3>2. NoDriver("none").status # "up" /\ NoDriver("wild").status # "up"
      BY NoDriverFields
    <3>3. k = i8255x_setup_rings(m.free, m.garbage)
      BY <1>5, <3>2 DEF i8255x_init
    <3> QED
      BY <3>1, <3>3, SetupFields
  <2> HIDE DEF k
  <2>2. PICK free : net_transmit(k, free)
    BY <1>1, <1>5
  <2>3. /\ nic' \in NicRecord /\ accepted' \in Seq(Frames)
        /\ nic'.status = k.status /\ nic'.enabled = k.enabled
        /\ nic'.rx = k.rx /\ nic'.rdh = k.rdh /\ nic'.rdt = k.rdt
        /\ nic'.rx_next = k.rx_next
        /\ TxKept(k, <<>>, <<>>) => TxKept(nic', accepted', <<>>)
    BY <1>2, <1>3, <2>1, <2>2, TransmitStep
  <2>4. RxKept(k, <<>>, <<>>) => RxKept(nic', <<>>, <<>>)
    BY <2>3 DEF RxKept
  <2> QED
    BY <1>1, <1>2, <1>3, <1>5, <2>1, <2>3, <2>4 DEF NicInv, NicTypes
<1> QED
  BY <1>4, <1>5

LEMMA SendCallStep ==
  ASSUME NicInv, NEW length, sys_eth_tx(length)
  PROVE  NicInv'
<1>1. /\ nic.status = "up" /\ net_transmit(nic, pages)
      /\ wire' = wire /\ stored' = stored /\ delivered' = delivered
  BY DEF sys_eth_tx
<1>2. NicTypes
  BY DEF NicInv
<1>3. /\ nic' \in NicRecord /\ accepted' \in Seq(Frames)
      /\ nic'.status = nic.status /\ nic'.enabled = nic.enabled
      /\ nic'.rx = nic.rx /\ nic'.rdh = nic.rdh /\ nic'.rdt = nic.rdt
      /\ nic'.rx_next = nic.rx_next
      /\ TxKept(nic, accepted, wire) => TxKept(nic', accepted', wire)
  BY <1>1, <1>2, TransmitStep DEF NicTypes
<1>4. RxKept(nic, stored, delivered) => RxKept(nic', stored, delivered)
  BY <1>3 DEF RxKept
<1>5. CASE nic.enabled
  BY <1>1, <1>2, <1>3, <1>4, <1>5 DEF NicInv, NicTypes
<1>6. CASE ~nic.enabled
  BY <1>1, <1>2, <1>3, <1>6 DEF NicInv, NicTypes
<1> QED
  BY <1>5, <1>6

LEMMA ReceiveCallStep ==
  ASSUME NicInv, NEW bufsize \in Rooms, sys_eth_rx(bufsize)
  PROVE  NicInv'
<1> DEFINE d == nic.rx[nic.rx_next]
           len == IF d.frame.len > bufsize THEN bufsize ELSE d.frame.len
           copy == [n |-> d.frame.n, len |-> len, room |-> bufsize]
           c == i8255x_receive(nic)
<1>1. /\ nic.status = "up" /\ d.dd /\ nic' = c /\ delivered' = Append(delivered, copy)
      /\ accepted' = accepted /\ wire' = wire /\ stored' = stored
  BY DEF sys_eth_rx, net_receive
<1>2. NicTypes /\ nic \in NicRecord
  BY DEF NicInv, NicTypes
<1>3. /\ c \in NicRecord /\ c.status = nic.status /\ c.enabled = nic.enabled
      /\ c.tx = nic.tx /\ c.tdh = nic.tdh /\ c.tdt = nic.tdt
  BY <1>2, ReceiveFields
<1>4. d.frame \in Frames
  BY <1>2 DEF NicRecord, Descriptor
<1>5. copy \in Copies /\ CopyOf(d.frame, copy)
  BY <1>4 DEF Frames, Copies, CopyOf
<1> HIDE DEF copy, c
<1>6. Append(delivered, copy) \in Seq(Copies)
  BY <1>2, <1>5 DEF NicTypes
<1>7. RxKept(nic, stored, delivered) => RxKept(c, stored, Append(delivered, copy))
  BY <1>1, <1>2, <1>5, ReceiveKeeps DEF NicTypes, c
<1>8. TxKept(nic, accepted, wire) => TxKept(c, accepted, wire)
  BY <1>3 DEF TxKept
<1>9. CASE nic.enabled
  BY <1>1, <1>2, <1>3, <1>6, <1>7, <1>8, <1>9 DEF NicInv, NicTypes
<1>10. CASE ~nic.enabled
  BY <1>1, <1>2, <1>3, <1>6, <1>10 DEF NicInv, NicTypes
<1> QED
  BY <1>9, <1>10

LEMMA NullStep ==
  ASSUME NicInv, NullDriver
  PROVE  NicInv'
<1>1. /\ nic.status = "none" /\ nic' = NoDriver("wild") /\ accepted' = accepted
      /\ wire' = wire /\ stored' = stored /\ delivered' = delivered
  BY DEF NullDriver
<1>2. wire = <<>>
  BY <1>1 DEF NicInv
<1>3. nic' \in NicRecord /\ nic'.status = "wild" /\ nic'.enabled = FALSE
  BY <1>1, NoDriverFields
<1> QED
  BY <1>1, <1>2, <1>3 DEF NicInv, NicTypes

LEMMA DeviceSendsStep ==
  ASSUME NicInv, DeviceSends
  PROVE  NicInv'
<1> DEFINE c == Sent1(nic)
           f == nic.tx[nic.tdh].frame
<1>1. /\ nic.enabled /\ nic.tdh # nic.tdt /\ wire' = Append(wire, f) /\ nic' = c
      /\ accepted' = accepted /\ stored' = stored /\ delivered' = delivered
  BY Zenon DEF DeviceSends, Sent1
<1>2. NicTypes /\ nic \in NicRecord /\ TxKept(nic, accepted, wire)
      /\ RxKept(nic, stored, delivered) /\ nic.status = "up"
  BY <1>1 DEF NicInv, NicTypes
<1>3. /\ c \in NicRecord /\ c.status = nic.status /\ c.enabled = nic.enabled
      /\ c.rx = nic.rx /\ c.rdh = nic.rdh /\ c.rdt = nic.rdt /\ c.rx_next = nic.rx_next
  BY <1>2, SentFields
<1>4. f \in Frames
  BY <1>2 DEF NicRecord, Descriptor
<1>5. TxKept(c, accepted, Append(wire, f))
  BY <1>1, <1>2, SendKeeps DEF NicTypes
<1> HIDE DEF c, f
<1>6. Append(wire, f) \in Seq(Frames)
  BY <1>2, <1>4 DEF NicTypes
<1>7. RxKept(c, stored, delivered)
  BY <1>2, <1>3 DEF RxKept
<1> QED
  BY <1>1, <1>2, <1>3, <1>5, <1>6, <1>7 DEF NicInv, NicTypes

LEMMA DeviceReceivesStep ==
  ASSUME NicInv, NEW len \in Nat, DeviceReceives(len)
  PROVE  NicInv'
<1> DEFINE f == [n |-> Len(stored) + 1, len |-> len]
           c == Stored1(nic, f)
<1>1. /\ nic.enabled /\ nic.rdh # nic.rdt /\ stored' = Append(stored, f) /\ nic' = c
      /\ accepted' = accepted /\ wire' = wire /\ delivered' = delivered
  BY Zenon DEF DeviceReceives, Stored1
<1>2. NicTypes /\ nic \in NicRecord /\ TxKept(nic, accepted, wire)
      /\ RxKept(nic, stored, delivered) /\ nic.status = "up"
  BY <1>1 DEF NicInv, NicTypes
<1>3. f \in Frames
  BY <1>2 DEF NicTypes, Frames
<1> HIDE DEF f
<1>4. /\ c \in NicRecord /\ c.status = nic.status /\ c.enabled = nic.enabled
      /\ c.tx = nic.tx /\ c.tdh = nic.tdh /\ c.tdt = nic.tdt
  BY <1>2, <1>3, StoredFields
<1>5. RxKept(c, Append(stored, f), delivered)
  BY <1>1, <1>2, <1>3, StoreKeeps DEF NicTypes
<1> HIDE DEF c
<1>6. Append(stored, f) \in Seq(Frames)
  BY <1>2, <1>3 DEF NicTypes
<1>7. TxKept(c, accepted, wire)
  BY <1>2, <1>4 DEF TxKept
<1> QED
  BY <1>1, <1>2, <1>4, <1>5, <1>6, <1>7 DEF NicInv, NicTypes

LEMMA NicInvStep ==
  ASSUME NicInv, [DNext]_dvars
  PROVE  NicInv'
<1>1. CASE UNCHANGED nvars
  BY <1>1 DEF nvars, NicInv, NicTypes
<1>2. CASE NetBoot
  BY <1>2, BootStep DEF NetBoot, Only
<1>3. CASE NetCall
  <2>1. CASE \E n \in {ETH_MAX_FRAME_SIZE, ETH_MAX_FRAME_SIZE + 1} : sys_eth_tx(n)
    BY <2>1, SendCallStep
  <2>2. CASE \E n \in {ETH_MIN_FRAME_SIZE - 1, ETH_MIN_FRAME_SIZE} : sys_eth_rx(n)
    BY <2>2, ReceiveCallStep DEF Rooms
  <2>3. CASE NullDriver
    BY <2>3, NullStep
  <2> QED
    BY <1>3, <2>1, <2>2, <2>3 DEF NetCall, Only
<1>4. CASE NetDevice
  <2>1. CASE DeviceSends
    BY <2>1, DeviceSendsStep
  <2>2. CASE \E n \in {3, 9} : DeviceReceives(n)
    BY <2>2, DeviceReceivesStep
  <2> QED
    BY <1>4, <2>1, <2>2 DEF NetDevice, Only
<1> QED
  BY <1>1, <1>2, <1>3, <1>4 DEF DNext, dvars, ConsoleStep, PciStep, AudioStep

LEMMA NicInvHolds == DSpec => []NicInv
<1>1. DInit => NicInv
  <2> SUFFICES ASSUME NInit PROVE NicInv
    BY DEF DInit
  <2>1. nic \in NicRecord /\ nic.enabled = FALSE
    BY NoDriverFields DEF NInit
  <2>2. <<>> \in Seq(Frames) /\ <<>> \in Seq(Copies)
    OBVIOUS
  <2> QED
    BY <2>1, <2>2 DEF NInit, NicInv, NicTypes
<1>2. NicInv /\ [DNext]_dvars => NicInv'
  BY NicInvStep
<1> QED
  BY <1>1, <1>2, PTL DEF DSpec

(* For rings of every size, and whether or not all of their pages could be *)
(* had: i8255x_transmit and the device send every accepted frame once and  *)
(* in order, and i8255x_receive returns what the device stored, in order,  *)
(* cut to the caller's buffer.                                             *)
THEOREM RingsAlwaysInOrder == DSpec => []RingsInOrder
<1>1. NicInv => RingsInOrder
  <2> SUFFICES ASSUME NicInv PROVE SentInOrder /\ DeliveredInOrder
    BY DEF RingsInOrder
  <2>1. NicTypes
    BY DEF NicInv
  <2>2. CASE nic.enabled
    <3>1. /\ Len(accepted) \in Nat /\ Len(wire) \in Nat /\ DOMAIN wire = 1..Len(wire)
          /\ Len(stored) \in Nat /\ Len(delivered) \in Nat
          /\ DOMAIN delivered = 1..Len(delivered)
      BY <2>1 DEF NicTypes
    <3>2. TxKept(nic, accepted, wire) /\ RxKept(nic, stored, delivered)
      BY <2>2 DEF NicInv
    <3>3. SentInOrder
      BY <3>1, <3>2 DEF TxKept, SentInOrder
    <3>4. Len(delivered) <= Len(stored)
      BY <3>1, <3>2, NicAssumption DEF RxKept
    <3>5. \A i \in DOMAIN delivered : CopyOf(stored[i], delivered[i])
      BY <3>1, <3>2 DEF RxKept
    <3> QED
      BY <3>3, <3>4, <3>5 DEF CopyOf, DeliveredInOrder
  <2>3. CASE ~nic.enabled
    <3>1. wire = <<>> /\ Len(accepted) \in Nat
      BY <2>1, <2>3 DEF NicInv, NicTypes
    <3>2. Len(wire) = 0 /\ DOMAIN wire = {}
      BY <3>1
    <3> QED
      BY <2>3, <3>1, <3>2 DEF SentInOrder, DeliveredInOrder
  <2> QED
    BY <2>2, <2>3
<1> QED
  BY <1>1, NicInvHolds, PTL
-----------------------------------------------------------------------------
(* The PCI bus: the search meets every place before those after it.        *)
Searches ==
  [by : {"id", "class"}, what : {"nic", "hda"}, at : Sites, base_addr : [1..6 -> Nat],
   result : {"searching", "found", "absent"}]

SpaceOK ==
  /\ DOMAIN space \subseteq Sites
  /\ space \in [DOMAIN space -> PciFunctions]
  /\ \A p \in DOMAIN space : WellFormed(space[p].bars)

Matching == {p \in DOMAIN space : Matches(space[p], find)}

PciInv ==
  part = "pci" =>
    /\ SpaceOK /\ find \in Searches
    /\ find.result = "searching" =>
         /\ \A p \in Matching : ~Before(p, find.at)
         /\ \A i, j \in 1..6 : find.base_addr[i] = find.base_addr[j]
    /\ FoundFirst /\ BarsProbed
(* Every register is looked at except the upper halves.                    *)
LEMMA BarsSeenIs ==
  ASSUME NEW bars, WellFormed(bars)
  PROVE  \A j \in 1..6 : j \in BarsSeen(bars) <=> bars[j].kind # "upper"
<1> DEFINE W(f) == [i \in 1..7 |->
                      IF i > 6 THEN {}
                      ELSE {i} \cup (IF i + BarWidth(bars[i]) > 6 THEN {}
                                     ELSE f[i + BarWidth(bars[i])])]
           Seen == CHOOSE f : f = W(f)
           Upper(i) == bars[i].kind = "upper"
           Wide(i) == bars[i].kind = "mem64"
<1>1. BarsSeen(bars) = Seen[1]
  BY DEF BarsSeen
<1>2. ASSUME NEW i \in 1..6
      PROVE  /\ BarWidth(bars[i]) = IF Wide(i) THEN 2 ELSE 1
             /\ i < 6 => (Upper(i + 1) <=> Wide(i))
             /\ ~(Upper(i) /\ Wide(i)) /\ (Wide(i) => i < 6)
  <2>1. BarWidth(bars[i]) = IF Wide(i) THEN 2 ELSE 1
    BY DEF BarWidth, Probed
  <2>2. ASSUME i < 6 PROVE Upper(i + 1) <=> Wide(i)
    <3>1. i + 1 \in 1..6 /\ (i + 1) - 1 = i /\ i + 1 > 1
      BY <2>2
    <3> QED
      BY <3>1 DEF WellFormed
  <2>3. Wide(i) => i < 6
    BY DEF WellFormed
  <2> QED
    BY <2>1, <2>2, <2>3
<1>3. ~Upper(1)
  BY DEF WellFormed
<1> HIDE DEF Upper, Wide
<1>4. ASSUME NEW f, NEW i \in 1..6
      PROVE  W(f)[i] = IF Wide(i) THEN {i} \cup (IF i + 2 > 6 THEN {} ELSE f[i + 2])
                       ELSE {i} \cup (IF i + 1 > 6 THEN {} ELSE f[i + 1])
  <2> DEFINE w == BarWidth(bars[i])
  <2>1. W(f)[i] = {i} \cup (IF i + w > 6 THEN {} ELSE f[i + w])
    <3>1. ~(i > 6) /\ i \in 1..7
      OBVIOUS
    <3> QED
      BY <3>1
  <2>2. w = IF Wide(i) THEN 2 ELSE 1
    BY <1>2
  <2> HIDE DEF w, W
  <2>3. CASE Wide(i)
    <3>1. w = 2
      BY <2>2, <2>3
    <3> QED
      BY <2>1, <2>3, <3>1
  <2>4. CASE ~Wide(i)
    <3>1. w = 1
      BY <2>2, <2>4
    <3> QED
      BY <2>1, <2>4, <3>1
  <2> QED
    BY <2>3, <2>4
<1>5. ASSUME NEW f PROVE W(f)[7] = {} /\ DOMAIN W(f) = 1..7
  OBVIOUS
<1>6. Seen = W(Seen)
  <2> DEFINE e == [i \in 1..7 |-> {j \in i..6 : j = i \/ ~Upper(j)}]
  <2>1. ASSUME NEW i \in 1..6 PROVE W(e)[i] = e[i]
    <3>1. CASE Wide(i)
      <4>1. i < 6 /\ Upper(i + 1) /\ ~Wide(i + 1)
        BY <1>2, <3>1
      <4>2. CASE i + 2 > 6
        <5>1. i = 5 /\ Upper(6)
          BY <4>1, <4>2
        <5>2. W(e)[i] = {i}
          BY <1>4, <3>1, <4>2
        <5>3. e[i] = {j \in 5..6 : j = 5 \/ ~Upper(j)}
          BY <5>1
        <5> HIDE DEF W, e
        <5> QED
          BY <5>1, <5>2, <5>3
      <4>3. CASE ~(i + 2 > 6)
        <5>1. i + 2 \in 1..6 /\ ~Upper(i + 2)
          <6>1. i + 1 \in 1..6 /\ i + 1 < 6 /\ (i + 1) + 1 = i + 2
            BY <4>3
          <6> QED
            BY <1>2, <4>1, <6>1
        <5>2. W(e)[i] = {i} \cup e[i + 2]
          <6> HIDE DEF W, e
          <6> QED
            BY <1>4, <3>1, <4>3
        <5>3. e[i + 2] = {j \in (i + 2)..6 : ~Upper(j)}
          BY <5>1
        <5>4. e[i] = {j \in i..6 : j = i \/ ~Upper(j)}
          OBVIOUS
        <5> HIDE DEF W, e
        <5>5. ASSUME NEW j PROVE j \in e[i] <=> j \in {i} \cup e[i + 2]
          <6>1. j \in e[i] => j = i \/ (j \in (i + 2)..6 /\ ~Upper(j))
            BY <4>1, <5>4
          <6> QED
            BY <5>3, <5>4, <6>1
        <5> QED
          BY <5>2, <5>5
      <4> QED
        BY <4>2, <4>3
    <3>2. CASE ~Wide(i)
      <4>1. CASE i + 1 > 6
        <5>1. i = 6
          BY <4>1
        <5>2. W(e)[i] = {i}
          BY <1>4, <3>2, <4>1
        <5>3. e[i] = {j \in 6..6 : j = 6 \/ ~Upper(j)}
          BY <5>1
        <5> HIDE DEF W, e
        <5> QED
          BY <5>1, <5>2, <5>3
      <4>2. CASE ~(i + 1 > 6)
        <5>1. i + 1 \in 1..6 /\ ~Upper(i + 1)
          BY <1>2, <3>2, <4>2
        <5>2. W(e)[i] = {i} \cup e[i + 1]
          <6> HIDE DEF W, e
          <6> QED
            BY <1>4, <3>2, <4>2
        <5>3. e[i + 1] = {j \in (i + 1)..6 : ~Upper(j)}
          BY <5>1
        <5>4. e[i] = {j \in i..6 : j = i \/ ~Upper(j)}
          OBVIOUS
        <5> HIDE DEF W, e
        <5>5. ASSUME NEW j PROVE j \in e[i] <=> j \in {i} \cup e[i + 1]
          <6>1. j \in e[i] => j = i \/ (j \in (i + 1)..6 /\ ~Upper(j))
            BY <5>4
          <6> QED
            BY <5>3, <5>4, <6>1
        <5> QED
          BY <5>2, <5>5
      <4> QED
        BY <4>1, <4>2
    <3> QED
      BY <3>1, <3>2
  <2>2. e[7] = {}
    OBVIOUS
  <2>3. e = W(e)
    <3>1. e \in [1..7 -> SUBSET Int] /\ DOMAIN e = 1..7
      OBVIOUS
    <3>2. ASSUME NEW i \in 1..7 PROVE W(e)[i] = e[i]
      <4>1. i = 7 \/ i \in 1..6
        OBVIOUS
      <4> HIDE DEF W, e
      <4> QED
        BY <1>5, <2>1, <2>2, <4>1
    <3>3. W(e) = [i \in 1..7 |-> W(e)[i]]
      OBVIOUS
    <3>4. e = [i \in 1..7 |-> e[i]]
      OBVIOUS
    <3> HIDE DEF W, e
    <3> QED
      BY <3>2, <3>3, <3>4
  <2> QED
    BY <2>3
<1> HIDE DEF Seen
<1>7. ASSUME NEW i \in 1..6
      PROVE  Seen[i] = IF Wide(i) THEN {i} \cup (IF i + 2 > 6 THEN {} ELSE Seen[i + 2])
                       ELSE {i} \cup (IF i + 1 > 6 THEN {} ELSE Seen[i + 1])
  <2> HIDE DEF W
  <2>1. Seen[i] = W(Seen)[i]
    BY <1>6
  <2> QED
    BY <1>4, <2>1
<1> HIDE DEF W
<1> DEFINE Goes(i) == i <= 6 /\ ~Upper(i)
                         => \A j \in 1..6 : j \in Seen[i] <=> j >= i /\ ~Upper(j)
<1>8. ASSUME NEW i \in 1..6, Goes(i + 1), Goes(i + 2) PROVE Goes(i)
  <2> SUFFICES ASSUME ~Upper(i), NEW j \in 1..6
               PROVE  j \in Seen[i] <=> j >= i /\ ~Upper(j)
    OBVIOUS
  <2>1. CASE Wide(i)
    <3>1. i < 6 /\ Upper(i + 1)
      BY <1>2, <2>1
    <3>2. CASE i = 5
      <4>1. Seen[i] = {5} /\ Upper(6)
        BY <1>7, <2>1, <3>1, <3>2
      <4>2. j >= 5 => j = 5 \/ j = 6
        OBVIOUS
      <4> QED
        BY <3>2, <4>1, <4>2
    <3>3. CASE i # 5
      <4>1. i + 1 \in 1..6 /\ i + 1 < 6 /\ (i + 1) + 1 = i + 2 /\ i + 2 <= 6
        BY <3>1, <3>3
      <4>2. ~Upper(i + 2)
        BY <1>2, <3>1, <4>1
      <4>3. Seen[i] = {i} \cup Seen[i + 2]
        BY <1>7, <2>1, <4>1
      <4>4. j \in Seen[i + 2] <=> j >= i + 2 /\ ~Upper(j)
        BY <1>8, <4>1, <4>2
      <4>5. j >= i <=> j = i \/ j = i + 1 \/ j >= i + 2
        OBVIOUS
      <4> QED
        BY <3>1, <4>3, <4>4, <4>5
    <3> QED
      BY <3>2, <3>3
  <2>2. CASE ~Wide(i)
    <3>1. CASE i = 6
      <4>1. Seen[i] = {6}
        BY <1>7, <2>2, <3>1
      <4>2. j >= 6 <=> j = 6
        OBVIOUS
      <4> QED
        BY <3>1, <4>1, <4>2
    <3>2. CASE i # 6
      <4>1. i < 6 /\ i + 1 <= 6
        BY <3>2
      <4>2. ~Upper(i + 1)
        BY <1>2, <2>2, <4>1
      <4>3. Seen[i] = {i} \cup Seen[i + 1]
        BY <1>7, <2>2, <4>1
      <4>4. j \in Seen[i + 1] <=> j >= i + 1 /\ ~Upper(j)
        BY <1>8, <4>1, <4>2
      <4>5. j >= i <=> j = i \/ j >= i + 1
        OBVIOUS
      <4> QED
        BY <4>3, <4>4, <4>5
    <3> QED
      BY <3>1, <3>2
  <2> QED
    BY <2>1, <2>2
<1>9. Goes(1)
  <2>1. Goes(7) /\ Goes(8)
    OBVIOUS
  <2> HIDE DEF Goes
  <2>2. Goes(6)
    BY <1>8, <2>1
  <2>3. Goes(5)
    BY <1>8, <2>1, <2>2
  <2>4. Goes(4)
    BY <1>8, <2>2, <2>3
  <2>5. Goes(3)
    BY <1>8, <2>3, <2>4
  <2>6. Goes(2)
    BY <1>8, <2>4, <2>5
  <2> QED
    BY <1>8, <2>5, <2>6
<1> QED
  BY <1>1, <1>3, <1>9 DEF Upper
(* pci_func_enable stores the address of every register that exists.       *)
LEMMA EnableProbes ==
  ASSUME NEW place \in DOMAIN space, SpaceOK, NEW held \in [1..6 -> Nat],
         \A i, j \in 1..6 : held[i] = held[j]
  PROVE  LET e == pci_func_enable(space, place, held)
             bars == space[place].bars
             Used(i) == bars[i].kind \in {"mem", "mem64", "io"}
         IN /\ e.base_addr \in [1..6 -> Nat]
            /\ \A i \in 1..6 : Used(i) => e.base_addr[i] = bars[i].addr
            /\ \A i, j \in 1..6 : ~Used(i) /\ ~Used(j) => e.base_addr[i] = e.base_addr[j]
            /\ Used(1) => get_mmio_addr(e.base_addr) = bars[1].addr
<1> DEFINE bars == space[place].bars
           e == pci_func_enable(space, place, held)
           a == [i \in 1..6 |-> IF i \in BarsSeen(bars) /\ Probed(bars[i]) # "zero"
                                THEN bars[i].addr ELSE held[i]]
           Used(i) == bars[i].kind \in {"mem", "mem64", "io"}
<1>1. e.base_addr = a
  BY DEF pci_func_enable
<1>2. WellFormed(bars)
  BY DEF SpaceOK
<1> HIDE DEF bars, e
<1>3. bars \in [1..6 -> [kind : BarKinds, addr : Nat]]
  BY <1>2 DEF WellFormed
<1>4. ASSUME NEW i \in 1..6
      PROVE  /\ Used(i) => a[i] = bars[i].addr /\ bars[i].addr # 0
             /\ ~Used(i) => a[i] = held[i]
  <2>1. i \in BarsSeen(bars) <=> bars[i].kind # "upper"
    BY <1>2, BarsSeenIs
  <2>2. /\ bars[i].kind \in BarKinds
        /\ bars[i].kind \in {"io", "mem", "mem64"} => bars[i].addr # 0
    BY <1>2, <1>3 DEF WellFormed
  <2>3. Probed(bars[i]) # "zero" <=> bars[i].kind # "none"
    BY <2>2 DEF Probed, BarKinds
  <2>4. Used(i) <=> i \in BarsSeen(bars) /\ Probed(bars[i]) # "zero"
    BY <2>1, <2>2, <2>3 DEF BarKinds
  <2>5. a[i] = IF i \in BarsSeen(bars) /\ Probed(bars[i]) # "zero"
               THEN bars[i].addr ELSE held[i]
    OBVIOUS
  <2> HIDE DEF a
  <2> QED
    BY <2>2, <2>4, <2>5
<1>5. a \in [1..6 -> Nat]
  BY <1>3
<1> HIDE DEF a
<1>6. ASSUME Used(1) PROVE get_mmio_addr(a) = bars[1].addr
  <2> DEFINE used == {i \in 1..6 : a[i] # 0}
             c == CHOOSE i \in used : \A j \in used : i <= j
  <2>1. 1 \in used /\ used # {} /\ \A j \in used : 1 <= j
    BY <1>4, <1>6
  <2>2. c \in used /\ \A j \in used : c <= j
    BY <2>1
  <2>3. c = 1
    <3>1. c \in 1..6 /\ c <= 1
      BY <2>1, <2>2
    <3> HIDE DEF c
    <3> QED
      BY <3>1
  <2>4. get_mmio_addr(a) = a[c]
    BY <2>1 DEF get_mmio_addr
  <2> HIDE DEF c
  <2> QED
    BY <1>4, <1>6, <2>3, <2>4
<1>7. ASSUME NEW i \in 1..6, NEW j \in 1..6, ~Used(i), ~Used(j) PROVE a[i] = a[j]
  BY <1>4, <1>7
<1> QED
  BY <1>1, <1>4, <1>5, <1>6, <1>7 DEF bars, e

(* The counters pass no place by: what is before the next place was before *)
(* this one, or is it.                                                     *)
LEMMA NextPlaceIs ==
  ASSUME NEW by \in {"id", "class"}, NEW at \in Sites
  PROVE  LET n == NextPlace(by, at) IN
         /\ ~n.end => n.at \in Sites
                      /\ \A p \in Sites : Before(p, n.at) => p = at \/ Before(p, at)
         /\ n.end => \A p \in Sites : p = at \/ Before(p, at)
<1> DEFINE n == NextPlace(by, at)
           b == at[1]
           d == at[2]
           f == at[3]
           B == PCI_MAX_BUSES
           D == PCI_MAX_DEVICES_PER_BUS
           F == PCI_MAX_FUNCTIONS
           nextb == IF by = "id" THEN b + 1 ELSE (b + 1) % UINT8_RANGE
<1>1. /\ B \in Nat /\ B > 0 /\ D \in Nat /\ D > 0 /\ F \in Nat /\ F > 0
      /\ UINT8_RANGE \in Nat \ {0} /\ UINT8_RANGE >= B
  BY PciAssumption
<1>2. at = <<b, d, f>> /\ b \in 0..B-1 /\ d \in 0..D-1 /\ f \in 0..F-1
  BY DEF Sites
<1>3. ASSUME NEW p \in Sites
      PROVE  p = <<p[1], p[2], p[3]>> /\ p[1] \in 0..B-1 /\ p[2] \in 0..D-1 /\ p[3] \in 0..F-1
  BY DEF Sites
<1>4. CASE f + 1 # F
  <2>1. n.end = FALSE /\ n.at = <<b, d, f + 1>>
    BY <1>4 DEF NextPlace
  <2>2. n.at \in Sites
    <3>1. f + 1 \in 0..F-1
      BY <1>1, <1>2, <1>4
    <3> QED
      BY <1>2, <2>1, <3>1 DEF Sites
  <2>3. ASSUME NEW p \in Sites, Before(p, n.at) PROVE p = at \/ Before(p, at)
    <3>1. \/ p[1] < b
          \/ p[1] = b /\ (p[2] < d \/ (p[2] = d /\ p[3] < f + 1))
      BY <2>1, <2>3 DEF Before
    <3> HIDE DEF b, d, f, B, D, F
    <3>2. \/ p[1] < b
          \/ p[1] = b /\ (p[2] < d \/ (p[2] = d /\ p[3] < f))
          \/ p[1] = b /\ p[2] = d /\ p[3] = f
      BY <1>2, <1>3, <3>1
    <3> QED
      BY <1>2, <1>3, <3>2 DEF Before, b, d, f
  <2> HIDE DEF n
  <2> QED
    BY <2>1, <2>2, <2>3 DEF n
<1>5. CASE f + 1 = F /\ d + 1 # D
  <2>1. n.end = FALSE /\ n.at = <<b, d + 1, 0>>
    BY <1>5 DEF NextPlace
  <2>2. n.at \in Sites
    <3>1. d + 1 \in 0..D-1 /\ 0 \in 0..F-1
      BY <1>1, <1>2, <1>5
    <3> QED
      BY <1>2, <2>1, <3>1 DEF Sites
  <2>3. ASSUME NEW p \in Sites, Before(p, n.at) PROVE p = at \/ Before(p, at)
    <3>1. \/ p[1] < b
          \/ p[1] = b /\ (p[2] < d + 1 \/ (p[2] = d + 1 /\ p[3] < 0))
      BY <2>1, <2>3 DEF Before
    <3> HIDE DEF b, d, f, B, D, F
    <3>2. \/ p[1] < b
          \/ p[1] = b /\ (p[2] < d \/ (p[2] = d /\ p[3] < f))
          \/ p[1] = b /\ p[2] = d /\ p[3] = f
      BY <1>1, <1>2, <1>3, <1>5, <3>1
    <3> QED
      BY <1>2, <1>3, <3>2 DEF Before, b, d, f
  <2> HIDE DEF n
  <2> QED
    BY <2>1, <2>2, <2>3 DEF n
<1>6. CASE f + 1 = F /\ d + 1 = D
  <2>1. n.end = (nextb >= B) /\ n.at = <<nextb, 0, 0>>
    BY <1>6 DEF NextPlace
  <2>2. nextb \in Nat /\ (nextb = b + 1 \/ nextb = 0) /\ (nextb >= B => nextb = b + 1)
    <3>1. b + 1 \in Nat /\ b + 1 <= UINT8_RANGE
      BY <1>1, <1>2
    <3>2. (b + 1) % UINT8_RANGE = IF b + 1 < UINT8_RANGE THEN b + 1 ELSE 0
      <4> DEFINE x == b + 1
      <4>1. x \in Nat /\ x <= UINT8_RANGE /\ x < 2 * UINT8_RANGE
        BY <1>1, <3>1
      <4> HIDE DEF x
      <4>2. x % UINT8_RANGE = IF x < UINT8_RANGE THEN x ELSE x - UINT8_RANGE
        BY <1>1, <4>1, ModTwice
      <4>3. x % UINT8_RANGE = IF x < UINT8_RANGE THEN x ELSE 0
        BY <1>1, <4>1, <4>2
      <4> QED
        BY <4>3 DEF x
    <3> QED
      BY <1>1, <3>1, <3>2
  <2> HIDE DEF nextb, n
  <2>3. ASSUME nextb >= B, NEW p \in Sites PROVE p = at \/ Before(p, at)
    <3> HIDE DEF b, d, f, B, D, F
    <3>1. b = B - 1
      BY <1>1, <1>2, <2>2, <2>3
    <3>2. \/ p[1] < b
          \/ p[1] = b /\ (p[2] < d \/ (p[2] = d /\ p[3] < f))
          \/ p[1] = b /\ p[2] = d /\ p[3] = f
      BY <1>1, <1>2, <1>3, <1>6, <3>1
    <3> QED
      BY <1>2, <1>3, <3>2 DEF Before, b, d, f
  <2>4. ASSUME ~(nextb >= B) PROVE n.at \in Sites
    <3>1. nextb \in 0..B-1 /\ 0 \in 0..D-1 /\ 0 \in 0..F-1
      BY <1>1, <2>2, <2>4
    <3> QED
      BY <2>1, <3>1 DEF Sites
  <2>5. ASSUME NEW p \in Sites, Before(p, n.at) PROVE p = at \/ Before(p, at)
    <3>1. \/ p[1] < nextb
          \/ p[1] = nextb /\ (p[2] < 0 \/ (p[2] = 0 /\ p[3] < 0))
      BY <2>1, <2>5 DEF Before
    <3> HIDE DEF b, d, f, B, D, F
    <3>2. p[1] < b + 1
      BY <1>2, <1>3, <2>2, <3>1
    <3>3. \/ p[1] < b
          \/ p[1] = b /\ (p[2] < d \/ (p[2] = d /\ p[3] < f))
          \/ p[1] = b /\ p[2] = d /\ p[3] = f
      BY <1>1, <1>2, <1>3, <1>6, <3>2
    <3> QED
      BY <1>2, <1>3, <3>3 DEF Before, b, d, f
  <2> QED
    BY <2>1, <2>3, <2>4, <2>5 DEF n
<1> QED
  BY <1>4, <1>5, <1>6
(* Enabling a function changes nothing but its command register.           *)
LEMMA EnableKeeps ==
  ASSUME NEW place \in DOMAIN space, SpaceOK, NEW held
  PROVE  LET s == pci_func_enable(space, place, held).space IN
         /\ DOMAIN s = DOMAIN space /\ s \in [DOMAIN space -> PciFunctions]
         /\ {"mem", "master"} \subseteq s[place].cmd
         /\ \A p \in DOMAIN space :
              /\ s[p].id = space[p].id /\ s[p].class = space[p].class
              /\ s[p].bars = space[p].bars
<1> DEFINE s == pci_func_enable(space, place, held).space
           cmd == space[place].cmd \cup {"mem", "master"}
<1>1. s = [space EXCEPT ![place].cmd = @ \cup {"mem", "master"}]
  BY DEF pci_func_enable
<1>2. space \in [DOMAIN space -> PciFunctions]
  BY DEF SpaceOK
<1>3. space[place] \in PciFunctions
  BY <1>2
<1>4. cmd \in SUBSET CommandBits
  <2>1. space[place].cmd \in SUBSET CommandBits
    BY <1>3 DEF PciFunctions
  <2> QED
    BY <2>1 DEF CommandBits
<1> DEFINE r == [space[place] EXCEPT !.cmd = cmd]
<1>5. /\ r \in PciFunctions /\ r.cmd = cmd
      /\ r.id = space[place].id /\ r.class = space[place].class
      /\ r.bars = space[place].bars
  <2> HIDE DEF cmd
  <2> QED
    BY <1>3, <1>4 DEF PciFunctions
<1>6. s = [space EXCEPT ![place] = r]
  BY <1>1, Zenon
<1> HIDE DEF r, s
<1>7. /\ DOMAIN s = DOMAIN space /\ s[place] = r /\ s \in [DOMAIN space -> PciFunctions]
      /\ \A p \in DOMAIN space : p # place => s[p] = space[p]
  BY <1>2, <1>5, <1>6
<1> QED
  BY <1>5, <1>7 DEF s

(* BarsProbed after a step, in terms of what the step left.                *)
LEMMA BarsProbedBy ==
  ASSUME NEW bars, NEW cmd, NEW x,
         space'[find'.at].bars = bars, space'[find'.at].cmd = cmd,
         find'.base_addr = x, {"mem", "master"} \subseteq cmd,
         \A i \in 1..6 : bars[i].kind \in {"mem", "mem64", "io"} => x[i] = bars[i].addr,
         \A i, j \in 1..6 :
           /\ ~(bars[i].kind \in {"mem", "mem64", "io"})
           /\ ~(bars[j].kind \in {"mem", "mem64", "io"})
           => x[i] = x[j],
         bars[1].kind \in {"mem", "mem64", "io"} => get_mmio_addr(x) = bars[1].addr
  PROVE  BarsProbed'
BY Zenon DEF BarsProbed

(* The probe that matches: the function is enabled and its bases taken.    *)
LEMMA ProbeFound ==
  ASSUME PciInv, part = "pci", find.result = "searching",
         find.at \in DOMAIN space, Matches(space[find.at], find),
         space' = pci_func_enable(space, find.at, find.base_addr).space,
         find' = [find EXCEPT !.result = "found",
                    !.base_addr = pci_func_enable(space, find.at, find.base_addr).base_addr],
         part' = part
  PROVE  PciInv'
<1> DEFINE at == find.at
           held == find.base_addr
           e == pci_func_enable(space, at, held)
           bars == space[at].bars
           Used(i) == bars[i].kind \in {"mem", "mem64", "io"}
<1>1. /\ SpaceOK /\ find \in Searches /\ at \in Sites /\ held \in [1..6 -> Nat]
      /\ \A p \in Matching : ~Before(p, at)
      /\ \A i, j \in 1..6 : held[i] = held[j]
  BY DEF PciInv, Searches
<1>2. /\ DOMAIN e.space = DOMAIN space /\ e.space \in [DOMAIN space -> PciFunctions]
      /\ {"mem", "master"} \subseteq e.space[at].cmd
      /\ \A p \in DOMAIN space :
           /\ e.space[p].id = space[p].id /\ e.space[p].class = space[p].class
           /\ e.space[p].bars = space[p].bars
  <2>1. at \in DOMAIN space
    OBVIOUS
  <2> DEFINE table == e.space
  <2> HIDE DEF at, held
  <2>2. /\ DOMAIN table = DOMAIN space /\ table \in [DOMAIN space -> PciFunctions]
        /\ {"mem", "master"} \subseteq table[at].cmd
        /\ \A p \in DOMAIN space :
             /\ table[p].id = space[p].id /\ table[p].class = space[p].class
             /\ table[p].bars = space[p].bars
    BY <1>1, <2>1, EnableKeeps, ZenonT(30)
  <2> HIDE DEF e
  <2> QED
    BY <2>2, Zenon
<1>3. /\ e.base_addr \in [1..6 -> Nat]
      /\ \A i \in 1..6 : Used(i) => e.base_addr[i] = bars[i].addr
      /\ \A i, j \in 1..6 : ~Used(i) /\ ~Used(j) => e.base_addr[i] = e.base_addr[j]
      /\ Used(1) => get_mmio_addr(e.base_addr) = bars[1].addr
  BY <1>1, EnableProbes
<1>4. space' = e.space /\ find' = [find EXCEPT !.result = "found", !.base_addr = e.base_addr]
  OBVIOUS
<1> HIDE DEF e
<1>5. /\ find' \in Searches /\ find'.by = find.by /\ find'.what = find.what
      /\ find'.result = "found" /\ find'.at = at /\ find'.base_addr = e.base_addr
  <2> DEFINE x == e.base_addr
  <2>1. x \in [1..6 -> Nat] /\ find' = [find EXCEPT !.result = "found", !.base_addr = x]
    BY <1>3, <1>4
  <2> HIDE DEF x
  <2>2. /\ find' \in Searches /\ find'.by = find.by /\ find'.what = find.what
        /\ find'.result = "found" /\ find'.at = at /\ find'.base_addr = x
    BY <1>1, <2>1 DEF Searches
  <2> QED
    BY <2>2 DEF x
<1>6. SpaceOK'
  BY <1>1, <1>2, <1>4 DEF SpaceOK
<1>7. ASSUME NEW p \in DOMAIN space PROVE Matches(space'[p], find') <=> Matches(space[p], find)
  BY <1>2, <1>4, <1>5 DEF Matches
<1>8. FoundFirst'
  <2>1. \A p \in DOMAIN space' : Matches(space'[p], find') => p \in Matching
    BY <1>2, <1>4, <1>7 DEF Matching
  <2>2. at \in DOMAIN space' /\ Matches(space'[at], find')
    BY <1>2, <1>4, <1>7
  <2> QED
    BY <1>1, <1>5, <2>1, <2>2 DEF FoundFirst
<1>9. BarsProbed'
  <2>1. space'[find'.at].bars = bars /\ space'[find'.at].cmd = e.space[at].cmd
    BY <1>2, <1>4, <1>5
  <2> DEFINE cmd == e.space[at].cmd
             x == e.base_addr
  <2>2. find'.base_addr = x /\ space'[find'.at].cmd = cmd
    BY <1>5, <2>1
  <2>3. {"mem", "master"} \subseteq cmd
    BY <1>2
  <2>4. /\ \A i \in 1..6 : Used(i) => x[i] = bars[i].addr
        /\ \A i, j \in 1..6 : ~Used(i) /\ ~Used(j) => x[i] = x[j]
        /\ Used(1) => get_mmio_addr(x) = bars[1].addr
    BY <1>3
  <2> HIDE DEF bars, cmd, x
  <2> QED
    BY <2>1, <2>2, <2>3, <2>4, BarsProbedBy
<1> QED
  BY <1>5, <1>6, <1>8, <1>9 DEF PciInv

LEMMA ProbeStep ==
  ASSUME PciInv, part = "pci", Probe, part' = part
  PROVE  PciInv'
<1> DEFINE at == find.at
           next == NextPlace(find.by, at)
<1>1. /\ SpaceOK /\ find \in Searches /\ at \in Sites /\ find.base_addr \in [1..6 -> Nat]
      /\ find.by \in {"id", "class"} /\ find.what \in {"nic", "hda"}
      /\ find.result = "searching"
      /\ \A p \in Matching : ~Before(p, at)
      /\ \A i, j \in 1..6 : find.base_addr[i] = find.base_addr[j]
  BY DEF PciInv, Searches, Probe
<1>2. CASE Matches(pci_read_config(space, at), find)
  <2>1. at \in DOMAIN space
    BY <1>1, <1>2 DEF pci_read_config, NoFunction, Matches
  <2>2. Matches(space[at], find)
    BY <1>2, <2>1 DEF pci_read_config
  <2>3. /\ space' = pci_func_enable(space, find.at, find.base_addr).space
        /\ find' = [find EXCEPT !.result = "found",
                    !.base_addr = pci_func_enable(space, find.at, find.base_addr).base_addr]
    BY <1>2 DEF Probe
  <2> QED
    BY <1>1, <2>1, <2>2, <2>3, ProbeFound
<1>3. CASE ~Matches(pci_read_config(space, at), find)
  <2>1. /\ space' = space
        /\ find' = IF next.end THEN [find EXCEPT !.result = "absent"]
                   ELSE [find EXCEPT !.at = next.at]
    BY <1>3 DEF Probe
  <2>2. at \notin Matching
    BY <1>3 DEF Matching, pci_read_config
  <2>3. Matching \subseteq Sites
    BY <1>1 DEF Matching, SpaceOK
  <2>4. /\ ~next.end => next.at \in Sites
                        /\ \A p \in Sites : Before(p, next.at) => p = at \/ Before(p, at)
        /\ next.end => \A p \in Sites : p = at \/ Before(p, at)
    BY <1>1, NextPlaceIs
  <2> HIDE DEF next
  <2>5. SpaceOK'
    BY <1>1, <2>1 DEF SpaceOK
  <2>6. CASE next.end
    <3>1. Matching = {}
      BY <1>1, <2>2, <2>3, <2>4, <2>6
    <3>2. /\ find' \in Searches /\ find'.by = find.by /\ find'.what = find.what
          /\ find'.result = "absent"
      BY <1>1, <2>1, <2>6 DEF Searches
    <3>3. FoundFirst'
      BY <2>1, <3>1, <3>2 DEF FoundFirst, Matching, Matches
    <3> QED
      BY <2>5, <3>2, <3>3 DEF PciInv, BarsProbed
  <2>7. CASE ~next.end
    <3> DEFINE a == next.at
    <3>1. a \in Sites /\ find' = [find EXCEPT !.at = a]
      BY <2>1, <2>4, <2>7
    <3>2. /\ find' \in Searches /\ find'.by = find.by /\ find'.what = find.what
          /\ find'.result = "searching" /\ find'.at = a
          /\ find'.base_addr = find.base_addr
      <4> HIDE DEF a
      <4> QED
        BY <1>1, <3>1 DEF Searches
    <3>3. Matching' = Matching
      BY <2>1, <3>2 DEF Matching, Matches
    <3>4. \A p \in Matching : ~Before(p, a)
      BY <1>1, <2>2, <2>3, <2>4, <2>7
    <3> HIDE DEF a
    <3> QED
      BY <1>1, <2>5, <3>2, <3>3, <3>4 DEF PciInv, FoundFirst, BarsProbed
  <2> QED
    BY <2>6, <2>7
<1> QED
  BY <1>2, <1>3

LEMMA PciInvInit == DInit => PciInv
<1> SUFFICES ASSUME DInit, part = "pci" PROVE PciInv
  BY DEF PciInv
<1>1. PInit({0, 9})
  BY DEF DInit
<1>2. SpaceOK
  BY <1>1, BoardsAssumption DEF PInit, SpaceOK
<1>3. <<0, 0, 0>> \in Sites
  BY PciAssumption DEF Sites
<1>4. /\ find.by \in {"id", "class"} /\ find.what \in {"nic", "hda"} /\ find.at = <<0, 0, 0>>
      /\ find.result = "searching"
      /\ find.base_addr \in {[i \in 1..6 |-> g] : g \in {0, 9}}
  BY <1>1 DEF PInit
<1>5. find = [by |-> find.by, what |-> find.what, at |-> find.at,
              base_addr |-> find.base_addr, result |-> find.result]
  BY <1>1 DEF PInit
<1>6. /\ find.base_addr \in [1..6 -> Nat]
      /\ \A i, j \in 1..6 : find.base_addr[i] = find.base_addr[j]
  BY <1>4
<1>7. find \in Searches
  BY <1>3, <1>4, <1>5, <1>6 DEF Searches
<1>8. ASSUME NEW p \in Matching PROVE ~Before(p, find.at)
  <2>1. p \in Sites
    BY <1>2 DEF Matching, SpaceOK
  <2>2. p[1] \in Nat /\ p[2] \in Nat /\ p[3] \in Nat
    BY <2>1, PciAssumption DEF Sites
  <2> QED
    BY <1>4, <2>2 DEF Before
<1> QED
  BY <1>2, <1>4, <1>6, <1>7, <1>8 DEF PciInv, FoundFirst, BarsProbed

LEMMA PciInvStep ==
  ASSUME PciInv, [DNext]_dvars
  PROVE  PciInv'
<1>1. CASE UNCHANGED <<part, pvars>>
  BY <1>1 DEF pvars, PciInv, SpaceOK, Matching, FoundFirst, BarsProbed
<1>2. CASE PciStep
  BY <1>2, ProbeStep DEF PciStep
<1>3. CASE part # "pci" /\ part' = part
  BY <1>3 DEF PciInv
<1> QED
  BY <1>1, <1>2, <1>3
  DEF DNext, dvars, ConsoleStep, NetBoot, NetCall, NetDevice, Only, AudioStep

(* On every bus of well-formed functions: pci_find_device_by_id and        *)
(* pci_find_device_by_class return the first function that matches, or     *)
(* that there is none, and pci_func_enable leaves the address of each of   *)
(* its registers in that register's slot.                                  *)
THEOREM AlwaysFoundAndProbed == DSpec => []FoundAndProbed
<1>1. DInit => PciInv
  BY PciInvInit
<1>2. PciInv /\ [DNext]_dvars => PciInv'
  BY PciInvStep
<1>3. PciInv => FoundAndProbed
  BY DEF PciInv, FoundAndProbed, FoundFirst, BarsProbed
<1> QED
  BY <1>1, <1>2, <1>3, PTL DEF DSpec
-----------------------------------------------------------------------------
(* The audio controller: answers belong to questions, and the walk asks    *)
(* for every widget.                                                       *)
Verbs ==
  {"VID", "SUBORDCNT", "FGTYPE", "FGCAPS", "AWCAPS", "AMP_GET_IN", "AMP_GET_OUT", "AMP_SET"}
Asks == [verb : Verbs, caddr : DOMAIN Codecs, nid : Nat]
Truths == {<<c, Answer(c)>> : c \in Asks}
Walker ==
  [pc : {"idle", "send", "busy", "valid", "return"}, cmd : Asks \cup {None},
   i : Nat, j : Nat, wi : Nat, start : Nat, count : Nat, s_start : Nat, s_count : Nat,
   fg_type : Nat, log : SUBSET Truths, walks : Nat]

(* The widgets of audio groups, as codec, group and position; their nodes. *)
Widgets ==
  {y \in (DOMAIN Codecs) \X (1..NODE_RANGE) \X (1..NODE_RANGE) :
     /\ y[2] \in DOMAIN Codecs[y[1]].groups
     /\ Codecs[y[1]].groups[y[2]].type = 1
     /\ y[3] \in DOMAIN Codecs[y[1]].groups[y[2]].widgets}
NidOf(y) == Codecs[y[1]].groups[y[2]].start + y[3] - 1
Asked(log) ==
  {<<l[1].caddr, l[1].nid>> : l \in {m \in log : m[1].verb = "AWCAPS"}}

(* The nodes the walk has passed when it is at codec c, has done g of its  *)
(* groups and, of the next, the nodes below n.                             *)
Passed(y, c, g, n) ==
  \/ y[1] < c
  \/ y[1] = c /\ (y[2] <= g \/ (y[2] = g + 1 /\ NidOf(y) < n))
Walked(c, g, n) ==
  {<<y[1], NidOf(y)>> : y \in {z \in Widgets : Passed(z, c, g, n)}}
AllWalked == {<<y[1], NidOf(y)>> : y \in Widgets}

(* Where the walk is, by the question it asks.                             *)
Group(s) == Codecs[s.i].groups[s.j + 1]
InGroup(s) ==
  s.start = Codecs[s.i].start /\ s.count = Len(Codecs[s.i].groups) /\ s.j < s.count
InWidgets(s) ==
  Group(s).type = 1 /\ s.s_start = Group(s).start /\ s.s_count = Len(Group(s).widgets)
WalkAt(s) ==
  LET verb == s.cmd.verb
      nid == s.cmd.nid
  IN
  /\ s.i \in DOMAIN Codecs /\ s.cmd.caddr = s.i /\ verb # "AMP_SET"
  /\ verb = "VID" \/ (verb = "SUBORDCNT" /\ nid = 0) => Asked(s.log) = Walked(s.i, 0, 0)
  /\ verb \in {"FGTYPE", "FGCAPS"} \/ (verb = "SUBORDCNT" /\ nid # 0) =>
       InGroup(s) /\ nid = s.j + s.start /\ Asked(s.log) = Walked(s.i, s.j, 0)
  /\ verb = "SUBORDCNT" /\ nid # 0 => s.fg_type = Group(s).type
  /\ verb = "FGCAPS" => InWidgets(s)
  /\ verb \in {"AWCAPS", "AMP_GET_IN", "AMP_GET_OUT"} =>
       /\ InGroup(s) /\ InWidgets(s) /\ nid = s.wi
       /\ s.s_start <= s.wi /\ s.wi < s.s_start + s.s_count
       /\ Asked(s.log) = Walked(s.i, s.j, IF verb = "AWCAPS" THEN s.wi ELSE s.wi + 1)

(* Between walks.                                                          *)
Rested(s) == s.walks > 0 => Asked(s.log) = AllWalked

(* The command is in the controller, on the link or answered.              *)
UnderWay(r, l, cmd) ==
  \/ r.icb /\ r.icoi = cmd /\ l = <<>> /\ ~r.irv
  \/ ~r.icb /\ l = <<cmd>> /\ ~r.irv
  \/ ~r.icb /\ l = <<>> /\ r.irv /\ r.icii = Answer(cmd)

(* At most an answer to hda_set_volume is still to come.                   *)
Quiet(r, l) == ~r.icb /\ (l = <<>> \/ \E c \in Asks : c.verb = "AMP_SET" /\ l = <<c>>)

Regs ==
  [icb : BOOLEAN, irv : BOOLEAN, icoi : Asks \cup {None},
   icii : {Answer(c) : c \in Asks} \cup {<<0, 0>>}]
HdaOK(r, l, s) ==
  /\ r \in Regs
  /\ s.pc = "idle" => s.cmd = None /\ Quiet(r, l) /\ Rested(s)
  /\ s.pc # "idle" =>
       /\ s.cmd \in Asks
       /\ s.cmd.verb = "AMP_SET" => Rested(s)
       /\ s.cmd.verb # "AMP_SET" => WalkAt(s)
  /\ s.pc = "send" => Quiet(r, l)
  /\ s.pc \in {"busy", "valid"} => UnderWay(r, l, s.cmd)
  /\ s.pc = "valid" => s.cmd.verb # "AMP_SET" /\ ~r.icb
  /\ s.pc = "return" => s.cmd.verb = "AMP_SET" /\ Quiet(r, l)

HdaInv ==
  sw \in Walker /\ spoilt \in BOOLEAN /\ (~spoilt => HdaOK(regs, link, sw))
(* A codec, and a group of it.                                             *)
LEMMA CodecIs ==
  ASSUME NEW c \in DOMAIN Codecs
  PROVE  LET gs == Codecs[c].groups IN
         /\ c \in Nat /\ Codecs[c].start \in Nat \ {0}
         /\ Len(gs) \in Nat /\ DOMAIN gs = 1..Len(gs) /\ Len(gs) < NODE_RANGE
         /\ \A g \in 1..Len(gs) :
              /\ gs[g].type \in Nat /\ gs[g].start \in Nat
              /\ Len(gs[g].widgets) \in Nat
              /\ DOMAIN gs[g].widgets = 1..Len(gs[g].widgets)
              /\ gs[g].start + Len(gs[g].widgets) < NODE_RANGE
<1> DEFINE gs == Codecs[c].groups
           Entry == [type : Nat, caps : Nat, start : Nat, widgets : Seq(Nat)]
<1>1. /\ c \in Nat /\ Codecs[c].start \in Nat \ {0} /\ gs \in Seq(Entry)
      /\ Codecs[c].start + Len(gs) < NODE_RANGE
      /\ \A g \in DOMAIN gs : gs[g].start + Len(gs[g].widgets) < NODE_RANGE
  BY CodecsAssumption
<1>2. ASSUME NEW e \in Entry
      PROVE  /\ e.type \in Nat /\ e.start \in Nat /\ Len(e.widgets) \in Nat
             /\ DOMAIN e.widgets = 1..Len(e.widgets)
  OBVIOUS
<1> HIDE DEF gs, Entry
<1>3. Len(gs) \in Nat /\ DOMAIN gs = 1..Len(gs) /\ \A g \in 1..Len(gs) : gs[g] \in Entry
  BY <1>1
<1>4. Len(gs) < NODE_RANGE
  <2> DEFINE n == Len(gs)
             s == Codecs[c].start
  <2>1. n \in Nat /\ s \in Nat /\ s + n < NODE_RANGE
    BY <1>1, <1>3
  <2> HIDE DEF n, s
  <2>2. n < NODE_RANGE
    BY <2>1, HdaAssumption
  <2> QED
    BY <2>2 DEF n
<1>5. \A g \in 1..Len(gs) :
        /\ gs[g].type \in Nat /\ gs[g].start \in Nat
        /\ Len(gs[g].widgets) \in Nat
        /\ DOMAIN gs[g].widgets = 1..Len(gs[g].widgets)
        /\ gs[g].start + Len(gs[g].widgets) < NODE_RANGE
  BY <1>1, <1>3, <1>2
<1> QED
  BY <1>1, <1>3, <1>4, <1>5 DEF gs

LEMMA AnswerRoot ==
  ASSUME NEW cmd \in Asks, cmd.verb = "SUBORDCNT", cmd.nid = 0
  PROVE  Answer(cmd) = <<Codecs[cmd.caddr].start, Len(Codecs[cmd.caddr].groups)>>
BY DEF Answer

LEMMA AnswerGroup ==
  ASSUME NEW cmd \in Asks, NEW g \in 1..Len(Codecs[cmd.caddr].groups),
         cmd.nid = Codecs[cmd.caddr].start + g - 1
  PROVE  LET e == Codecs[cmd.caddr].groups[g] IN
         /\ cmd.nid # 0
         /\ cmd.verb = "SUBORDCNT" => Answer(cmd) = <<e.start, Len(e.widgets)>>
         /\ cmd.verb = "FGTYPE" => Answer(cmd) = <<0, e.type>>
<1> DEFINE c == Codecs[cmd.caddr]
           group == {h \in DOMAIN c.groups : cmd.nid = c.start + h - 1}
           e == c.groups[g]
<1>1. cmd.caddr \in DOMAIN Codecs
  BY DEF Asks
<1>2. c.start \in Nat \ {0} /\ Len(c.groups) \in Nat /\ DOMAIN c.groups = 1..Len(c.groups)
  BY <1>1, CodecIs
<1>3. cmd.nid # 0
  <2>1. g \in 1..Len(c.groups) /\ cmd.nid = c.start + g - 1
    OBVIOUS
  <2> HIDE DEF c
  <2> QED
    BY <1>2, <2>1
<1>4. group = {g}
  <2> HIDE DEF c
  <2>1. g \in 1..Len(c.groups) /\ cmd.nid = c.start + g - 1
    BY DEF c
  <2> QED
    BY <1>2, <2>1
<1>5. (CHOOSE x \in group : TRUE) = g /\ group # {}
  BY <1>4
<1>6. ASSUME cmd.verb = "SUBORDCNT" PROVE Answer(cmd) = <<e.start, Len(e.widgets)>>
  BY <1>3, <1>5, <1>6 DEF Answer
<1>7. ASSUME cmd.verb = "FGTYPE" PROVE Answer(cmd) = <<0, e.type>>
  BY <1>5, <1>7 DEF Answer
<1> QED
  BY <1>3, <1>6, <1>7

-----------------------------------------------------------------------------
(* How the set of nodes that were passed grows.                            *)
LEMMA WidgetIs ==
  ASSUME NEW y \in Widgets
  PROVE  LET e == Codecs[y[1]].groups[y[2]] IN
         /\ y[1] \in DOMAIN Codecs /\ y[1] \in Nat
         /\ y[2] \in 1..Len(Codecs[y[1]].groups) /\ y[2] \in Nat /\ e.type = 1
         /\ e.start \in Nat /\ Len(e.widgets) \in Nat /\ y[3] \in 1..Len(e.widgets)
         /\ NidOf(y) = e.start + y[3] - 1 /\ NidOf(y) \in Nat
<1>1. y[1] \in DOMAIN Codecs /\ y[2] \in DOMAIN Codecs[y[1]].groups
      /\ Codecs[y[1]].groups[y[2]].type = 1
      /\ y[3] \in DOMAIN Codecs[y[1]].groups[y[2]].widgets
  BY DEF Widgets
<1> DEFINE e == Codecs[y[1]].groups[y[2]]
<1>2. /\ y[1] \in Nat /\ y[2] \in 1..Len(Codecs[y[1]].groups) /\ e.start \in Nat
      /\ Len(e.widgets) \in Nat /\ DOMAIN e.widgets = 1..Len(e.widgets)
  BY <1>1, CodecIs
<1> HIDE DEF e
<1>3. y[3] \in 1..Len(e.widgets)
  BY <1>1, <1>2 DEF e
<1>4. NidOf(y) = e.start + y[3] - 1
  BY DEF NidOf, e
<1>5. NidOf(y) \in Nat
  BY <1>2, <1>3, <1>4
<1> QED
  BY <1>1, <1>2, <1>3, <1>4, <1>5 DEF e

(* Walks that have passed the same widgets have passed the same nodes.     *)
LEMMA SameWalk ==
  ASSUME NEW c, NEW g, NEW n, NEW c2, NEW g2, NEW n2,
         \A y \in Widgets : Passed(y, c, g, n) <=> Passed(y, c2, g2, n2)
  PROVE  Walked(c, g, n) = Walked(c2, g2, n2)
BY DEF Walked

(* A group that is not for audio, or all of whose widgets were asked for.  *)
LEMMA GroupDone ==
  ASSUME NEW c \in DOMAIN Codecs, NEW j \in Nat, j < Len(Codecs[c].groups), NEW n \in Nat,
         \/ Codecs[c].groups[j + 1].type # 1
         \/ Codecs[c].groups[j + 1].start + Len(Codecs[c].groups[j + 1].widgets) <= n
  PROVE  Walked(c, j, n) = Walked(c, j + 1, 0)
<1>1. ASSUME NEW y \in Widgets PROVE Passed(y, c, j, n) <=> Passed(y, c, j + 1, 0)
  <2> DEFINE e == Codecs[y[1]].groups[y[2]]
  <2>1. /\ y[2] \in Nat /\ NidOf(y) \in Nat /\ e.type = 1
        /\ e.start \in Nat /\ Len(e.widgets) \in Nat /\ y[3] \in 1..Len(e.widgets)
        /\ NidOf(y) = e.start + y[3] - 1
    BY WidgetIs, Zenon
  <2>2. CASE y[1] = c /\ y[2] = j + 1
    <3>1. e.start + Len(e.widgets) <= n
      BY <2>1, <2>2
    <3> HIDE DEF e
    <3>2. NidOf(y) < n
      BY <2>1, <3>1
    <3> QED
      BY <2>1, <2>2, <3>2 DEF Passed
  <2>3. CASE y[1] = c /\ y[2] # j + 1
    BY <2>1, <2>3 DEF Passed
  <2>4. CASE y[1] # c
    BY <2>4 DEF Passed
  <2> QED
    BY <2>2, <2>3, <2>4
<1> QED
  BY <1>1, SameWalk
(* All the groups of a codec were done.                                    *)
LEMMA CodecDone ==
  ASSUME NEW c \in DOMAIN Codecs
  PROVE  Walked(c, Len(Codecs[c].groups), 0) = Walked(c + 1, 0, 0)
<1> DEFINE L == Len(Codecs[c].groups)
<1>1. c \in Nat /\ L \in Nat
  BY CodecIs
<1>2. ASSUME NEW y \in Widgets PROVE Passed(y, c, L, 0) <=> Passed(y, c + 1, 0, 0)
  <2>1. y[1] \in Nat /\ y[2] \in 1..Len(Codecs[y[1]].groups) /\ NidOf(y) \in Nat
    BY WidgetIs
  <2>2. Len(Codecs[y[1]].groups) \in Nat
    BY CodecIs, WidgetIs
  <2>3. y[2] \in Nat /\ y[2] >= 1
    BY <2>1, <2>2
  <2>4. CASE y[1] = c
    <3>1. y[2] <= L
      BY <2>1, <2>2, <2>4
    <3> HIDE DEF L
    <3>2. y[1] < c + 1
      BY <1>1, <2>4
    <3> QED
      BY <2>4, <3>1, <3>2 DEF Passed
  <2>5. CASE y[1] # c
    <3>1. y[1] < c <=> y[1] < c + 1
      BY <1>1, <2>1, <2>5
    <3>2. ~(y[2] <= 0) /\ ~(NidOf(y) < 0)
      BY <2>1, <2>3
    <3> QED
      BY <2>5, <3>1, <3>2 DEF Passed
  <2> QED
    BY <2>4, <2>5
<1> HIDE DEF L
<1>3. Walked(c, L, 0) = Walked(c + 1, 0, 0)
  BY <1>2, SameWalk
<1> QED
  BY <1>3 DEF L

(* Nothing of a codec was done: those before it were.                      *)
LEMMA AtCodec ==
  ASSUME NEW y \in Widgets, NEW i \in Nat
  PROVE  Passed(y, i, 0, 0) <=> y[1] < i
<1>1. y[1] \in Nat /\ y[2] \in 1..Len(Codecs[y[1]].groups) /\ NidOf(y) \in Nat
  BY WidgetIs
<1>2. Len(Codecs[y[1]].groups) \in Nat
  BY CodecIs, WidgetIs
<1>3. ~(y[2] <= 0) /\ ~(NidOf(y) < 0)
  BY <1>1, <1>2
<1> QED
  BY <1>1, <1>3 DEF Passed

LEMMA CodecSkipped ==
  ASSUME NEW i \in Nat, NEW c \in Nat, i <= c,
         \A d \in DOMAIN Codecs : ~(i <= d /\ d < c)
  PROVE  Walked(i, 0, 0) = Walked(c, 0, 0)
<1>1. ASSUME NEW y \in Widgets PROVE Passed(y, i, 0, 0) <=> Passed(y, c, 0, 0)
  <2>1. y[1] \in DOMAIN Codecs /\ y[1] \in Nat
    BY WidgetIs
  <2>2. y[1] < i <=> y[1] < c
    BY <2>1
  <2> QED
    BY <2>2, AtCodec
<1> QED
  BY <1>1, SameWalk

LEMMA NoCodecLeft ==
  ASSUME NEW i \in Nat, \A d \in DOMAIN Codecs : ~(d >= i)
  PROVE  Walked(i, 0, 0) = AllWalked
<1>1. ASSUME NEW y \in Widgets PROVE Passed(y, i, 0, 0)
  <2>1. y[1] \in DOMAIN Codecs /\ y[1] \in Nat
    BY WidgetIs
  <2>2. y[1] < i
    BY <2>1
  <2> QED
    BY <2>2, AtCodec
<1> QED
  BY <1>1 DEF Walked, AllWalked

LEMMA NothingWalked == Walked(0, 0, 0) = {}
<1>1. ASSUME NEW y \in Widgets PROVE ~Passed(y, 0, 0, 0)
  <2>1. y[1] \in Nat
    BY WidgetIs
  <2>2. ~(y[1] < 0)
    BY <2>1
  <2> QED
    BY <2>2, AtCodec
<1> QED
  BY <1>1 DEF Walked

(* One more widget was asked for.                                          *)
LEMMA WidgetWalked ==
  ASSUME NEW c \in DOMAIN Codecs, NEW j \in Nat, j < Len(Codecs[c].groups), NEW n \in Nat,
         Codecs[c].groups[j + 1].type = 1, Codecs[c].groups[j + 1].start <= n,
         n < Codecs[c].groups[j + 1].start + Len(Codecs[c].groups[j + 1].widgets)
  PROVE  Walked(c, j, n + 1) = Walked(c, j, n) \cup {<<c, n>>}
<1> DEFINE gs == Codecs[c].groups
           e == gs[j + 1]
           w == n - e.start + 1
           x == <<c, j + 1, w>>
<1>1. c \in Nat /\ Len(gs) \in Nat /\ DOMAIN gs = 1..Len(gs) /\ Len(gs) < NODE_RANGE
  BY CodecIs
<1>2. j + 1 \in 1..Len(gs) /\ j + 1 \in 1..NODE_RANGE
  <2>1. j < Len(gs)
    OBVIOUS
  <2> HIDE DEF gs
  <2> QED
    BY <1>1, <2>1, HdaAssumption
<1>3. /\ e.start \in Nat /\ Len(e.widgets) \in Nat
      /\ DOMAIN e.widgets = 1..Len(e.widgets) /\ e.start + Len(e.widgets) < NODE_RANGE
  BY <1>2, CodecIs
<1>4. e.type = 1 /\ e.start <= n /\ n < e.start + Len(e.widgets)
  OBVIOUS
<1> HIDE DEF e
<1>5. w \in 1..Len(e.widgets) /\ w \in 1..NODE_RANGE /\ e.start + w - 1 = n
  <2>1. ASSUME NEW start \in Nat, NEW len \in Nat, start <= n, n < start + len
        PROVE  n - start + 1 \in 1..len /\ start + (n - start + 1) - 1 = n
    BY <2>1
  <2>2. w \in 1..Len(e.widgets) /\ e.start + w - 1 = n
    BY <1>3, <1>4, <2>1
  <2>3. 1..Len(e.widgets) \subseteq 1..NODE_RANGE
    <3> DEFINE len == Len(e.widgets)
    <3>1. len \in Nat /\ len < NODE_RANGE
      BY <1>3, HdaAssumption
    <3> HIDE DEF len
    <3>2. 1..len \subseteq 1..NODE_RANGE
      BY <3>1, HdaAssumption
    <3> QED
      BY <3>2 DEF len
  <2> QED
    BY <2>2, <2>3, Zenon
<1>6. x \in Widgets /\ x[1] = c /\ x[2] = j + 1
  <2>1. x \in (DOMAIN Codecs) \X (1..NODE_RANGE) \X (1..NODE_RANGE)
    BY <1>2, <1>5
  <2>2. x[1] = c /\ x[2] = j + 1 /\ x[3] = w
    OBVIOUS
  <2> HIDE DEF x, w
  <2>3. x[2] \in DOMAIN Codecs[x[1]].groups
    BY <1>1, <1>2, <2>2
  <2>4. Codecs[x[1]].groups[x[2]] = e
    BY <2>2 DEF e
  <2>5. x[3] \in DOMAIN e.widgets
    BY <1>3, <1>5, <2>2
  <2> QED
    BY <1>4, <2>1, <2>2, <2>3, <2>4, <2>5 DEF Widgets
<1>7. NidOf(x) = n
  <2>1. NidOf(x) = e.start + w - 1
    BY DEF NidOf, e
  <2> QED
    BY <1>5, <2>1
<1> HIDE DEF x, w
<1>8. ASSUME NEW y \in Widgets
      PROVE  /\ Passed(y, c, j, n) => Passed(y, c, j, n + 1)
             /\ Passed(y, c, j, n + 1) =>
                  Passed(y, c, j, n) \/ (y[1] = c /\ NidOf(y) = n)
  <2>1. NidOf(y) \in Nat
    BY WidgetIs
  <2>2. NidOf(y) < n + 1 <=> NidOf(y) < n \/ NidOf(y) = n
    BY <2>1
  <2> QED
    BY <2>2 DEF Passed
<1>9. Passed(x, c, j, n + 1)
  <2>1. n < n + 1
    OBVIOUS
  <2> QED
    BY <1>6, <1>7, <2>1 DEF Passed
<1>10. <<c, n>> \in Walked(c, j, n + 1)
  BY <1>6, <1>7, <1>9 DEF Walked
<1>11. Walked(c, j, n) \subseteq Walked(c, j, n + 1)
  BY <1>8 DEF Walked
<1>12. ASSUME NEW z \in Walked(c, j, n + 1) PROVE z \in Walked(c, j, n) \cup {<<c, n>>}
  <2>1. PICK y \in Widgets : Passed(y, c, j, n + 1) /\ z = <<y[1], NidOf(y)>>
    BY DEF Walked
  <2>2. CASE Passed(y, c, j, n)
    BY <2>1, <2>2 DEF Walked
  <2>3. CASE ~Passed(y, c, j, n)
    BY <1>8, <2>1, <2>3
  <2> QED
    BY <2>2, <2>3
<1> QED
  BY <1>10, <1>11, <1>12
-----------------------------------------------------------------------------
(* The walk.                                                               *)
LEMMA AskIs ==
  ASSUME NEW s \in Walker, NEW verb \in Verbs, NEW caddr \in DOMAIN Codecs, NEW nid \in Nat
  PROVE  LET t == Ask(s, verb, caddr, nid) IN
         /\ t \in Walker /\ t.pc = "send" /\ t.cmd \in Asks
         /\ t.cmd.verb = verb /\ t.cmd.caddr = caddr /\ t.cmd.nid = nid
         /\ t.i = s.i /\ t.j = s.j /\ t.wi = s.wi /\ t.start = s.start /\ t.count = s.count
         /\ t.s_start = s.s_start /\ t.s_count = s.s_count /\ t.fg_type = s.fg_type
         /\ t.log = s.log /\ t.walks = s.walks
<1> DEFINE cmd == [verb |-> verb, caddr |-> caddr, nid |-> nid]
           t == Ask(s, verb, caddr, nid)
<1>1. cmd \in Asks /\ cmd.verb = verb /\ cmd.caddr = caddr /\ cmd.nid = nid
  BY DEF Asks
<1>2. t = [s EXCEPT !.cmd = cmd, !.pc = "send"]
  BY DEF Ask
<1> HIDE DEF cmd, t
<1>3. cmd \in Asks \cup {None}
  BY <1>1
<1>4. t \in Walker /\ t.pc = "send" /\ t.cmd = cmd
  BY <1>2, <1>3 DEF Walker
<1>5. /\ t.i = s.i /\ t.j = s.j /\ t.wi = s.wi /\ t.start = s.start /\ t.count = s.count
      /\ t.s_start = s.s_start /\ t.s_count = s.s_count /\ t.fg_type = s.fg_type
      /\ t.log = s.log /\ t.walks = s.walks
  BY <1>2, <1>3 DEF Walker
<1> QED
  BY <1>1, <1>4, <1>5 DEF t

(* The next question is asked, or the walk is over.                        *)
WalksOn(t, walks) ==
  /\ t \in Walker /\ t.walks = walks
  /\ \/ t.pc = "send" /\ t.cmd \in Asks /\ WalkAt(t)
     \/ t.pc = "idle" /\ t.cmd = None /\ Asked(t.log) = AllWalked

LEMMA NextCodecWalksOn ==
  ASSUME NEW s \in Walker, NEW i \in Nat, Asked(s.log) = Walked(i, 0, 0)
  PROVE  WalksOn(NextCodec(s, i), s.walks)
<1> DEFINE present == {c \in DOMAIN Codecs : c >= i}
           c == CHOOSE n \in present : \A m \in present : n <= m
           t == NextCodec(s, i)
<1>1. \A d \in DOMAIN Codecs : d \in Nat
  BY CodecsAssumption
<1>2. CASE present = {}
  <2>1. t = [s EXCEPT !.pc = "idle", !.cmd = None]
    BY <1>2 DEF NextCodec
  <2> HIDE DEF t
  <2>2. None \in Asks \cup {None}
    OBVIOUS
  <2>3. t \in Walker /\ t.pc = "idle" /\ t.cmd = None /\ t.log = s.log /\ t.walks = s.walks
    <3> DEFINE none == None
    <3>1. none \in Asks \cup {None} /\ t = [s EXCEPT !.pc = "idle", !.cmd = none]
      BY <2>1
    <3> HIDE DEF none
    <3>2. t \in Walker /\ t.pc = "idle" /\ t.cmd = none /\ t.log = s.log /\ t.walks = s.walks
      BY <3>1 DEF Walker
    <3> QED
      BY <3>2 DEF none
  <2>4. Walked(i, 0, 0) = AllWalked
    BY <1>2, NoCodecLeft
  <2> QED
    BY <2>3, <2>4 DEF WalksOn, t
<1>3. CASE present # {}
  <2>1. c \in present /\ \A m \in present : c <= m
    <3>1. present \subseteq Nat
      BY <1>1
    <3>2. \E n \in present : \A m \in present : n <= m
      BY <1>3, <3>1, LeastNat
    <3> QED
      BY <3>2
  <2> DEFINE s1 == [s EXCEPT !.i = c]
  <2>2. t = Ask(s1, "VID", c, 0)
    BY <1>3 DEF NextCodec
  <2> HIDE DEF c, t
  <2>3. c \in DOMAIN Codecs /\ c \in Nat /\ i <= c /\ \A d \in DOMAIN Codecs : ~(i <= d /\ d < c)
    BY <1>1, <2>1
  <2>4. s1 \in Walker /\ s1.i = c /\ s1.log = s.log /\ s1.walks = s.walks
    BY <2>3 DEF Walker
  <2> HIDE DEF s1
  <2>5. "VID" \in Verbs /\ 0 \in Nat
    BY DEF Verbs
  <2>6. /\ t \in Walker /\ t.pc = "send" /\ t.cmd \in Asks /\ t.cmd.verb = "VID"
        /\ t.cmd.caddr = c /\ t.i = c /\ t.log = s.log /\ t.walks = s.walks
    BY <2>2, <2>3, <2>4, <2>5, AskIs
  <2>7. Asked(t.log) = Walked(t.i, 0, 0)
    BY <2>3, <2>6, CodecSkipped
  <2>8. WalkAt(t)
    BY <2>3, <2>6, <2>7 DEF WalkAt
  <2> QED
    BY <2>6, <2>8 DEF WalksOn, t
<1> QED
  BY <1>2, <1>3

LEMMA NextGroupWalksOn ==
  ASSUME NEW s \in Walker, s.i \in DOMAIN Codecs, NEW j \in Nat,
         s.start = Codecs[s.i].start, s.count = Len(Codecs[s.i].groups), j <= s.count,
         Asked(s.log) = Walked(s.i, j, 0)
  PROVE  WalksOn(NextGroup(s, j), s.walks)
<1> DEFINE t == NextGroup(s, j)
<1>1. s.i \in Nat /\ s.start \in Nat \ {0} /\ s.count \in Nat
  BY CodecIs
<1>2. CASE j < s.count
  <2> DEFINE s1 == [s EXCEPT !.j = j]
             nid == j + s.start
  <2>1. t = Ask(s1, "FGTYPE", s.i, nid)
    <3>1. t = Ask(s1, "FGTYPE", s1.i, j + s1.start)
      BY <1>2 DEF NextGroup, Walker
    <3>2. s1.i = s.i /\ s1.start = s.start
      BY DEF Walker
    <3> QED
      BY <3>1, <3>2
  <2>2. /\ s1 \in Walker /\ s1.j = j /\ s1.i = s.i /\ s1.start = s.start /\ s1.count = s.count
        /\ s1.log = s.log /\ s1.walks = s.walks
    BY DEF Walker
  <2>3. nid \in Nat /\ nid # 0 /\ "FGTYPE" \in Verbs
    BY <1>1 DEF Verbs
  <2>4. nid = j + s.start
    OBVIOUS
  <2> HIDE DEF t, s1, nid
  <2>5. /\ t \in Walker /\ t.pc = "send" /\ t.cmd \in Asks /\ t.cmd.verb = "FGTYPE"
        /\ t.cmd.caddr = s.i /\ t.cmd.nid = nid /\ t.i = s.i /\ t.j = j
        /\ t.start = s.start /\ t.count = s.count /\ t.log = s.log /\ t.walks = s.walks
    BY <2>1, <2>2, <2>3, AskIs
  <2>6. InGroup(t)
    BY <1>2, <2>5 DEF InGroup
  <2>7. WalkAt(t)
    BY <2>4, <2>5, <2>6 DEF WalkAt
  <2> QED
    BY <2>5, <2>7 DEF WalksOn, t
<1>3. CASE ~(j < s.count)
  <2>1. j = s.count
    BY <1>1, <1>3
  <2>2. t = NextCodec(s, s.i + 1)
    BY <1>3 DEF NextGroup
  <2>3. Asked(s.log) = Walked(s.i + 1, 0, 0)
    BY <2>1, CodecDone
  <2>4. s.i + 1 \in Nat
    BY <1>1
  <2> DEFINE i == s.i + 1
  <2> HIDE DEF i
  <2>5. WalksOn(NextCodec(s, i), s.walks)
    BY <2>3, <2>4, NextCodecWalksOn DEF i
  <2> QED
    BY <2>2, <2>5 DEF i
<1> QED
  BY <1>2, <1>3

LEMMA NextWidgetWalksOn ==
  ASSUME NEW s \in Walker, s.i \in DOMAIN Codecs, InGroup(s), InWidgets(s), NEW wi \in Nat,
         s.s_start <= wi, wi <= s.s_start + s.s_count,
         Asked(s.log) = Walked(s.i, s.j, wi)
  PROVE  WalksOn(NextWidget(s, wi), s.walks)
<1> DEFINE t == NextWidget(s, wi)
<1>1. s.j \in Nat /\ s.j < Len(Codecs[s.i].groups)
  BY DEF InGroup, Walker
<1>2. CASE wi < s.s_start + s.s_count
  <2> DEFINE s1 == [s EXCEPT !.wi = wi]
  <2>1. t = Ask(s1, "AWCAPS", s1.i, wi)
    BY <1>2 DEF NextWidget, Walker
  <2>2. /\ s1 \in Walker /\ s1.j = s.j /\ s1.i = s.i /\ s1.start = s.start /\ s1.count = s.count
        /\ s1.s_start = s.s_start /\ s1.s_count = s.s_count /\ s1.wi = wi
        /\ s1.log = s.log /\ s1.walks = s.walks
    BY DEF Walker
  <2>3. "AWCAPS" \in Verbs
    BY DEF Verbs
  <2> HIDE DEF t, s1
  <2>4. /\ t \in Walker /\ t.pc = "send" /\ t.cmd \in Asks /\ t.cmd.verb = "AWCAPS"
        /\ t.cmd.caddr = s.i /\ t.cmd.nid = wi /\ t.i = s.i /\ t.j = s.j /\ t.wi = wi
        /\ t.start = s.start /\ t.count = s.count /\ t.s_start = s.s_start
        /\ t.s_count = s.s_count /\ t.log = s.log /\ t.walks = s.walks
    BY <2>1, <2>2, <2>3, AskIs
  <2>5. InGroup(t) /\ InWidgets(t)
    BY <2>4 DEF InGroup, InWidgets, Group
  <2>6. WalkAt(t)
    BY <1>2, <2>4, <2>5 DEF WalkAt
  <2> QED
    BY <2>4, <2>6 DEF WalksOn, t
<1>3. CASE ~(wi < s.s_start + s.s_count)
  <2> DEFINE e == Codecs[s.i].groups[s.j + 1]
             j == s.j + 1
  <2>1. e.start + Len(e.widgets) <= wi
    <3>1. s.s_start = e.start /\ s.s_count = Len(e.widgets)
      BY DEF InWidgets, Group
    <3>2. s.s_start \in Nat /\ s.s_count \in Nat
      BY DEF Walker
    <3> HIDE DEF e
    <3>3. s.s_start + s.s_count <= wi
      BY <1>3, <3>2
    <3> QED
      BY <3>1, <3>3
  <2>2. t = NextGroup(s, j)
    BY <1>3 DEF NextWidget
  <2>3. Asked(s.log) = Walked(s.i, j, 0)
    BY <1>1, <2>1, GroupDone
  <2>4. j \in Nat /\ j <= s.count
    <3>1. s.j < s.count /\ s.count \in Nat
      BY DEF InGroup, Walker
    <3> QED
      BY <1>1, <3>1
  <2>5. s.start = Codecs[s.i].start /\ s.count = Len(Codecs[s.i].groups)
    BY DEF InGroup
  <2> HIDE DEF j, t
  <2>6. WalksOn(NextGroup(s, j), s.walks)
    BY <2>3, <2>4, <2>5, NextGroupWalksOn
  <2> QED
    BY <2>2, <2>6 DEF t
<1> QED
  BY <1>2, <1>3
Logged(s) == [s EXCEPT !.log = @ \cup {<<s.cmd, Answer(s.cmd)>>}]

LEMMA LoggedIs ==
  ASSUME NEW s \in Walker, s.cmd \in Asks
  PROVE  LET k == Logged(s) IN
         /\ k \in Walker /\ k.cmd = s.cmd
         /\ k.i = s.i /\ k.j = s.j /\ k.wi = s.wi /\ k.start = s.start /\ k.count = s.count
         /\ k.s_start = s.s_start /\ k.s_count = s.s_count /\ k.fg_type = s.fg_type
         /\ k.walks = s.walks
         /\ Asked(k.log) = IF s.cmd.verb = "AWCAPS"
                           THEN Asked(s.log) \cup {<<s.cmd.caddr, s.cmd.nid>>}
                           ELSE Asked(s.log)
<1> DEFINE k == Logged(s)
           new == <<s.cmd, Answer(s.cmd)>>
           log == s.log \cup {new}
<1>1. k = [s EXCEPT !.log = log]
  BY DEF Logged
<1>2. log \in SUBSET Truths
  <2>1. new \in Truths
    BY DEF Truths
  <2>2. s.log \in SUBSET Truths
    BY DEF Walker
  <2> QED
    BY <2>1, <2>2
<1>3. Asked(log) = IF s.cmd.verb = "AWCAPS"
                   THEN Asked(s.log) \cup {<<s.cmd.caddr, s.cmd.nid>>} ELSE Asked(s.log)
  <2>1. new[1] = s.cmd
    OBVIOUS
  <2>2. log = s.log \cup {new}
    OBVIOUS
  <2> HIDE DEF new, log
  <2>3. CASE s.cmd.verb = "AWCAPS"
    BY <2>1, <2>2, <2>3 DEF Asked
  <2>4. CASE s.cmd.verb # "AWCAPS"
    BY <2>1, <2>2, <2>4 DEF Asked
  <2> QED
    BY <2>3, <2>4
<1> HIDE DEF k, log
<1>4. k \in Walker /\ k.cmd = s.cmd /\ k.log = log
  BY <1>1, <1>2 DEF Walker
<1>5. /\ k.i = s.i /\ k.j = s.j /\ k.wi = s.wi /\ k.start = s.start /\ k.count = s.count
      /\ k.s_start = s.s_start /\ k.s_count = s.s_count /\ k.fg_type = s.fg_type
      /\ k.walks = s.walks
  BY <1>1, <1>2 DEF Walker
<1> QED
  BY <1>3, <1>4, <1>5 DEF k

(* Each true answer takes the walk one question further.                   *)
LEMMA LearnWalksOn ==
  ASSUME NEW s \in Walker, s.cmd \in Asks, WalkAt(s)
  PROVE  WalksOn(Learn(s, Answer(s.cmd)), s.walks)
<1> DEFINE a == Answer(s.cmd)
           k == Logged(s)
           verb == s.cmd.verb
           nid == s.cmd.nid
           c == s.i
           t == Learn(s, a)
<1>1. /\ k \in Walker /\ k.cmd = s.cmd
      /\ k.i = s.i /\ k.j = s.j /\ k.wi = s.wi /\ k.start = s.start /\ k.count = s.count
      /\ k.s_start = s.s_start /\ k.s_count = s.s_count /\ k.fg_type = s.fg_type
      /\ k.walks = s.walks
      /\ verb # "AWCAPS" => Asked(k.log) = Asked(s.log)
      /\ verb = "AWCAPS" => Asked(k.log) = Asked(s.log) \cup {<<s.cmd.caddr, nid>>}
  BY LoggedIs
<1>2. /\ c \in DOMAIN Codecs /\ s.cmd.caddr = c /\ verb # "AMP_SET"
      /\ verb \in Verbs /\ nid \in Nat /\ s.j \in Nat /\ s.wi \in Nat
  BY DEF WalkAt, Asks, Walker
<1>3. k = [s EXCEPT !.log = @ \cup {<<s.cmd, a>>}]
  BY DEF Logged
<1>4. c \in Nat /\ Codecs[c].start \in Nat \ {0} /\ Len(Codecs[c].groups) \in Nat
  BY <1>2, CodecIs
<1> HIDE DEF k, a
<1>5. CASE verb = "VID"
  <2>1. t = Ask(k, "SUBORDCNT", k.i, 0)
    BY <1>3, <1>5 DEF Learn
  <2>2. "SUBORDCNT" \in Verbs /\ 0 \in Nat
    BY DEF Verbs
  <2> HIDE DEF t
  <2>3. /\ t \in Walker /\ t.pc = "send" /\ t.cmd \in Asks /\ t.cmd.verb = "SUBORDCNT"
        /\ t.cmd.caddr = c /\ t.cmd.nid = 0 /\ t.i = c /\ t.log = k.log /\ t.walks = s.walks
    BY <1>1, <1>2, <2>1, <2>2, AskIs, SMTT(30)
  <2>4. Asked(t.log) = Walked(c, 0, 0)
    BY <1>1, <1>5, <2>3 DEF WalkAt
  <2>5. WalkAt(t)
    BY <1>2, <2>3, <2>4 DEF WalkAt
  <2> QED
    BY <2>3, <2>5 DEF WalksOn, t, a
<1>6. CASE verb = "SUBORDCNT" /\ nid = 0
  <2> DEFINE s1 == [k EXCEPT !.start = a[1], !.count = a[2]]
  <2>1. t = NextGroup(s1, 0)
    BY <1>3, <1>6 DEF Learn
  <2>2. a[1] = Codecs[c].start /\ a[2] = Len(Codecs[c].groups)
    BY <1>2, <1>6, AnswerRoot DEF a
  <2>3. /\ s1 \in Walker /\ s1.i = c /\ s1.start = a[1] /\ s1.count = a[2]
        /\ s1.log = k.log /\ s1.walks = s.walks
    <3> DEFINE x == a[1]
               z == a[2]
    <3>1. x \in Nat /\ z \in Nat /\ k \in Walker /\ s1 = [k EXCEPT !.start = x, !.count = z]
      BY <1>1, <1>4, <2>2
    <3> HIDE DEF x, z, s1
    <3>2. /\ s1 \in Walker /\ s1.i = k.i /\ s1.start = x /\ s1.count = z
          /\ s1.log = k.log /\ s1.walks = k.walks
      BY <3>1 DEF Walker
    <3> QED
      BY <1>1, <3>2 DEF x, z
  <2>4. Asked(s1.log) = Walked(s1.i, 0, 0)
    BY <1>1, <1>6, <2>3 DEF WalkAt
  <2>5. 0 \in Nat /\ 0 <= s1.count
    BY <1>4, <2>2, <2>3
  <2> HIDE DEF s1, t
  <2>6. WalksOn(NextGroup(s1, 0), s1.walks)
    BY <1>2, <2>2, <2>3, <2>4, <2>5, NextGroupWalksOn
  <2> QED
    BY <2>1, <2>3, <2>6 DEF t, a
<1>7. ASSUME \/ verb \in {"FGTYPE", "FGCAPS"} \/ (verb = "SUBORDCNT" /\ nid # 0)
             \/ verb \in {"AWCAPS", "AMP_GET_IN", "AMP_GET_OUT"}
      PROVE  /\ InGroup(s) /\ s.start = Codecs[c].start /\ s.count = Len(Codecs[c].groups)
             /\ s.j < Len(Codecs[c].groups) /\ s.j + 1 \in 1..Len(Codecs[c].groups)
  <2>1. InGroup(s)
    BY <1>7 DEF WalkAt
  <2>2. /\ s.start = Codecs[c].start /\ s.count = Len(Codecs[c].groups)
        /\ s.j < Len(Codecs[c].groups)
    BY <2>1 DEF InGroup
  <2> QED
    BY <1>2, <1>4, <2>1, <2>2
<1>8. ASSUME \/ verb = "FGTYPE" \/ (verb = "SUBORDCNT" /\ nid # 0)
      PROVE  /\ nid = s.j + s.start /\ nid # 0 /\ Asked(k.log) = Walked(c, s.j, 0)
             /\ verb = "FGTYPE" => a[2] = Group(s).type
             /\ verb # "FGTYPE" => a[1] = Group(s).start /\ a[2] = Len(Group(s).widgets)
  <2>1. nid = s.j + s.start /\ Asked(k.log) = Walked(c, s.j, 0)
    BY <1>1, <1>8 DEF WalkAt
  <2> DEFINE g == s.j + 1
  <2>2. g \in 1..Len(Codecs[c].groups) /\ s.start = Codecs[c].start
    BY <1>7, <1>8
  <2>3. nid = Codecs[c].start + g - 1
    BY <1>2, <1>4, <2>1, <2>2
  <2> HIDE DEF g
  <2>4. LET e == Codecs[c].groups[g] IN
        /\ nid # 0
        /\ verb = "SUBORDCNT" => a = <<e.start, Len(e.widgets)>>
        /\ verb = "FGTYPE" => a = <<0, e.type>>
    BY <1>2, <2>2, <2>3, AnswerGroup DEF a
  <2> QED
    BY <1>8, <2>1, <2>4 DEF Group, g
<1>9. CASE verb = "FGTYPE"
  <2> DEFINE s1 == [k EXCEPT !.fg_type = a[2]]
  <2>1. t = Ask(s1, "SUBORDCNT", k.i, nid)
    BY <1>3, <1>9 DEF Learn
  <2>2. a[2] = Group(s).type /\ nid = s.j + s.start /\ nid # 0 /\ Asked(k.log) = Walked(c, s.j, 0)
    BY <1>8, <1>9
  <2>3. a[2] \in Nat
    BY <1>2, <1>7, <1>9, <2>2, CodecIs DEF Group
  <2>4. /\ s1 \in Walker /\ s1.i = c /\ s1.j = s.j /\ s1.start = s.start /\ s1.count = s.count
        /\ s1.fg_type = a[2] /\ s1.log = k.log /\ s1.walks = s.walks
    <3> DEFINE x == a[2]
    <3>1. x \in Nat /\ k \in Walker /\ s1 = [k EXCEPT !.fg_type = x]
      BY <1>1, <2>3
    <3> HIDE DEF x, s1
    <3>2. /\ s1 \in Walker /\ s1.i = k.i /\ s1.j = k.j /\ s1.start = k.start
          /\ s1.count = k.count /\ s1.fg_type = x /\ s1.log = k.log /\ s1.walks = k.walks
      BY <3>1 DEF Walker
    <3> QED
      BY <1>1, <3>2 DEF x
  <2>5. "SUBORDCNT" \in Verbs
    BY DEF Verbs
  <2> HIDE DEF s1, t
  <2>6. /\ t \in Walker /\ t.pc = "send" /\ t.cmd \in Asks /\ t.cmd.verb = "SUBORDCNT"
        /\ t.cmd.caddr = c /\ t.cmd.nid = nid /\ t.i = c /\ t.j = s.j /\ t.start = s.start
        /\ t.count = s.count /\ t.fg_type = a[2] /\ t.log = k.log /\ t.walks = s.walks
    <3> DEFINE d == k.i
               n == nid
    <3>1. d \in DOMAIN Codecs /\ n \in Nat /\ d = c /\ t = Ask(s1, "SUBORDCNT", d, n)
      BY <1>1, <1>2, <2>1
    <3> HIDE DEF d, n
    <3>2. /\ t \in Walker /\ t.pc = "send" /\ t.cmd \in Asks /\ t.cmd.verb = "SUBORDCNT"
          /\ t.cmd.caddr = d /\ t.cmd.nid = n /\ t.i = s1.i /\ t.j = s1.j
          /\ t.start = s1.start /\ t.count = s1.count /\ t.fg_type = s1.fg_type
          /\ t.log = s1.log /\ t.walks = s1.walks
      BY <2>4, <2>5, <3>1, AskIs
    <3> QED
      BY <2>4, <3>1, <3>2 DEF n
  <2>7. InGroup(t) /\ Group(t) = Group(s)
    BY <1>7, <1>9, <2>6 DEF InGroup, Group
  <2>8. WalkAt(t)
    BY <1>2, <2>2, <2>6, <2>7 DEF WalkAt
  <2> QED
    BY <2>6, <2>8 DEF WalksOn, t, a
<1>10. CASE verb = "SUBORDCNT" /\ nid # 0
  <2> DEFINE s1 == [k EXCEPT !.s_start = a[1], !.s_count = a[2]]
  <2>1. t = IF s1.fg_type = 1 THEN Ask(s1, "FGCAPS", k.i, nid) ELSE NextGroup(s1, s1.j + 1)
    BY <1>3, <1>10 DEF Learn
  <2>2. /\ a[1] = Group(s).start /\ a[2] = Len(Group(s).widgets)
        /\ nid = s.j + s.start /\ nid # 0 /\ Asked(k.log) = Walked(c, s.j, 0)
    BY <1>8, <1>10
  <2>3. a[1] \in Nat /\ a[2] \in Nat
    BY <1>2, <1>7, <1>10, <2>2, CodecIs DEF Group
  <2>4. /\ s1 \in Walker /\ s1.i = c /\ s1.j = s.j /\ s1.start = s.start /\ s1.count = s.count
        /\ s1.fg_type = s.fg_type /\ s1.s_start = a[1] /\ s1.s_count = a[2]
        /\ s1.log = k.log /\ s1.walks = s.walks
    <3> DEFINE x == a[1]
               z == a[2]
    <3>1. /\ x \in Nat /\ z \in Nat /\ k \in Walker
          /\ s1 = [k EXCEPT !.s_start = x, !.s_count = z]
      BY <1>1, <2>3
    <3> HIDE DEF x, z, s1
    <3>2. /\ s1 \in Walker /\ s1.i = k.i /\ s1.j = k.j /\ s1.start = k.start
          /\ s1.count = k.count /\ s1.fg_type = k.fg_type
          /\ s1.s_start = x /\ s1.s_count = z /\ s1.log = k.log /\ s1.walks = k.walks
      BY <3>1 DEF Walker
    <3> QED
      BY <1>1, <3>2 DEF x, z
  <2>5. s.fg_type = Group(s).type
    BY <1>10 DEF WalkAt
  <2> HIDE DEF s1, t
  <2>6. CASE s1.fg_type = 1
    <3>1. t = Ask(s1, "FGCAPS", k.i, nid)
      BY <2>1, <2>6
    <3>2. "FGCAPS" \in Verbs
      BY DEF Verbs
    <3>3. /\ t \in Walker /\ t.pc = "send" /\ t.cmd \in Asks /\ t.cmd.verb = "FGCAPS"
          /\ t.cmd.caddr = c /\ t.cmd.nid = nid /\ t.i = c /\ t.j = s.j /\ t.start = s.start
          /\ t.count = s.count /\ t.s_start = a[1] /\ t.s_count = a[2]
          /\ t.log = k.log /\ t.walks = s.walks
      <4> DEFINE d == k.i
                 n == nid
      <4>1. d \in DOMAIN Codecs /\ n \in Nat /\ d = c /\ t = Ask(s1, "FGCAPS", d, n)
        BY <1>1, <1>2, <3>1
      <4> HIDE DEF d, n
      <4>2. /\ t \in Walker /\ t.pc = "send" /\ t.cmd \in Asks /\ t.cmd.verb = "FGCAPS"
            /\ t.cmd.caddr = d /\ t.cmd.nid = n /\ t.i = s1.i /\ t.j = s1.j
            /\ t.start = s1.start /\ t.count = s1.count /\ t.s_start = s1.s_start
            /\ t.s_count = s1.s_count /\ t.log = s1.log /\ t.walks = s1.walks
        BY <2>4, <3>2, <4>1, AskIs
      <4> QED
        BY <2>4, <4>1, <4>2 DEF n
    <3>4. InGroup(t) /\ Group(t) = Group(s)
      BY <1>7, <1>10, <3>3 DEF InGroup, Group
    <3>5. InWidgets(t)
      BY <2>2, <2>4, <2>5, <2>6, <3>3, <3>4 DEF InWidgets
    <3>6. WalkAt(t)
      BY <1>2, <2>2, <3>3, <3>4, <3>5 DEF WalkAt
    <3> QED
      BY <3>3, <3>6 DEF WalksOn, t, a
  <2>7. CASE s1.fg_type # 1
    <3> DEFINE j == s.j + 1
    <3>1. t = NextGroup(s1, j)
      BY <2>1, <2>4, <2>7
    <3>2. Codecs[c].groups[s.j + 1].type # 1
      BY <2>4, <2>5, <2>7 DEF Group
    <3>3. Asked(s1.log) = Walked(s1.i, j, 0)
      <4>1. s.j < Len(Codecs[c].groups) /\ 0 \in Nat
        BY <1>7, <1>10
      <4>2. Walked(c, s.j, 0) = Walked(c, s.j + 1, 0)
        BY <1>2, <3>2, <4>1, GroupDone
      <4> QED
        BY <2>2, <2>4, <4>2
    <3>4. j \in Nat /\ j <= s1.count
      BY <1>2, <1>4, <1>7, <1>10, <2>4
    <3>5. s1.start = Codecs[s1.i].start /\ s1.count = Len(Codecs[s1.i].groups)
      BY <1>7, <1>10, <2>4
    <3> HIDE DEF j
    <3>6. WalksOn(NextGroup(s1, j), s1.walks)
      BY <1>2, <2>4, <3>3, <3>4, <3>5, NextGroupWalksOn
    <3> QED
      BY <2>4, <3>1, <3>6 DEF t, a
  <2> QED
    BY <2>6, <2>7
<1>11. ASSUME verb \in {"FGCAPS", "AWCAPS", "AMP_GET_IN", "AMP_GET_OUT"}
       PROVE  /\ InGroup(k) /\ InWidgets(k) /\ Group(k) = Group(s)
              /\ s.s_start \in Nat /\ s.s_count \in Nat
              /\ s.s_start = Group(s).start /\ s.s_count = Len(Group(s).widgets)
              /\ Group(s).type = 1 /\ s.s_start + s.s_count < NODE_RANGE
  <2>1. InWidgets(s)
    BY <1>11 DEF WalkAt
  <2>2. InGroup(s) /\ s.j + 1 \in 1..Len(Codecs[c].groups)
    BY <1>7, <1>11
  <2>3. Group(k) = Group(s) /\ InGroup(k) /\ InWidgets(k)
    BY <1>1, <2>1, <2>2 DEF Group, InGroup, InWidgets
  <2>4. s.s_start \in Nat /\ s.s_count \in Nat
    BY DEF Walker
  <2>5. /\ s.s_start = Group(s).start /\ s.s_count = Len(Group(s).widgets)
        /\ Group(s).type = 1
    BY <2>1 DEF InWidgets
  <2>6. Group(s).start + Len(Group(s).widgets) < NODE_RANGE
    BY <1>2, <2>2, CodecIs DEF Group
  <2> QED
    BY <2>2, <2>3, <2>4, <2>5, <2>6
<1>12. CASE verb = "FGCAPS"
  <2>1. t = NextWidget(k, k.s_start)
    BY <1>3, <1>12 DEF Learn
  <2>2. Asked(k.log) = Walked(k.i, k.j, k.s_start)
    <3>1. Asked(k.log) = Walked(c, s.j, 0)
      BY <1>1, <1>12 DEF WalkAt
    <3>2. ASSUME NEW y \in Widgets PROVE Passed(y, c, s.j, 0) <=> Passed(y, c, s.j, s.s_start)
      <4> DEFINE e == Codecs[y[1]].groups[y[2]]
      <4>1. /\ e.start \in Nat /\ Len(e.widgets) \in Nat /\ y[3] \in 1..Len(e.widgets)
            /\ NidOf(y) = e.start + y[3] - 1
        BY WidgetIs
      <4>2. y[1] = c /\ y[2] = s.j + 1 => e.start = s.s_start
        BY <1>11, <1>12 DEF Group
      <4> HIDE DEF e
      <4>3. ~(NidOf(y) < 0) /\ ~(NidOf(y) < e.start)
        BY <4>1
      <4> QED
        BY <4>2, <4>3 DEF Passed
    <3>3. Walked(c, s.j, 0) = Walked(c, s.j, s.s_start)
      BY <3>2, SameWalk
    <3> QED
      BY <1>1, <3>1, <3>3
  <2>3. k.s_start \in Nat /\ k.s_start <= k.s_start /\ k.s_start <= k.s_start + k.s_count
    BY <1>1, <1>11, <1>12
  <2> HIDE DEF t
  <2>4. WalksOn(NextWidget(k, k.s_start), k.walks)
    BY <1>1, <1>2, <1>11, <1>12, <2>2, <2>3, NextWidgetWalksOn
  <2> QED
    BY <1>1, <2>1, <2>4 DEF t, a
<1>13. ASSUME verb \in {"AWCAPS", "AMP_GET_IN", "AMP_GET_OUT"}
       PROVE  /\ nid = s.wi /\ s.s_start <= s.wi /\ s.wi < s.s_start + s.s_count
              /\ Asked(k.log) = Walked(c, s.j, s.wi + 1)
  <2>1. /\ nid = s.wi /\ s.s_start <= s.wi /\ s.wi < s.s_start + s.s_count
        /\ Asked(s.log) = Walked(c, s.j, IF verb = "AWCAPS" THEN s.wi ELSE s.wi + 1)
    BY <1>13 DEF WalkAt
  <2>2. CASE verb = "AWCAPS"
    <3>1. Asked(k.log) = Walked(c, s.j, s.wi) \cup {<<c, s.wi>>}
      BY <1>1, <1>2, <2>1, <2>2
    <3> DEFINE e == Codecs[c].groups[s.j + 1]
    <3>2. e.type = 1 /\ e.start <= s.wi /\ s.wi < e.start + Len(e.widgets)
      BY <1>11, <1>13, <2>1 DEF Group
    <3>3. s.j < Len(Codecs[c].groups)
      BY <1>7, <1>13
    <3>4. Walked(c, s.j, s.wi + 1) = Walked(c, s.j, s.wi) \cup {<<c, s.wi>>}
      BY <1>2, <3>2, <3>3, WidgetWalked
    <3> QED
      BY <2>1, <3>1, <3>4
  <2>3. CASE verb # "AWCAPS"
    BY <1>1, <2>1, <2>3
  <2> QED
    BY <2>2, <2>3
<1>14. ASSUME NEW next \in {"AMP_GET_IN", "AMP_GET_OUT"}, t = Ask(k, next, k.i, nid),
              verb \in {"AWCAPS", "AMP_GET_IN"}
       PROVE  WalksOn(t, s.walks)
  <2>1. next \in Verbs
    BY DEF Verbs
  <2> HIDE DEF t
  <2>2. /\ t \in Walker /\ t.pc = "send" /\ t.cmd \in Asks /\ t.cmd.verb = next
        /\ t.cmd.caddr = c /\ t.cmd.nid = nid /\ t.i = c /\ t.j = s.j /\ t.wi = s.wi
        /\ t.start = s.start /\ t.count = s.count /\ t.s_start = s.s_start
        /\ t.s_count = s.s_count /\ t.log = k.log /\ t.walks = s.walks
    <3> DEFINE d == k.i
               n == nid
    <3>1. /\ d \in DOMAIN Codecs /\ n \in Nat /\ d = c /\ t = Ask(k, next, d, n) /\ k \in Walker
      BY <1>1, <1>2, <1>14
    <3> HIDE DEF d, n
    <3>2. /\ t \in Walker /\ t.pc = "send" /\ t.cmd \in Asks /\ t.cmd.verb = next
          /\ t.cmd.caddr = d /\ t.cmd.nid = n /\ t.i = k.i /\ t.j = k.j /\ t.wi = k.wi
          /\ t.start = k.start /\ t.count = k.count /\ t.s_start = k.s_start
          /\ t.s_count = k.s_count /\ t.log = k.log /\ t.walks = k.walks
      BY <2>1, <3>1, AskIs
    <3> QED
      BY <1>1, <3>1, <3>2 DEF n
  <2>3. InGroup(t) /\ InWidgets(t)
    BY <1>1, <1>11, <1>14, <2>2 DEF InGroup, InWidgets, Group
  <2>4. WalkAt(t)
    BY <1>2, <1>13, <1>14, <2>2, <2>3 DEF WalkAt
  <2> QED
    BY <2>2, <2>4 DEF WalksOn
<1>15. CASE verb = "AWCAPS"
  <2>1. t = Ask(k, "AMP_GET_IN", k.i, nid)
    BY <1>3, <1>15 DEF Learn
  <2> QED
    BY <1>14, <1>15, <2>1 DEF a
<1>16. CASE verb = "AMP_GET_IN"
  <2>1. t = Ask(k, "AMP_GET_OUT", k.i, nid)
    BY <1>3, <1>16 DEF Learn
  <2> QED
    BY <1>14, <1>16, <2>1 DEF a
<1>17. CASE verb = "AMP_GET_OUT"
  <2> DEFINE wi == (k.wi + 1) % NODE_RANGE
  <2>1. t = NextWidget(k, wi)
    BY <1>3, <1>17 DEF Learn
  <2>2. /\ s.s_start \in Nat /\ s.s_count \in Nat /\ s.s_start + s.s_count < NODE_RANGE
        /\ s.s_start <= s.wi /\ s.wi < s.s_start + s.s_count
        /\ Asked(k.log) = Walked(c, s.j, s.wi + 1)
    BY <1>11, <1>13, <1>17
  <2>3. wi = s.wi + 1
    <3> DEFINE x == s.wi + 1
    <3>1. x \in Nat /\ x < NODE_RANGE
      BY <1>2, <2>2, HdaAssumption
    <3> HIDE DEF x
    <3>2. x % NODE_RANGE = x
      BY <3>1, HdaAssumption, ModSmall
    <3> QED
      BY <1>1, <3>2 DEF x
  <2>4. wi \in Nat /\ k.s_start <= wi /\ wi <= k.s_start + k.s_count
    BY <1>1, <1>2, <2>2, <2>3
  <2>5. Asked(k.log) = Walked(k.i, k.j, wi)
    BY <1>1, <2>2, <2>3
  <2> HIDE DEF t, wi
  <2>6. WalksOn(NextWidget(k, wi), k.walks)
    BY <1>1, <1>2, <1>11, <1>17, <2>4, <2>5, NextWidgetWalksOn
  <2> QED
    BY <1>1, <2>1, <2>6 DEF t, a
<1> QED
  BY <1>2, <1>5, <1>6, <1>9, <1>10, <1>12, <1>15, <1>16, <1>17 DEF Verbs, a
-----------------------------------------------------------------------------
(* The steps.                                                              *)

(* Only the place in send_verb_imm changes.                                *)
LEMMA PcOnly ==
  ASSUME NEW s \in Walker, NEW pc \in {"idle", "send", "busy", "valid", "return"}
  PROVE  LET t == [s EXCEPT !.pc = pc] IN
         /\ t \in Walker /\ t.pc = pc /\ t.cmd = s.cmd /\ Rested(s) = Rested(t)
         /\ WalkAt(s) = WalkAt(t)
<1> DEFINE t == [s EXCEPT !.pc = pc]
<1>1. t = [s EXCEPT !.pc = pc]
  OBVIOUS
<1> HIDE DEF t
<1>2. /\ t \in Walker /\ t.pc = pc /\ t.cmd = s.cmd
  BY <1>1 DEF Walker
<1>3. /\ t.i = s.i /\ t.j = s.j /\ t.wi = s.wi /\ t.start = s.start /\ t.count = s.count
      /\ t.s_start = s.s_start /\ t.s_count = s.s_count /\ t.fg_type = s.fg_type
      /\ t.log = s.log /\ t.walks = s.walks
  BY <1>1 DEF Walker
<1>4. Rested(s) = Rested(t)
  BY <1>3 DEF Rested
<1>5. WalkAt(s) = WalkAt(t)
  BY <1>2, <1>3 DEF WalkAt, InGroup, InWidgets, Group
<1> QED
  BY <1>2, <1>4, <1>5 DEF t

LEMMA SendVerbStep ==
  ASSUME HdaInv, ~spoilt, SendVerb
  PROVE  HdaInv'
<1>1. sw \in Walker /\ HdaOK(regs, link, sw) /\ sw.pc = "send" /\ ~regs.icb
  BY DEF HdaInv, SendVerb
<1>2. /\ regs' = Command(sw.cmd) /\ sw' = [sw EXCEPT !.pc = "busy"]
      /\ spoilt' = (spoilt \/ \E i \in DOMAIN link : link[i].verb = "AMP_SET") /\ link' = link
  BY DEF SendVerb
<1>3. sw' \in Walker /\ sw'.pc = "busy" /\ sw'.cmd = sw.cmd /\ Rested(sw) = Rested(sw')
      /\ WalkAt(sw) = WalkAt(sw')
  BY <1>1, <1>2, PcOnly
<1>4. spoilt' \in BOOLEAN
  BY <1>2
<1>5. ASSUME ~spoilt' PROVE HdaOK(regs', link', sw')
  <2>1. regs \in Regs /\ sw.cmd \in Asks /\ Quiet(regs, link)
    BY <1>1 DEF HdaOK
  <2>2. link = <<>>
    <3>1. SUFFICES ASSUME NEW c \in Asks, c.verb = "AMP_SET", link = <<c>> PROVE FALSE
      BY <2>1 DEF Quiet
    <3>2. 1 \in DOMAIN link /\ link[1].verb = "AMP_SET"
      BY <3>1
    <3> QED
      BY <1>2, <1>5, <3>2
  <2> DEFINE c == sw.cmd
  <2>3. c \in Asks \cup {None} /\ regs' = [regs EXCEPT !.icoi = c, !.icb = TRUE, !.irv = FALSE]
    BY <1>2, <2>1 DEF Command
  <2> HIDE DEF c
  <2>4. regs' \in Regs /\ regs'.icb = TRUE /\ regs'.irv = FALSE /\ regs'.icoi = c
    BY <2>1, <2>3 DEF Regs
  <2>5. UnderWay(regs', link', c)
    BY <1>2, <2>2, <2>4 DEF UnderWay
  <2>6. sw'.cmd \in Asks /\ (c.verb = "AMP_SET" => Rested(sw')) /\ (c.verb # "AMP_SET" => WalkAt(sw'))
    BY <1>1, <1>3 DEF HdaOK, c
  <2>7. c = sw'.cmd
    BY <1>3 DEF c
  <2> QED
    BY <1>3, <2>4, <2>5, <2>6, <2>7 DEF HdaOK
<1> QED
  BY <1>3, <1>4, <1>5 DEF HdaInv

LEMMA VerbSentStep ==
  ASSUME HdaInv, ~spoilt, VerbSent
  PROVE  HdaInv'
<1>1. sw \in Walker /\ HdaOK(regs, link, sw) /\ sw.pc = "busy" /\ ~regs.icb
  BY DEF HdaInv, VerbSent
<1>2. regs' = regs /\ link' = link /\ spoilt' = spoilt
  BY DEF VerbSent
<1>3. sw.cmd \in Asks /\ regs \in Regs /\ UnderWay(regs, link, sw.cmd)
  BY <1>1 DEF HdaOK
<1>4. CASE sw.cmd.verb = "AMP_SET"
  <2>1. sw' = [sw EXCEPT !.pc = "return"]
    BY <1>4 DEF VerbSent
  <2>2. sw' \in Walker /\ sw'.pc = "return" /\ sw'.cmd = sw.cmd /\ Rested(sw) = Rested(sw')
    BY <1>1, <2>1, PcOnly
  <2>3. Quiet(regs, link)
    BY <1>1, <1>3, <1>4 DEF UnderWay, Quiet
  <2>4. HdaOK(regs', link', sw')
    BY <1>1, <1>2, <1>3, <1>4, <2>2, <2>3 DEF HdaOK
  <2> QED
    BY <1>2, <2>2, <2>4 DEF HdaInv
<1>5. CASE sw.cmd.verb # "AMP_SET"
  <2>1. sw' = [sw EXCEPT !.pc = "valid"]
    BY <1>5 DEF VerbSent
  <2>2. sw' \in Walker /\ sw'.pc = "valid" /\ sw'.cmd = sw.cmd /\ WalkAt(sw) = WalkAt(sw')
    BY <1>1, <2>1, PcOnly
  <2>3. HdaOK(regs', link', sw')
    BY <1>1, <1>2, <1>3, <1>5, <2>2 DEF HdaOK
  <2> QED
    BY <1>2, <2>2, <2>3 DEF HdaInv
<1> QED
  BY <1>4, <1>5

(* The driver has asked the next question or is between walks.             *)
LEMMA WalksOnOK ==
  ASSUME NEW t, NEW walks, NEW r \in Regs, NEW l, WalksOn(t, walks), Quiet(r, l)
  PROVE  t \in Walker /\ HdaOK(r, l, t)
<1>1. CASE t.pc = "send" /\ t.cmd \in Asks /\ WalkAt(t)
  <2>1. t.cmd.verb # "AMP_SET"
    BY <1>1 DEF WalkAt
  <2> QED
    BY <1>1, <2>1 DEF WalksOn, HdaOK
<1>2. CASE t.pc = "idle" /\ t.cmd = None /\ Asked(t.log) = AllWalked
  BY <1>2 DEF WalksOn, HdaOK, Rested
<1> QED
  BY <1>1, <1>2 DEF WalksOn

LEMMA VerbAnsweredStep ==
  ASSUME HdaInv, ~spoilt, VerbAnswered
  PROVE  HdaInv'
<1>1. sw \in Walker /\ HdaOK(regs, link, sw) /\ sw.pc = "valid" /\ regs.irv
  BY DEF HdaInv, VerbAnswered
<1>2. /\ regs' = regs /\ link' = link /\ spoilt' = spoilt /\ spoilt \in BOOLEAN
      /\ sw' = Learn(sw, regs.icii)
  BY DEF VerbAnswered, HdaInv
<1>3. /\ sw.cmd \in Asks /\ regs \in Regs /\ UnderWay(regs, link, sw.cmd)
      /\ sw.cmd.verb # "AMP_SET" /\ ~regs.icb /\ WalkAt(sw)
  BY <1>1 DEF HdaOK
<1>4. link = <<>> /\ regs.icii = Answer(sw.cmd)
  BY <1>1, <1>3 DEF UnderWay
<1>5. WalksOn(sw', sw.walks)
  BY <1>1, <1>2, <1>3, <1>4, LearnWalksOn
<1>6. Quiet(regs, link)
  BY <1>3, <1>4 DEF Quiet
<1>7. sw' \in Walker /\ HdaOK(regs, link, sw')
  BY <1>3, <1>5, <1>6, WalksOnOK
<1> QED
  BY <1>2, <1>7 DEF HdaInv
LEMMA VolumeSetStep ==
  ASSUME HdaInv, ~spoilt, VolumeSet
  PROVE  HdaInv'
<1>1. sw \in Walker /\ HdaOK(regs, link, sw) /\ sw.pc = "return"
  BY DEF HdaInv, VolumeSet
<1>2. /\ regs' = regs /\ link' = link /\ spoilt' = spoilt /\ spoilt \in BOOLEAN
      /\ sw' = [sw EXCEPT !.pc = "idle", !.cmd = None]
  BY DEF VolumeSet, HdaInv
<1>3. regs \in Regs /\ Quiet(regs, link) /\ Rested(sw)
  BY <1>1 DEF HdaOK
<1>4. /\ sw' \in Walker /\ sw'.pc = "idle" /\ sw'.cmd = None
      /\ sw'.log = sw.log /\ sw'.walks = sw.walks
  <2> DEFINE none == None
             t == sw'
  <2>1. none \in Asks \cup {None} /\ t = [sw EXCEPT !.pc = "idle", !.cmd = none]
    BY <1>2
  <2> HIDE DEF none, t
  <2>2. t \in Walker /\ t.pc = "idle" /\ t.cmd = none /\ t.log = sw.log /\ t.walks = sw.walks
    BY <1>1, <2>1 DEF Walker
  <2> QED
    BY <2>2 DEF none, t
<1>5. Rested(sw')
  BY <1>3, <1>4 DEF Rested
<1>6. HdaOK(regs, link, sw')
  BY <1>3, <1>4, <1>5 DEF HdaOK
<1> QED
  BY <1>2, <1>4, <1>6 DEF HdaInv

LEMMA SetVolumeStep ==
  ASSUME HdaInv, ~spoilt, hda_set_volume
  PROVE  HdaInv'
<1>1. sw \in Walker /\ HdaOK(regs, link, sw) /\ sw.pc = "idle"
  BY DEF HdaInv, hda_set_volume
<1>2. /\ regs' = regs /\ link' = link /\ spoilt' = spoilt /\ spoilt \in BOOLEAN
  BY DEF hda_set_volume, HdaInv
<1>3. PICK c \in DOMAIN Codecs : sw' = Ask(sw, "AMP_SET", c, Codecs[c].start)
  BY DEF hda_set_volume
<1>4. regs \in Regs /\ Quiet(regs, link) /\ Rested(sw)
  BY <1>1 DEF HdaOK
<1> DEFINE n == Codecs[c].start
           t == sw'
<1>5. n \in Nat /\ "AMP_SET" \in Verbs /\ t = Ask(sw, "AMP_SET", c, n)
  BY <1>3, CodecsAssumption DEF Verbs
<1> HIDE DEF n, t
<1>6. /\ t \in Walker /\ t.pc = "send" /\ t.cmd \in Asks /\ t.cmd.verb = "AMP_SET"
      /\ t.log = sw.log /\ t.walks = sw.walks
  BY <1>1, <1>5, AskIs
<1>7. Rested(t)
  BY <1>4, <1>6 DEF Rested
<1>8. HdaOK(regs, link, t)
  BY <1>4, <1>6, <1>7 DEF HdaOK
<1> QED
  BY <1>2, <1>6, <1>8 DEF HdaInv, t

LEMMA HdaInitStep ==
  ASSUME HdaInv, ~spoilt, hda_init
  PROVE  HdaInv'
<1>1. sw \in Walker /\ HdaOK(regs, link, sw) /\ sw.pc = "idle"
  BY DEF HdaInv, hda_init
<1> DEFINE s == [sw EXCEPT !.log = {}, !.walks = @ + 1]
<1>2. /\ regs' = regs /\ link' = link /\ spoilt' = spoilt /\ spoilt \in BOOLEAN
      /\ sw' = NextCodec(s, 0)
  BY DEF hda_init, HdaInv
<1>3. regs \in Regs /\ Quiet(regs, link)
  BY <1>1 DEF HdaOK
<1>4. s \in Walker /\ s.log = {}
  <2> DEFINE w == sw.walks + 1
             none == {}
  <2>1. w \in Nat /\ none \in SUBSET Truths /\ s = [sw EXCEPT !.log = none, !.walks = w]
    BY <1>1 DEF Walker
  <2> HIDE DEF w, none, s
  <2>2. s \in Walker /\ s.log = none
    BY <1>1, <2>1 DEF Walker
  <2> QED
    BY <2>2 DEF none
<1>5. Asked(s.log) = {}
  BY <1>4 DEF Asked
<1> HIDE DEF s
<1>6. Asked(s.log) = Walked(0, 0, 0) /\ 0 \in Nat
  BY <1>5, NothingWalked
<1>7. WalksOn(NextCodec(s, 0), s.walks)
  BY <1>4, <1>6, NextCodecWalksOn
<1>8. WalksOn(sw', s.walks)
  BY <1>2, <1>7
<1>9. sw' \in Walker /\ HdaOK(regs, link, sw')
  BY <1>3, <1>8, WalksOnOK
<1> QED
  BY <1>2, <1>9 DEF HdaInv

LEMMA ControllerSendsStep ==
  ASSUME HdaInv, ~spoilt, ControllerSends
  PROVE  HdaInv'
<1>1. sw \in Walker /\ HdaOK(regs, link, sw) /\ regs.icb
  BY DEF HdaInv, ControllerSends
<1>2. /\ regs' = [regs EXCEPT !.icb = FALSE] /\ link' = Append(link, regs.icoi)
      /\ spoilt' = spoilt /\ spoilt \in BOOLEAN /\ sw' = sw
  BY DEF ControllerSends, HdaInv
<1>3. regs \in Regs
  BY <1>1 DEF HdaOK
<1>4. ~Quiet(regs, link)
  BY <1>1 DEF Quiet
<1>5. sw.pc = "busy"
  <2>1. sw.pc \in {"idle", "send", "busy", "valid", "return"}
    BY <1>1 DEF Walker
  <2> QED
    BY <1>1, <1>4, <2>1 DEF HdaOK
<1>6. regs' \in Regs /\ ~regs'.icb /\ regs'.irv = regs.irv
  BY <1>2, <1>3 DEF Regs
<1>7. UnderWay(regs, link, sw.cmd)
  BY <1>1, <1>5 DEF HdaOK
<1>8. regs.icoi = sw.cmd /\ link = <<>> /\ ~regs.irv
  BY <1>1, <1>7 DEF UnderWay
<1>9. link' = <<sw.cmd>> /\ ~regs'.irv
  BY <1>2, <1>6, <1>8
<1>10. UnderWay(regs', link', sw.cmd)
  BY <1>6, <1>9 DEF UnderWay
<1>11. HdaOK(regs', link', sw)
  BY <1>1, <1>5, <1>6, <1>10 DEF HdaOK
<1> QED
  BY <1>1, <1>2, <1>11 DEF HdaInv

LEMMA CodecAnswersStep ==
  ASSUME HdaInv, ~spoilt, CodecAnswers
  PROVE  HdaInv'
<1>1. sw \in Walker /\ HdaOK(regs, link, sw) /\ link # <<>>
  BY DEF HdaInv, CodecAnswers
<1> DEFINE a == Answer(Head(link))
<1>2. /\ regs' = [regs EXCEPT !.irv = TRUE, !.icii = a] /\ link' = Tail(link)
      /\ spoilt' = spoilt /\ spoilt \in BOOLEAN /\ sw' = sw
  BY DEF CodecAnswers, HdaInv
<1>3. regs \in Regs
  BY <1>1 DEF HdaOK
<1>4. CASE sw.pc \in {"idle", "send", "return"}
  <2>1. Quiet(regs, link)
    BY <1>1, <1>4 DEF HdaOK
  <2>2. PICK c \in Asks : c.verb = "AMP_SET" /\ link = <<c>>
    BY <1>1, <2>1 DEF Quiet
  <2>3. Head(link) = c /\ link' = <<>>
    BY <1>2, <2>2
  <2>4. a \in {Answer(d) : d \in Asks} \cup {<<0, 0>>}
    BY <2>3
  <2> HIDE DEF a
  <2>5. regs' \in Regs /\ regs'.icb = regs.icb
    BY <1>2, <1>3, <2>4 DEF Regs
  <2>6. Quiet(regs', link')
    BY <2>1, <2>3, <2>5 DEF Quiet
  <2>7. HdaOK(regs', link', sw)
    BY <1>1, <1>4, <2>5, <2>6 DEF HdaOK
  <2> QED
    BY <1>1, <1>2, <2>7 DEF HdaInv
<1>5. CASE sw.pc \in {"busy", "valid"}
  <2>1. UnderWay(regs, link, sw.cmd) /\ sw.cmd \in Asks
    BY <1>1, <1>5 DEF HdaOK
  <2>2. ~regs.icb /\ link = <<sw.cmd>>
    BY <1>1, <2>1 DEF UnderWay
  <2>3. Head(link) = sw.cmd /\ link' = <<>>
    BY <1>2, <2>2
  <2>4. a \in {Answer(d) : d \in Asks} \cup {<<0, 0>>} /\ a = Answer(sw.cmd)
    BY <2>1, <2>3
  <2> HIDE DEF a
  <2>5. regs' \in Regs /\ regs'.icb = regs.icb /\ regs'.irv = TRUE /\ regs'.icii = a
    BY <1>2, <1>3, <2>4 DEF Regs
  <2>6. UnderWay(regs', link', sw.cmd)
    BY <2>2, <2>3, <2>4, <2>5 DEF UnderWay
  <2>7. HdaOK(regs', link', sw)
    BY <1>1, <1>5, <2>2, <2>5, <2>6 DEF HdaOK
  <2> QED
    BY <1>1, <1>2, <2>7 DEF HdaInv
<1>6. sw.pc \in {"idle", "send", "busy", "valid", "return"}
  BY <1>1 DEF Walker
<1> QED
  BY <1>4, <1>5, <1>6

LEMMA HdaInvInit == DInit => HdaInv
<1> SUFFICES ASSUME HInit PROVE HdaInv
  BY DEF DInit
<1> DEFINE none == None
           no == {}
           zero == <<0, 0>>
           nothing == <<>>
<1>1. /\ none \in Asks \cup {None} /\ no \in SUBSET Truths
      /\ zero \in {Answer(c) : c \in Asks} \cup {<<0, 0>>}
  OBVIOUS
<1>2. /\ regs = [icb |-> FALSE, irv |-> FALSE, icoi |-> none, icii |-> zero]
      /\ sw = [pc |-> "idle", cmd |-> none, i |-> 0, j |-> 0, wi |-> 0, start |-> 0,
               count |-> 0, s_start |-> 0, s_count |-> 0, fg_type |-> 0, log |-> no, walks |-> 0]
      /\ link = nothing /\ spoilt = FALSE
  BY DEF HInit
<1> HIDE DEF none, no, zero, nothing
<1>3. regs \in Regs /\ regs.icb = FALSE
  BY <1>1, <1>2 DEF Regs
<1>4. sw \in Walker /\ sw.pc = "idle" /\ sw.cmd = none /\ sw.walks = 0
  BY <1>1, <1>2 DEF Walker
<1>5. Quiet(regs, link)
  BY <1>2, <1>3 DEF Quiet, nothing
<1>6. Rested(sw)
  BY <1>4 DEF Rested
<1>7. HdaOK(regs, link, sw)
  BY <1>3, <1>4, <1>5, <1>6 DEF HdaOK, none
<1> QED
  BY <1>2, <1>4, <1>7 DEF HdaInv

LEMMA HdaInvStep ==
  ASSUME HdaInv, [DNext]_dvars
  PROVE  HdaInv'
<1>1. CASE UNCHANGED hvars
  BY <1>1 DEF hvars, HdaInv
<1>2. CASE AudioStep
  <2>1. ~spoilt
    BY <1>2 DEF AudioStep
  <2> QED
    BY <1>2, <2>1, SendVerbStep, VerbSentStep, VerbAnsweredStep, VolumeSetStep, HdaInitStep,
       SetVolumeStep, ControllerSendsStep, CodecAnswersStep DEF AudioStep
<1> QED
  BY <1>1, <1>2 DEF DNext, dvars, ConsoleStep, PciStep, NetBoot, NetCall, NetDevice, Only

(* The nodes of the widgets, codec by codec and group by group.            *)
LEMMA AllWalkedIs ==
  AllWalked = UNION {{<<y[1], Codecs[y[1]].groups[y[2]].start + w - 1>> :
                        w \in DOMAIN Codecs[y[1]].groups[y[2]].widgets} :
                     y \in {x \in (DOMAIN Codecs) \X (1..NODE_RANGE) :
                         x[2] \in DOMAIN Codecs[x[1]].groups
                           /\ Codecs[x[1]].groups[x[2]].type = 1}}
<1> DEFINE Pairs == {x \in (DOMAIN Codecs) \X (1..NODE_RANGE) :
                       x[2] \in DOMAIN Codecs[x[1]].groups
                         /\ Codecs[x[1]].groups[x[2]].type = 1}
           Of(y) == {<<y[1], Codecs[y[1]].groups[y[2]].start + w - 1>> :
                       w \in DOMAIN Codecs[y[1]].groups[y[2]].widgets}
<1>1. ASSUME NEW y \in Widgets
      PROVE  \E x \in Pairs : <<y[1], NidOf(y)>> \in Of(x)
  <2> DEFINE x == <<y[1], y[2]>>
  <2>1. /\ y[1] \in DOMAIN Codecs /\ y[2] \in 1..NODE_RANGE
        /\ y[2] \in DOMAIN Codecs[y[1]].groups /\ Codecs[y[1]].groups[y[2]].type = 1
        /\ y[3] \in DOMAIN Codecs[y[1]].groups[y[2]].widgets
    BY DEF Widgets
  <2>2. x \in Pairs
    BY <2>1
  <2>3. <<y[1], NidOf(y)>> \in Of(x)
    BY <2>1 DEF NidOf
  <2> QED
    BY <2>2, <2>3
<1>2. ASSUME NEW x \in Pairs, NEW p \in Of(x)
      PROVE  \E y \in Widgets : p = <<y[1], NidOf(y)>>
  <2>1. PICK w \in DOMAIN Codecs[x[1]].groups[x[2]].widgets :
          p = <<x[1], Codecs[x[1]].groups[x[2]].start + w - 1>>
    OBVIOUS
  <2>2. x[1] \in DOMAIN Codecs /\ x[2] \in 1..NODE_RANGE /\ x[2] \in DOMAIN Codecs[x[1]].groups
        /\ Codecs[x[1]].groups[x[2]].type = 1
    OBVIOUS
  <2>3. w \in 1..NODE_RANGE
    <3> DEFINE e == Codecs[x[1]].groups[x[2]]
    <3>1. /\ e.start \in Nat /\ Len(e.widgets) \in Nat /\ DOMAIN e.widgets = 1..Len(e.widgets)
          /\ e.start + Len(e.widgets) < NODE_RANGE
      BY <2>2, CodecIs
    <3> HIDE DEF e
    <3>2. w \in 1..Len(e.widgets)
      BY <3>1 DEF e
    <3> QED
      BY <3>1, <3>2, HdaAssumption
  <2> DEFINE y == <<x[1], x[2], w>>
  <2>4. y \in Widgets
    BY <2>1, <2>2, <2>3 DEF Widgets
  <2>5. p = <<y[1], NidOf(y)>>
    BY <2>1 DEF NidOf
  <2> QED
    BY <2>4, <2>5
<1>3. AllWalked = UNION {Of(y) : y \in Pairs}
  <2> HIDE DEF Pairs, Of
  <2> QED
    BY <1>1, <1>2 DEF AllWalked
<1> QED
  BY <1>3

(* Whatever codecs there are and however long the controller takes: every  *)
(* answer that enumerate_codecs works with belongs to the question it      *)
(* asked, and at its end it has asked for every widget of every audio      *)
(* function group, and for nothing that is not there, unless a verb was    *)
(* sent while the answer to hda_set_volume was still under way.            *)
THEOREM WalkAlwaysRight == DSpec => []WalkRight
<1>1. DInit => HdaInv
  BY HdaInvInit
<1>2. HdaInv /\ [DNext]_dvars => HdaInv'
  BY HdaInvStep
<1>3. HdaInv => WalkRight
  <2> SUFFICES ASSUME HdaInv PROVE WalkRight
    OBVIOUS
  <2>1. sw.log \subseteq Truths
    BY DEF HdaInv, Walker
  <2>2. AnswersMatch
    BY <2>1 DEF AnswersMatch, Truths
  <2>3. ASSUME ~spoilt, sw.pc = "idle", sw.walks > 0
        PROVE  Asked(sw.log) = AllWalked
    BY <2>3 DEF HdaInv, HdaOK, Rested
  <2>4. WalkComplete
    BY <2>3, AllWalkedIs DEF WalkComplete, Asked
  <2> QED
    BY <2>2, <2>4 DEF WalkRight
<1> QED
  BY <1>1, <1>2, <1>3, PTL DEF DSpec

-----------------------------------------------------------------------------
(* The keyboard.                                                           *)

Slots == 0..C_BUFSIZE-1

(* The characters the keyboard can give.                                   *)
CharOf(shift, ctrl, code) ==
  IF ctrl THEN scan_code(shift, code) % 32 ELSE scan_code(shift, code)
Chars ==
  {0} \cup {CharOf(x[1], x[2], x[3]) : x \in BOOLEAN \X BOOLEAN \X Codes}

Keyboards ==
  [buf : [Slots -> Chars], next_char : Slots, next_space : Slots,
   shift : BOOLEAN, ctrl : BOOLEAN]
Reads ==
  [state : {"idle", "gets", "done"}, len : Nat, got : Seq(Chars),
   enough : BOOLEAN, eot : BOOLEAN]

(* The place i steps behind place x.                                       *)
Behind(x, i) == IF x + i >= C_BUFSIZE THEN x + i - C_BUFSIZE ELSE x + i

(* The buffer k holds the characters d from next_char on.                  *)
Holds(k, d) ==
  /\ Len(d) < C_BUFSIZE
  /\ k.next_space = Behind(k.next_char, Len(d))
  /\ \A i \in 1..Len(d) : k.buf[Behind(k.next_char, i - 1)] = d[i]

(* No newline but the last of what was read, and a place for the NUL.      *)
OneLine(s) ==
  /\ Len(s.got) < s.len
  /\ \A i \in 1..Len(s.got)-1 : s.got[i] # NEWLINE

(* What waits ends the line or fills what is left of the caller's buffer.  *)
Enough(s, d) ==
  \E i \in 1..Len(d) : d[i] \in {EOT, NEWLINE} \/ Len(s.got) + i = s.len - 1

KTypes ==
  /\ kbd \in Keyboards /\ due \in Seq(Chars) /\ raced \in BOOLEAN /\ sys \in Reads

(* The inductive invariant.                                                *)
KbdInv ==
  /\ KTypes
  /\ ~raced => Holds(kbd, due)
  /\ sys.state = "gets" =>
       /\ ~raced /\ OneLine(sys)
       /\ sys.enough => GetsDone(sys) \/ Enough(sys, due)
  /\ sys.state = "done" => OneLine(sys) /\ GetsDone(sys)
-----------------------------------------------------------------------------
(* What cio.c does to the buffer.                                          *)
LEMMA KeyInChars ==
  ASSUME NEW k \in Keyboards, NEW code \in Codes
  PROVE  KeyOf(k, code) \in Chars
<1>1. k.shift \in BOOLEAN /\ k.ctrl \in BOOLEAN
  BY DEF Keyboards
<1>2. KeyOf(k, code) = CharOf(k.shift, k.ctrl, code)
  BY DEF KeyOf, CharOf
<1> DEFINE x == <<k.shift, k.ctrl, code>>
<1>3. x \in BOOLEAN \X BOOLEAN \X Codes /\ x[1] = k.shift /\ x[2] = k.ctrl /\ x[3] = code
  BY <1>1
<1> HIDE DEF x
<1>4. KeyOf(k, code) = CharOf(x[1], x[2], x[3])
  BY <1>2, <1>3
<1> QED
  BY <1>3, <1>4 DEF Chars

LEMMA BehindIs ==
  ASSUME NEW x \in Slots, NEW n \in Slots
  PROVE  /\ Behind(x, n) \in Slots
         /\ Behind(Behind(x, n), 1) = Behind(x, n + 1)
         /\ Behind(Behind(x, 1), n) = Behind(x, n + 1)
         /\ Behind(x, n) = x <=> n = 0
         /\ Behind(x, n + 1) = x <=> n = C_BUFSIZE - 1
BY CioAssumption DEF Behind, Slots

LEMMA BehindApart ==
  ASSUME NEW x \in Slots, NEW i \in Slots, NEW j \in Slots, i # j
  PROVE  Behind(x, i) # Behind(x, j)
BY CioAssumption DEF Behind, Slots

LEMMA IncrementIs ==
  ASSUME NEW i \in Slots
  PROVE  increment(i) \in Slots /\ increment(i) = Behind(i, 1)
BY CioAssumption DEF increment, Slots, Behind

(* A character that finds room is behind those that wait.                  *)
LEMMA StoredHolds ==
  ASSUME NEW k \in Keyboards, NEW d \in Seq(Chars), Holds(k, d), NEW c \in Chars
  PROVE  LET e == IF Len(d) < C_BUFSIZE - 1 THEN Append(d, c) ELSE d
         IN /\ Stored(k, c) \in Keyboards /\ Holds(Stored(k, c), e)
            /\ e \in Seq(Chars)
<1> DEFINE x == k.next_char
           y == k.next_space
           n == Len(d)
<1>1. x \in Slots /\ y \in Slots /\ n \in Nat /\ k.buf \in [Slots -> Chars]
  BY DEF Keyboards
<1>2. n < C_BUFSIZE /\ y = Behind(x, n) /\ \A i \in 1..n : k.buf[Behind(x, i - 1)] = d[i]
  BY DEF Holds
<1>3. increment(y) \in Slots /\ increment(y) = Behind(y, 1)
  BY <1>1, IncrementIs
<1>4. increment(y) = x <=> n = C_BUFSIZE - 1
  <2> HIDE DEF x, y, n
  <2>1. n \in Slots
    BY <1>1, <1>2, CioAssumption DEF Slots
  <2> QED
    BY <1>1, <1>2, <1>3, <2>1, BehindIs
<1>5. CASE n = C_BUFSIZE - 1
  <2>1. Stored(k, c) = k
    BY <1>4, <1>5 DEF Stored
  <2> QED
    BY <1>5, <2>1
<1>6. CASE n # C_BUFSIZE - 1
  <2> DEFINE b == [k.buf EXCEPT ![y] = c]
             z == increment(y)
             s == Stored(k, c)
             e == Append(d, c)
  <2>1. n < C_BUFSIZE - 1
    <3> HIDE DEF n
    <3> QED
      BY <1>1, <1>2, <1>6, CioAssumption
  <2>2. s = [k EXCEPT !.buf[y] = c, !.next_space = z]
    BY <1>4, <1>6 DEF Stored
  <2>3. s = [k EXCEPT !.buf = b, !.next_space = z]
    BY <2>2, Zenon
  <2>4. b \in [Slots -> Chars] /\ b[y] = c /\ \A i \in Slots : i # y => b[i] = k.buf[i]
    BY <1>1
  <2>5. z \in Slots /\ z = Behind(y, 1)
    BY <1>3
  <2> HIDE DEF b, z, s
  <2>6. /\ s \in Keyboards /\ s.buf = b /\ s.next_char = x /\ s.next_space = z
    BY <2>3, <2>4, <2>5 DEF Keyboards
  <2>7. /\ e \in Seq(Chars) /\ Len(e) = n + 1 /\ e[n + 1] = c
        /\ \A i \in 1..n : e[i] = d[i]
    OBVIOUS
  <2> HIDE DEF x, y, n, e
  <2>0. n \in Slots
    BY <1>1, <1>2, CioAssumption DEF Slots
  <2>8. z = Behind(x, n + 1)
    BY <1>1, <1>2, <2>0, <2>5, BehindIs
  <2>9. ASSUME NEW i \in 1..n PROVE Behind(x, i - 1) \in Slots /\ Behind(x, i - 1) # y
    <3>1. i - 1 \in Slots /\ i - 1 # n
      BY <1>1, <1>2, CioAssumption DEF Slots
    <3> QED
      BY <1>1, <1>2, <2>0, <3>1, BehindIs, BehindApart
  <2>10. ASSUME NEW i \in 1..n+1 PROVE b[Behind(x, i - 1)] = e[i]
    <3>1. CASE i = n + 1
      <4>1. i - 1 = n
        BY <1>1, <3>1
      <4> QED
        BY <1>2, <2>4, <2>7, <3>1, <4>1
    <3>2. CASE i # n + 1
      <4>1. i \in 1..n
        BY <1>1, <3>2
      <4> QED
        BY <1>2, <2>4, <2>7, <2>9, <4>1
    <3> QED
      BY <3>1, <3>2
  <2>13. n + 1 < C_BUFSIZE
    BY <1>1, <2>1, CioAssumption
  <2>11. Holds(s, e)
    <3> DEFINE m == n + 1
    <3>1. /\ m < C_BUFSIZE /\ Len(e) = m /\ z = Behind(x, m)
          /\ \A i \in 1..m : b[Behind(x, i - 1)] = e[i]
      BY <2>13, <2>7, <2>8, <2>10
    <3> HIDE DEF m
    <3> QED
      BY <2>6, <3>1, Zenon DEF Holds
  <2>12. Len(d) < C_BUFSIZE - 1
    BY <2>1 DEF n
  <2> QED
    BY <2>6, <2>7, <2>11, <2>12 DEF s, e
<1> QED
  BY <1>5, <1>6

(* The character taken is the first that waits, and the others stay.       *)
LEMMA TakenHolds ==
  ASSUME NEW k \in Keyboards, NEW d \in Seq(Chars), Holds(k, d)
  PROVE  /\ cio_kbhit(k) <=> d # <<>>
         /\ d # <<>> => NextChar(k) = d[1] /\ Holds(Taken(k), Tail(d))
<1> DEFINE x == k.next_char
           y == k.next_space
           n == Len(d)
<1>1. x \in Slots /\ y \in Slots /\ n \in Nat /\ k.buf \in [Slots -> Chars]
  BY DEF Keyboards
<1>2. n < C_BUFSIZE /\ y = Behind(x, n) /\ \A i \in 1..n : k.buf[Behind(x, i - 1)] = d[i]
  BY DEF Holds
<1>3. x = y <=> n = 0
  <2> HIDE DEF x, y, n
  <2> QED
    BY <1>1, <1>2, CioAssumption DEF Behind, Slots
<1>4. n = 0 <=> d = <<>>
  OBVIOUS
<1>5. cio_kbhit(k) <=> d # <<>>
  BY <1>3, <1>4 DEF cio_kbhit
<1>6. ASSUME d # <<>> PROVE NextChar(k) = d[1] /\ Holds(Taken(k), Tail(d))
  <2> DEFINE z == increment(x)
             s == Taken(k)
             e == Tail(d)
  <2>1. n > 0
    BY <1>1, <1>4, <1>6
  <2>2. z \in Slots /\ z = Behind(x, 1)
    BY <1>1, IncrementIs
  <2>3. s = [k EXCEPT !.next_char = z]
    BY DEF Taken
  <2>4. /\ Len(e) = n - 1 /\ \A i \in 1..n-1 : e[i] = d[i + 1]
    BY <1>6
  <2> HIDE DEF z, s
  <2>5. s.buf = k.buf /\ s.next_char = z /\ s.next_space = y
    BY <2>2, <2>3 DEF Keyboards
  <2> HIDE DEF x, y, n, e
  <2>6. Behind(x, 0) = x /\ 1 - 1 = 0
    BY <1>1, CioAssumption DEF Behind, Slots
  <2>7. k.buf[x] = d[1]
    BY <1>1, <1>2, <2>1, <2>6
  <2>8. y = Behind(z, n - 1)
    <3>1. n - 1 \in Slots /\ (n - 1) + 1 = n
      BY <1>1, <1>2, <2>1, CioAssumption DEF Slots
    <3> DEFINE m == n - 1
    <3> HIDE DEF m
    <3>2. Behind(Behind(x, 1), m) = Behind(x, m + 1)
      BY <1>1, <3>1, BehindIs DEF m
    <3> QED
      BY <1>2, <2>2, <3>1, <3>2 DEF m
  <2>9. ASSUME NEW i \in 1..n-1 PROVE k.buf[Behind(z, i - 1)] = e[i]
    <3>1. Behind(z, i - 1) = Behind(x, i) /\ i + 1 \in 1..n /\ (i + 1) - 1 = i
      BY <1>1, <1>2, <2>1, <2>2, CioAssumption DEF Behind, Slots
    <3>2. k.buf[Behind(x, (i + 1) - 1)] = d[i + 1]
      BY <1>2, <3>1
    <3> QED
      BY <2>4, <3>1, <3>2
  <2>10. Holds(s, e)
    <3> DEFINE m == n - 1
    <3>1. /\ m < C_BUFSIZE /\ Len(e) = m /\ y = Behind(z, m)
          /\ \A i \in 1..m : k.buf[Behind(z, i - 1)] = e[i]
      BY <1>1, <1>2, <2>4, <2>8, <2>9, CioAssumption
    <3> HIDE DEF m
    <3> QED
      BY <2>5, <3>1, Zenon DEF Holds
  <2>11. NextChar(k) = d[1]
    BY <2>7 DEF NextChar, x
  <2> QED
    BY <2>10, <2>11 DEF s, e
<1> QED
  BY <1>5, <1>6
(* A scan code, with its character if it has one.                          *)
LEMMA KeyHolds ==
  ASSUME KTypes, Holds(kbd, due), NEW code \in Codes, Key(code)
  PROVE  kbd' \in Keyboards /\ due' \in Seq(Chars) /\ Holds(kbd', due')
<1> DEFINE c == KeyOf(kbd, code)
<1>1. kbd \in Keyboards /\ due \in Seq(Chars) /\ c \in Chars
  BY KeyInChars DEF KTypes
<1>2. code \in 0..255
  BY ConsoleAssumption
<1> HIDE DEF c
<1>3. CASE code < 128 /\ code \notin Modifiers
  <2>1. /\ code \notin {L_SHIFT_DN, R_SHIFT_DN} /\ code \notin {L_SHIFT_UP, R_SHIFT_UP}
        /\ code # L_CTRL_DN /\ code # L_CTRL_UP
    BY <1>2, <1>3 DEF Modifiers, L_SHIFT_DN, R_SHIFT_DN, L_SHIFT_UP, R_SHIFT_UP, L_CTRL_DN, L_CTRL_UP
  <2>2. kbd' = Stored(kbd, c)
    BY <1>3, <2>1 DEF Key, input_scan_code, c
  <2>3. due' = IF Len(due) < C_BUFSIZE - 1 THEN Append(due, c) ELSE due
    BY <1>3 DEF Key, c
  <2> QED
    BY <1>1, <2>2, <2>3, StoredHolds
<1>4. CASE ~(code < 128 /\ code \notin Modifiers)
  <2>1. due' = due
    BY <1>4 DEF Key
  <2>2. \/ kbd' = [kbd EXCEPT !.shift = TRUE] \/ kbd' = [kbd EXCEPT !.shift = FALSE]
        \/ kbd' = [kbd EXCEPT !.ctrl = TRUE] \/ kbd' = [kbd EXCEPT !.ctrl = FALSE]
        \/ kbd' = kbd
    BY <1>2, <1>4 DEF Key, input_scan_code, Modifiers
  <2>3. /\ kbd' \in Keyboards /\ kbd'.buf = kbd.buf
        /\ kbd'.next_char = kbd.next_char /\ kbd'.next_space = kbd.next_space
    <3>1. CASE kbd' = [kbd EXCEPT !.shift = TRUE]
      BY <1>1, <3>1 DEF Keyboards
    <3>2. CASE kbd' = [kbd EXCEPT !.shift = FALSE]
      BY <1>1, <3>2 DEF Keyboards
    <3>3. CASE kbd' = [kbd EXCEPT !.ctrl = TRUE]
      BY <1>1, <3>3 DEF Keyboards
    <3>4. CASE kbd' = [kbd EXCEPT !.ctrl = FALSE]
      BY <1>1, <3>4 DEF Keyboards
    <3> QED
      BY <1>1, <2>2, <3>1, <3>2, <3>3, <3>4
  <2> QED
    BY <1>1, <2>1, <2>3 DEF Holds
<1> QED
  BY <1>3, <1>4

LEMMA TakenTypes ==
  ASSUME NEW k \in Keyboards
  PROVE  Taken(k) \in Keyboards /\ NextChar(k) \in Chars
<1> DEFINE z == increment(k.next_char)
<1>1. k.next_char \in Slots /\ k.buf \in [Slots -> Chars]
  BY DEF Keyboards
<1>2. z \in Slots
  BY <1>1, IncrementIs
<1>3. Taken(k) = [k EXCEPT !.next_char = z]
  BY DEF Taken
<1> HIDE DEF z
<1> QED
  BY <1>1, <1>2, <1>3 DEF Keyboards, NextChar

-----------------------------------------------------------------------------
(* The steps.                                                              *)
LEMMA IsrStep ==
  ASSUME KbdInv, keyboard_isr
  PROVE  KbdInv'
<1>1. PICK code \in Codes : Key(code)
  BY DEF keyboard_isr
<1>2. /\ sys.state # "gets" /\ ~raced /\ sys' = sys /\ raced' = raced
  BY DEF keyboard_isr
<1>3. kbd' \in Keyboards /\ due' \in Seq(Chars) /\ Holds(kbd', due')
  BY <1>1, <1>2, KeyHolds DEF KbdInv
<1>4. KTypes'
  BY <1>2, <1>3 DEF KbdInv, KTypes
<1>5. sys'.state = "done" => OneLine(sys') /\ GetsDone(sys')
  BY <1>2 DEF KbdInv
<1> QED
  BY <1>2, <1>3, <1>4, <1>5 DEF KbdInv

LEMMA GetcharStep ==
  ASSUME KbdInv, GetcharTest \/ GetcharTake
  PROVE  KbdInv'
<1>1. CASE GetcharTest
  BY <1>1 DEF GetcharTest, KbdInv, KTypes
<1>2. CASE GetcharTake
  <2>1. /\ sys.state # "gets" /\ ~raced /\ sys' = sys /\ raced' = ~cio_kbhit(kbd)
        /\ kbd' = Taken(kbd) /\ due' = IF due = <<>> THEN due ELSE Tail(due)
    BY <1>2 DEF GetcharTake
  <2>2. kbd \in Keyboards /\ due \in Seq(Chars) /\ Holds(kbd, due)
    BY <2>1 DEF KbdInv, KTypes
  <2>3. /\ cio_kbhit(kbd) <=> due # <<>>
        /\ due # <<>> => Holds(Taken(kbd), Tail(due))
    BY <2>2, TakenHolds
  <2>4. kbd' \in Keyboards /\ due' \in Seq(Chars)
    BY <2>1, <2>2, TakenTypes
  <2>5. raced' \in BOOLEAN
    BY <2>1
  <2>6. ~raced' => Holds(kbd', due')
    BY <2>1, <2>3
  <2>7. KTypes'
    BY <2>1, <2>4, <2>5 DEF KTypes, KbdInv
  <2>8. sys'.state = "done" => OneLine(sys') /\ GetsDone(sys')
    BY <2>1 DEF KbdInv
  <2> QED
    BY <2>1, <2>6, <2>7, <2>8 DEF KbdInv
<1> QED
  BY <1>1, <1>2

LEMMA ReadStep ==
  ASSUME KbdInv, sys_read
  PROVE  KbdInv'
<1>1. PICK len \in ReadLengths :
        sys' = IF cio_input_queue(kbd) > 1
               THEN [Idle EXCEPT !.state = "gets", !.len = len,
                       !.enough = (len = 1 \/ \E i \in DOMAIN due :
                                     due[i] \in {EOT, NEWLINE} \/ i = len - 1)]
               ELSE Idle
  BY DEF sys_read
<1>2. sys.state # "gets" /\ ~raced /\ kbd' = kbd /\ due' = due /\ raced' = raced
  BY DEF sys_read
<1>3. len \in Nat /\ len > 0
  BY ConsoleAssumption
<1>4. due \in Seq(Chars) /\ DOMAIN due = 1..Len(due) /\ Len(due) \in Nat /\ <<>> \in Seq(Chars)
  BY DEF KbdInv, KTypes
<1>5. CASE sys' = Idle
  <2>1. sys' \in Reads /\ sys'.state = "idle"
    BY <1>4, <1>5 DEF Idle, Reads
  <2> QED
    BY <1>2, <2>1 DEF KbdInv, KTypes
<1>6. CASE sys' # Idle
  <2> DEFINE en == (len = 1 \/ \E i \in DOMAIN due : due[i] \in {EOT, NEWLINE} \/ i = len - 1)
  <2>1. sys' = [Idle EXCEPT !.state = "gets", !.len = len, !.enough = en]
    BY <1>1, <1>6
  <2>2. en \in BOOLEAN
    OBVIOUS
  <2>3. en => len = 1 \/ \E i \in 1..Len(due) : due[i] \in {EOT, NEWLINE} \/ 0 + i = len - 1
    BY <1>4
  <2> HIDE DEF en
  <2>4. /\ sys' \in Reads /\ sys'.state = "gets" /\ sys'.len = len /\ sys'.got = <<>>
        /\ sys'.enough = en
    BY <1>3, <1>4, <2>1, <2>2 DEF Idle, Reads
  <2>5. Len(sys'.got) = 0
    BY <2>4
  <2>6. OneLine(sys')
    BY <1>3, <2>4, <2>5 DEF OneLine
  <2>7. sys'.enough => GetsDone(sys') \/ Enough(sys', due')
    <3>1. CASE len = 1
      BY <2>4, <2>5, <3>1 DEF GetsDone
    <3>2. CASE len # 1
      BY <1>2, <2>3, <2>4, <2>5, <3>2 DEF Enough
    <3> QED
      BY <3>1, <3>2
  <2>8. KTypes'
    BY <1>2, <2>4 DEF KbdInv, KTypes
  <2> QED
    BY <1>2, <2>4, <2>6, <2>7, <2>8 DEF KbdInv
<1> QED
  BY <1>5, <1>6

LEMMA PollStep ==
  ASSUME KbdInv, GetsPoll
  PROVE  KbdInv'
<1>1. PICK code \in Codes : Key(code)
  BY DEF GetsPoll
<1>2. sys.state = "gets" /\ ~GetsDone(sys) /\ ~cio_kbhit(kbd) /\ sys' = sys /\ raced' = raced
  BY DEF GetsPoll
<1>3. ~raced /\ Holds(kbd, due) /\ kbd \in Keyboards /\ due \in Seq(Chars)
  BY <1>2 DEF KbdInv, KTypes
<1>4. kbd' \in Keyboards /\ due' \in Seq(Chars) /\ Holds(kbd', due')
  BY <1>1, <1>3, KeyHolds DEF KbdInv
<1>5. due = <<>>
  BY <1>2, <1>3, TakenHolds
<1>6. ~Enough(sys, due)
  BY <1>5 DEF Enough
<1>7. ~sys.enough
  BY <1>2, <1>6 DEF KbdInv
<1>8. OneLine(sys')
  BY <1>2 DEF KbdInv
<1>9. KTypes'
  BY <1>2, <1>4 DEF KbdInv, KTypes
<1> QED
  BY <1>2, <1>3, <1>4, <1>7, <1>8, <1>9 DEF KbdInv

LEMMA ReturnStep ==
  ASSUME KbdInv, GetsReturn
  PROVE  KbdInv'
<1>1. /\ sys.state = "gets" /\ GetsDone(sys) /\ sys' = [sys EXCEPT !.state = "done"]
      /\ kbd' = kbd /\ due' = due /\ raced' = raced
  BY DEF GetsReturn
<1>2. sys \in Reads /\ OneLine(sys)
  BY <1>1 DEF KbdInv, KTypes
<1>3. /\ sys' \in Reads /\ sys'.state = "done" /\ sys'.len = sys.len /\ sys'.got = sys.got
      /\ sys'.eot = sys.eot
  BY <1>1, <1>2 DEF Reads
<1>4. OneLine(sys') /\ GetsDone(sys')
  BY <1>1, <1>2, <1>3 DEF OneLine, GetsDone
<1> QED
  BY <1>1, <1>3, <1>4 DEF KbdInv, KTypes
(* The character read is the first that was due: it ends the line, or what *)
(* is left still does.                                                     *)
LEMMA TakeStep ==
  ASSUME KbdInv, GetsTake
  PROVE  KbdInv'
<1> DEFINE c == NextChar(kbd)
           got == Append(sys.got, c)
<1>1. /\ sys.state = "gets" /\ ~GetsDone(sys) /\ cio_kbhit(kbd)
      /\ kbd' = Taken(kbd) /\ due' = Tail(due) /\ raced' = raced
      /\ sys' = IF c = EOT THEN [sys EXCEPT !.eot = TRUE] ELSE [sys EXCEPT !.got = got]
  BY DEF GetsTake
<1>2. /\ ~raced /\ kbd \in Keyboards /\ due \in Seq(Chars) /\ sys \in Reads
      /\ Holds(kbd, due) /\ OneLine(sys)
      /\ sys.enough => Enough(sys, due)
  BY <1>1 DEF KbdInv, KTypes
<1>3. due # <<>> /\ c = due[1] /\ Holds(kbd', due')
  BY <1>1, <1>2, TakenHolds
<1>4. kbd' \in Keyboards /\ c \in Chars
  BY <1>1, <1>2, TakenTypes
<1>5. due' \in Seq(Chars)
  BY <1>1, <1>2, <1>3
<1>6. sys.got \in Seq(Chars) /\ sys.len \in Nat
  BY <1>2 DEF Reads
<1>7. /\ got \in Seq(Chars) /\ Len(got) = Len(sys.got) + 1 /\ got[Len(got)] = c /\ got # <<>>
      /\ \A i \in 1..Len(sys.got) : got[i] = sys.got[i]
  BY <1>4, <1>6
<1>8. /\ ~(Len(sys.got) + 1 >= sys.len)
      /\ ~(sys.got # <<>> /\ sys.got[Len(sys.got)] = NEWLINE)
  BY <1>1 DEF GetsDone
<1>9. Len(sys.got) \in Nat /\ (sys.got = <<>> <=> Len(sys.got) = 0)
  BY <1>6
<1> HIDE DEF c, got
<1>10. CASE c = EOT
  <2>1. sys' = [sys EXCEPT !.eot = TRUE]
    BY <1>1, <1>10
  <2>2. /\ sys' \in Reads /\ sys'.state = "gets" /\ sys'.len = sys.len /\ sys'.got = sys.got
        /\ sys'.eot = TRUE
    BY <1>1, <1>2, <2>1 DEF Reads
  <2>3. OneLine(sys') /\ GetsDone(sys')
    BY <1>2, <2>2 DEF OneLine, GetsDone
  <2> QED
    BY <1>1, <1>2, <1>3, <1>4, <1>5, <2>2, <2>3 DEF KbdInv, KTypes
<1>11. CASE c # EOT
  <2>1. sys' = [sys EXCEPT !.got = got]
    BY <1>1, <1>11
  <2>2. /\ sys' \in Reads /\ sys'.state = "gets" /\ sys'.len = sys.len /\ sys'.got = got
        /\ sys'.enough = sys.enough
    BY <1>1, <1>2, <1>7, <2>1 DEF Reads
  <2>3. OneLine(sys')
    <3>1. Len(got) < sys.len
      BY <1>6, <1>7, <1>8, <1>9
    <3>2. ASSUME NEW i \in 1..Len(got)-1 PROVE got[i] # NEWLINE
      <4>1. i \in 1..Len(sys.got) /\ got[i] = sys.got[i]
        BY <1>7, <1>9
      <4>2. CASE i = Len(sys.got)
        BY <1>8, <1>9, <4>1, <4>2
      <4>3. CASE i # Len(sys.got)
        <5>1. i \in 1..Len(sys.got)-1
          BY <1>9, <4>1, <4>3
        <5> QED
          BY <1>2, <4>1, <5>1 DEF OneLine
      <4> QED
        BY <4>2, <4>3
    <3> QED
      BY <2>2, <3>1, <3>2 DEF OneLine
  <2>4. ASSUME sys'.enough PROVE GetsDone(sys') \/ Enough(sys', due')
    <3>1. PICK i \in 1..Len(due) :
            due[i] \in {EOT, NEWLINE} \/ Len(sys.got) + i = sys.len - 1
      BY <1>2, <2>2, <2>4 DEF Enough
    <3>2. CASE i = 1
      <4>1. CASE due[i] \in {EOT, NEWLINE}
        <5>1. got[Len(got)] = NEWLINE
          BY <1>3, <1>7, <1>11, <3>2, <4>1
        <5> QED
          BY <1>7, <2>2, <5>1 DEF GetsDone
      <4>2. CASE Len(sys.got) + i = sys.len - 1
        <5>1. Len(got) + 1 >= sys.len
          BY <1>6, <1>7, <1>9, <3>2, <4>2
        <5> QED
          BY <2>2, <5>1 DEF GetsDone
      <4> QED
        BY <3>1, <4>1, <4>2
    <3>3. CASE i # 1
      <4> DEFINE j == i - 1
      <4>1. Len(due) \in Nat
        BY <1>2
      <4>2. j \in 1..Len(due)-1 /\ i = j + 1
        BY <3>3, <4>1
      <4>3. Len(due') = Len(due) - 1 /\ due'[j] = due[i]
        BY <1>1, <1>2, <1>3, <4>2
      <4>4. Len(got) + j = Len(sys.got) + i
        BY <1>7, <1>9
      <4> HIDE DEF j
      <4>5. j \in 1..Len(due')
        BY <4>2, <4>3
      <4>6. due'[j] \in {EOT, NEWLINE} \/ Len(got) + j = sys.len - 1
        BY <3>1, <4>3, <4>4
      <4> QED
        BY <2>2, <4>5, <4>6 DEF Enough
    <3> QED
      BY <3>2, <3>3
  <2> QED
    BY <1>1, <1>2, <1>3, <1>4, <1>5, <2>2, <2>3, <2>4 DEF KbdInv, KTypes
<1> QED
  BY <1>10, <1>11

LEMMA KbdInvStep ==
  ASSUME KbdInv, [DNext]_dvars
  PROVE  KbdInv'
<1>1. CASE UNCHANGED kvars
  BY <1>1 DEF kvars, KbdInv, KTypes
<1>2. CASE Keyboard
  BY <1>2, IsrStep, GetcharStep, ReadStep, TakeStep, PollStep, ReturnStep DEF Keyboard
<1> QED
  BY <1>1, <1>2
  DEF DNext, dvars, cvars, ConsoleStep, CNext, Video, PlaySnake, TypeText,
      PciStep, NetBoot, NetCall, NetDevice, Only, AudioStep

LEMMA KbdInvInit == DInit => KbdInv
<1> SUFFICES ASSUME KInit PROVE KbdInv
  BY DEF DInit, CInit
<1>1. kbd = KeyboardInit /\ due = <<>> /\ sys = Idle /\ raced = FALSE
  BY DEF KInit
<1>2. 0 \in Slots /\ 0 \in Chars
  BY CioAssumption DEF Slots, Chars
<1>3. kbd \in Keyboards /\ kbd.next_char = 0 /\ kbd.next_space = 0
  BY <1>1, <1>2 DEF KeyboardInit, Keyboards, Slots
<1>4. <<>> \in Seq(Chars) /\ Len(due) = 0
  BY <1>1
<1>5. sys \in Reads /\ sys.state = "idle"
  BY <1>1, <1>4 DEF Idle, Reads
<1>6. Holds(kbd, due)
  BY <1>3, <1>4, CioAssumption DEF Holds, Behind
<1> QED
  BY <1>1, <1>3, <1>4, <1>5, <1>6 DEF KbdInv, KTypes

-----------------------------------------------------------------------------
(* For every size of the buffer of cio.c and whatever is typed, however    *)
(* the keyboard interrupt, cio_getchar and the read system call take       *)
(* turns: the buffer holds what was typed and not read, in order, until a  *)
(* program takes what another has read; and read gives a line, without     *)
(* waiting for keys if one is there.                                       *)
THEOREM KeyboardAlwaysInOrder == DSpec => []KeyboardInOrder
<1>1. DInit => KbdInv
  BY KbdInvInit
<1>2. KbdInv /\ [DNext]_dvars => KbdInv'
  BY KbdInvStep
<1>3. KbdInv => KeyboardInOrder
  <2> SUFFICES ASSUME KbdInv PROVE KeysInOrder /\ ReadGetsLine
    BY DEF KeyboardInOrder
  <2>1. kbd \in Keyboards /\ due \in Seq(Chars) /\ sys \in Reads
    BY DEF KbdInv, KTypes
  <2>2. ASSUME ~raced PROVE /\ cio_input_queue(kbd) = Len(due)
                            /\ \A i \in 1..Len(due) : kbd.buf[Place(kbd, i)] = due[i]
    <3> DEFINE x == kbd.next_char
               y == kbd.next_space
               n == Len(due)
    <3>1. x \in Slots /\ y \in Slots /\ n \in Nat
      BY <2>1 DEF Keyboards
    <3>2. /\ n < C_BUFSIZE /\ y = Behind(x, n)
          /\ \A i \in 1..n : kbd.buf[Behind(x, i - 1)] = due[i]
      BY <2>2 DEF KbdInv, Holds
    <3>3. cio_input_queue(kbd) = IF y - x < 0 THEN y - x + C_BUFSIZE ELSE y - x
      BY DEF cio_input_queue
    <3>4. \A i \in 1..n : Place(kbd, i) =
             IF x + i - 1 >= C_BUFSIZE THEN x + i - 1 - C_BUFSIZE ELSE x + i - 1
      BY <3>1, CioAssumption DEF Place, Slots
    <3> HIDE DEF x, y, n
    <3>5. cio_input_queue(kbd) = n
      <4>1. n < C_BUFSIZE /\ y = Behind(x, n)
        BY <3>2
      <4> QED
        BY <3>1, <3>3, <4>1, CioAssumption DEF Behind, Slots
    <3>6. ASSUME NEW i \in 1..n PROVE Place(kbd, i) = Behind(x, i - 1)
      <4>1. x + i - 1 = x + (i - 1)
        BY <3>1 DEF Slots
      <4> QED
        BY <3>4, <4>1 DEF Behind
    <3>7. \A i \in 1..n : kbd.buf[Place(kbd, i)] = due[i]
      BY <3>2, <3>6
    <3> QED
      BY <3>5, <3>7 DEF n
  <2>3. ASSUME sys.state = "done"
        PROVE  /\ Len(sys.got) < sys.len
               /\ \A i \in 1..Len(sys.got)-1 : sys.got[i] # NEWLINE
               /\ \/ sys.eot \/ Len(sys.got) + 1 = sys.len
                  \/ sys.got # <<>> /\ sys.got[Len(sys.got)] = NEWLINE
    <3>1. OneLine(sys) /\ GetsDone(sys)
      BY <2>3 DEF KbdInv
    <3>2. Len(sys.got) \in Nat /\ sys.len \in Nat
      BY <2>1 DEF Reads
    <3> QED
      BY <3>1, <3>2 DEF OneLine, GetsDone
  <2>4. ASSUME sys.state = "gets", sys.enough PROVE GetsDone(sys) \/ cio_kbhit(kbd)
    <3>1. ~raced /\ Holds(kbd, due) /\ (GetsDone(sys) \/ Enough(sys, due))
      BY <2>4 DEF KbdInv
    <3>2. Enough(sys, due) => due # <<>>
      BY DEF Enough
    <3> QED
      BY <2>1, <3>1, <3>2, TakenHolds
  <2> QED
    BY <2>2, <2>3, <2>4 DEF KeysInOrder, ReadGetsLine
<1> QED
  BY <1>1, <1>2, <1>3, PTL DEF DSpec
-----------------------------------------------------------------------------
(* The programs of usercode/vga: snake.c on boards of every size, and      *)
(* vga_type.c on screens of every size.                                    *)

Dirs == {<<0, 1>>, <<0, -1>>, <<1, 0>>, <<-1, 0>>}

(* Different cells, each beside the next.                                  *)
Beside(p, q) == vga_abs(p[1] - q[1]) + vga_abs(p[2] - q[2]) = 1
Chained(b, n) ==
  /\ \A i, j \in 1..n : i # j => b[i] # b[j]
  /\ \A i \in 1..n-1 : Beside(b[i], b[i + 1])
Chain(b) == Chained(b, Len(b))

(* A round starts with a chain inside the border, food beside it, and a    *)
(* direction to move in.                                                   *)
SnakeInv ==
  mode = "play" =>
    /\ dir \in Dirs /\ snake_body \in Seq(Play) /\ Len(snake_body) >= 1
    /\ Chain(snake_body)
    /\ food \in Play \ BodyCells(snake_body)

(* There is room for a glyph at the cursor and where the last was drawn.   *)
Fits(x, y) ==
  x \in Nat /\ y \in Nat /\ x + GLYPH <= VGA_WIDTH /\ y + GLYPH <= VGA_HEIGHT
TypeInv ==
  /\ cur \in [x : Nat, y : Nat, on : BOOLEAN, drawn : Nat \X Nat]
  /\ Fits(cur.x, cur.y) /\ Fits(cur.drawn[1], cur.drawn[2])

ProgramsInv == SnakeInv /\ TypeInv

(* A chain beside the food does not fill the board: no two of its cells    *)
(* are the same, and one cell of the board is the food's.                  *)
LEMMA BoardNotFull ==
  ASSUME NEW b \in Seq(Play), Chain(b), NEW f \in Play \ BodyCells(b)
  PROVE  Len(b) < MAX_LEN
<1> DEFINE S == BORDER_CELLS..GRID_W-BORDER_CELLS-1
           T == BORDER_CELLS..GRID_H-BORDER_CELLS-1
           n == Len(b)
           R == Play \ {f}
<1>1. PLAY_W \in Nat /\ PLAY_H \in Nat
  BY SnakeAssumption
<1>2. S = 1..PLAY_W /\ T = 1..PLAY_H
  BY <1>1 DEF BORDER_CELLS, GRID_W, GRID_H
<1>3. IsFiniteSet(1..PLAY_W) /\ Cardinality(1..PLAY_W) = PLAY_W
  BY <1>1, FS_Interval
<1>4. IsFiniteSet(1..PLAY_H) /\ Cardinality(1..PLAY_H) = PLAY_H
  BY <1>1, FS_Interval
<1>5. Play = (1..PLAY_W) \X (1..PLAY_H)
  BY <1>2 DEF Play
<1>6. IsFiniteSet(Play) /\ Cardinality(Play) = PLAY_W * PLAY_H
  BY <1>3, <1>4, <1>5, FS_Product
<1>7. IsFiniteSet(R) /\ Cardinality(R) = Cardinality(Play) - 1
  BY <1>6, FS_RemoveElement
<1>8. n \in Nat /\ IsFiniteSet(1..n) /\ Cardinality(1..n) = n
  <2>1. n \in Nat
    OBVIOUS
  <2> HIDE DEF n
  <2> QED
    BY <2>1, FS_Interval
<1>9. b \in [1..n -> R]
  <2>1. b \in [1..n -> Play] /\ DOMAIN b = 1..n
    OBVIOUS
  <2>2. \A i \in 1..n : b[i] # f
    BY <2>1 DEF BodyCells
  <2> HIDE DEF n
  <2> QED
    BY <2>1, <2>2
<1>10. ~(Cardinality(R) < Cardinality(1..n))
  <2> SUFFICES ASSUME Cardinality(R) < Cardinality(1..n) PROVE FALSE
    OBVIOUS
  <2>1. \E i, j \in 1..n : i # j /\ b[i] = b[j]
    <3> HIDE DEF n, R
    <3> QED
      BY <1>7, <1>8, <1>9, FS_PigeonHole
  <2> QED
    BY <2>1 DEF Chain, Chained
<1>11. PLAY_W * PLAY_H \in Nat
  BY <1>1
<1> DEFINE m == PLAY_W * PLAY_H
<1> HIDE DEF m, n, R
<1>12. n < m
  BY <1>6, <1>7, <1>8, <1>10, <1>11 DEF m
<1> QED
  BY <1>12 DEF MAX_LEN, m, n
LEMMA PlayIs ==
  /\ Play = (1..PLAY_W) \X (1..PLAY_H)
  /\ \A p \in Play : p[1] \in 1..PLAY_W /\ p[2] \in 1..PLAY_H /\ p = <<p[1], p[2]>>
BY SnakeAssumption DEF Play, BORDER_CELLS, GRID_W, GRID_H

(* The first snake lies in the playable area, if there is one.             *)
LEMMA FirstChain ==
  ASSUME Play # {}
  PROVE  FirstBody \in Seq(Play) /\ Len(FirstBody) >= 1 /\ Chain(FirstBody)
<1> DEFINE h == PLAY_W \div 2
           v == PLAY_H \div 2
           X(i) == BORDER_CELLS + h - (i - 1)
           y == BORDER_CELLS + v
           n == StartLength
           b == FirstBody
<1>1. PLAY_W \in Nat \ {0} /\ PLAY_H \in Nat \ {0} /\ n \in Nat \ {0}
  BY SnakeAssumption, PlayIs
<1>2. h \in Nat /\ 2 * h <= PLAY_W /\ h + 1 >= n
  BY <1>1, SnakeAssumption
<1>3. v \in Nat /\ 2 * v <= PLAY_H
  BY <1>1
<1>4. b = [i \in 1..n |-> <<X(i), y>>]
  BY DEF FirstBody
<1> HIDE DEF h, v, n, b
<1>5. y \in 1..PLAY_H /\ y \in Int
  BY <1>1, <1>3 DEF BORDER_CELLS
<1>6. ASSUME NEW i \in 1..n PROVE X(i) \in 1..PLAY_W
  BY <1>1, <1>2 DEF BORDER_CELLS
<1>7. \A i, j \in 1..n : i # j => X(i) # X(j)
  BY <1>1, <1>2 DEF BORDER_CELLS
<1>8. \A i \in 1..n-1 : i + 1 \in 1..n /\ i \in 1..n /\ X(i) - X(i + 1) = 1
  BY <1>1, <1>2 DEF BORDER_CELLS
<1>9. \A i \in 1..n : X(i) \in Int
  BY <1>6
<1> HIDE DEF X, y
<1>10. b \in [1..n -> Play]
  BY <1>4, <1>5, <1>6, PlayIs
<1>11. b \in Seq(Play) /\ Len(b) = n
  BY <1>1, <1>10
<1>12. \A i \in 1..n : b[i] = <<X(i), y>> /\ b[i][1] = X(i) /\ b[i][2] = y
  BY <1>4
<1>13. \A i, j \in 1..n : i # j => b[i] # b[j]
  BY <1>7, <1>12
<1>14. ASSUME NEW i \in 1..n-1 PROVE Beside(b[i], b[i + 1])
  <2>1. i \in 1..n /\ i + 1 \in 1..n /\ X(i) - X(i + 1) = 1
    BY <1>8
  <2>2. b[i][1] - b[i + 1][1] = 1
    BY <1>12, <2>1
  <2>3. b[i][2] - b[i + 1][2] = 0
    BY <1>5, <1>12, <2>1
  <2>4. vga_abs(1) + vga_abs(0) = 1
    BY DEF vga_abs
  <2> QED
    BY <2>2, <2>3, <2>4 DEF Beside
<1>15. Chain(b)
  BY <1>11, <1>13, <1>14 DEF Chain, Chained
<1> QED
  BY <1>1, <1>11, <1>15 DEF b

(* The array after the move: the new head, then the old body.              *)
LEMMA MovedIs ==
  ASSUME NEW b \in Seq(Play), Len(b) >= 1, NEW d \in Dirs
  PROVE  LET m == Moved(b, d) IN
         /\ m \in Seq(Int \X Int) /\ Len(m) = Len(b) + 1
         /\ \A i \in 2..Len(b)+1 : m[i] = b[i - 1]
         /\ Beside(m[1], m[2])
<1> DEFINE m == Moved(b, d)
           h == <<b[1][1] + d[1], b[1][2] + d[2]>>
<1>1. b[1] \in Play /\ Len(b) \in Nat
  OBVIOUS
<1>2. b[1][1] \in Int /\ b[1][2] \in Int
  BY <1>1, PlayIs, SnakeAssumption
<1>3. d[1] \in Int /\ d[2] \in Int /\ vga_abs(d[1]) + vga_abs(d[2]) = 1
  BY DEF Dirs, vga_abs
<1>4. h \in Int \X Int
  BY <1>2, <1>3
<1>5. Play \subseteq Int \X Int
  BY PlayIs, SnakeAssumption
<1>6. m = <<h>> \o b
  BY DEF Moved
<1>7. h[1] - b[1][1] = d[1] /\ h[2] - b[1][2] = d[2]
  BY <1>2, <1>3
<1> HIDE DEF h
<1>8. b \in Seq(Int \X Int) /\ <<h>> \in Seq(Int \X Int)
  BY <1>4, <1>5
<1>9. /\ m \in Seq(Int \X Int) /\ Len(m) = Len(b) + 1 /\ m[1] = h
      /\ \A i \in 2..Len(b)+1 : m[i] = b[i - 1]
  BY <1>6, <1>8
<1>10. m[2] = b[1]
  BY <1>1, <1>9
<1> QED
  BY <1>3, <1>7, <1>9, <1>10 DEF Beside

(* m is a new head in front of the n cells of b; a head that no cell up to *)
(* n is at; the first n cells of c are those of m; and are new or in b.    *)
Headed(m, b, n) == Beside(m[1], m[2]) /\ \A i \in 2..n+1 : m[i] = b[i - 1]
HeadFree(m, n) == m[1] \in Play /\ \A i \in 2..n : m[i] # m[1]
Starts(c, m, n) == \A i \in 1..n : c[i] = m[i]
OldOr(c, n, new, b, k) ==
  \A i \in 1..n : c[i] \in Play /\ (c[i] = new \/ \E j \in 1..k : c[i] = b[j])
Inside(b, n) == \A i \in 1..n : b[i] \in Play

(* A chain that starts with the new head.                                  *)
LEMMA ChainGoesOn ==
  ASSUME NEW b, NEW L \in Nat, Inside(b, L), Chained(b, L), NEW m, Headed(m, b, L),
         NEW n \in Nat, n <= L + 1, HeadFree(m, n), NEW c, Starts(c, m, n)
  PROVE  OldOr(c, n, m[1], b, L) /\ Chained(c, n)
<1> USE DEF Headed, HeadFree, Starts, Inside
<1>1. ASSUME NEW i \in 1..n, i # 1
      PROVE  i \in 2..n /\ i \in 2..L+1 /\ i - 1 \in 1..L
  BY <1>1
<1>2. ASSUME NEW i \in 1..n
      PROVE  c[i] \in Play /\ (c[i] = m[1] \/ \E j \in 1..L : c[i] = b[j])
  <2>1. CASE i = 1
    BY <2>1
  <2>2. CASE i # 1
    BY <1>1, <2>2
  <2> QED
    BY <2>1, <2>2
<1>3. ASSUME NEW i \in 1..n, NEW j \in 1..n, i < j PROVE c[i] # c[j]
  <2>1. j # 1
    BY <1>3
  <2>2. j \in 2..n /\ j \in 2..L+1 /\ j - 1 \in 1..L
    BY <1>1, <2>1
  <2>3. CASE i = 1
    BY <2>2, <2>3
  <2>4. CASE i # 1
    <3>1. i \in 2..L+1 /\ i - 1 \in 1..L
      BY <1>1, <2>4
    <3>2. i - 1 # j - 1
      BY <1>3
    <3>3. b[i - 1] # b[j - 1]
      BY <2>2, <3>1, <3>2 DEF Chained
    <3> QED
      BY <2>2, <3>1, <3>3
  <2> QED
    BY <2>3, <2>4
<1>4. \A i, j \in 1..n : i # j => c[i] # c[j]
  <2> SUFFICES ASSUME NEW i \in 1..n, NEW j \in 1..n, i # j PROVE c[i] # c[j]
    OBVIOUS
  <2>1. i < j \/ j < i
    OBVIOUS
  <2> QED
    BY <1>3, <2>1
<1>5. ASSUME NEW i \in 1..n-1 PROVE Beside(c[i], c[i + 1])
  <2>1. i \in 1..n /\ i + 1 \in 1..n
    OBVIOUS
  <2>2. c[i] = m[i] /\ c[i + 1] = m[i + 1]
    BY <2>1
  <2>3. CASE i = 1
    BY <2>2, <2>3
  <2>4. CASE i # 1
    <3>1. i \in 2..L+1 /\ i + 1 \in 2..L+1 /\ i - 1 \in 1..L-1
      BY <2>4
    <3>2. (i + 1) - 1 = (i - 1) + 1
      OBVIOUS
    <3>3. Beside(b[i - 1], b[(i - 1) + 1])
      BY <3>1 DEF Chained
    <3>4. m[i] = b[i - 1] /\ m[i + 1] = b[(i - 1) + 1]
      BY <3>1, <3>2
    <3> QED
      BY <2>2, <3>3, <3>4
  <2> QED
    BY <2>3, <2>4
<1> QED
  BY <1>2, <1>4, <1>5 DEF Chained, OldOr

(* The same for sequences.                                                 *)
LEMMA ChainOf ==
  ASSUME NEW b \in Seq(Play), Len(b) >= 1, Chain(b), NEW d \in Dirs,
         NEW m, m = Moved(b, d), NEW n \in Nat, 1 <= n, n <= Len(b) + 1, HeadFree(m, n),
         NEW c, c \in Seq(Int \X Int), Len(c) = n, Starts(c, m, n)
  PROVE  /\ c \in Seq(Play) /\ Len(c) >= 1 /\ Chain(c)
         /\ BodyCells(c) \subseteq BodyCells(b) \cup {m[1]}
<1> DEFINE L == Len(b)
<1>1. /\ L \in Nat /\ n <= L + 1 /\ DOMAIN b = 1..L /\ DOMAIN c = 1..n
      /\ \A i \in 1..L : b[i] \in Play
  OBVIOUS
<1>2. Headed(m, b, L)
  BY MovedIs DEF Headed
<1>3. Chained(b, L) /\ Inside(b, L)
  BY <1>1 DEF Chain, Inside
<1> HIDE DEF L
<1>4. OldOr(c, n, m[1], b, L) /\ Chained(c, n)
  BY <1>1, <1>2, <1>3, ChainGoesOn
<1>5. c \in Seq(Play)
  <2>1. c = [i \in 1..n |-> c[i]]
    OBVIOUS
  <2>2. c \in [1..n -> Play]
    BY <1>4, <2>1 DEF OldOr
  <2> QED
    BY <2>2
<1>6. ASSUME NEW x \in BodyCells(c) PROVE x \in BodyCells(b) \cup {m[1]}
  <2>1. PICK i \in 1..n : x = c[i]
    BY <1>1 DEF BodyCells
  <2>2. CASE c[i] = m[1]
    BY <2>1, <2>2
  <2>3. CASE c[i] # m[1]
    <3>1. PICK j \in 1..L : c[i] = b[j]
      BY <1>4, <2>3 DEF OldOr
    <3>2. j \in DOMAIN b
      BY <1>1
    <3> QED
      BY <2>1, <3>1, <3>2, Zenon DEF BodyCells
  <2> QED
    BY <2>2, <2>3
<1> QED
  BY <1>4, <1>5, <1>6 DEF Chain
LEMMA EnterStep ==
  ASSUME Enter, SnakeInv
  PROVE  SnakeInv'
<1> SUFFICES ASSUME mode' = "play" PROVE SnakeInv'
  BY DEF SnakeInv
<1>1. /\ snake_body' = FirstBody /\ dir' = <<1, 0>> /\ place_food(FirstBody, low')
  BY DEF Enter, gvars
<1>2. food' \in lcg_rand(low') \ BodyCells(FirstBody)
  BY <1>1 DEF place_food
<1>3. food' \in Play \ BodyCells(FirstBody)
  BY <1>2 DEF lcg_rand
<1>4. FirstBody \in Seq(Play) /\ Len(FirstBody) >= 1 /\ Chain(FirstBody)
  BY <1>3, FirstChain
<1>5. dir' \in Dirs
  BY <1>1 DEF Dirs
<1> QED
  BY <1>1, <1>3, <1>4, <1>5 DEF SnakeInv

LEMMA TickStep ==
  ASSUME Tick, SnakeInv
  PROVE  SnakeInv'
<1> SUFFICES ASSUME mode' = "play" PROVE SnakeInv'
  BY DEF SnakeInv
<1>1. PICK c \in Keys :
        LET d == Turned(dir, c)
            m == Moved(snake_body, d)
        IN /\ mode = "play" /\ c # ESC /\ dir' = d /\ ~Collides(snake_body, m)
           /\ IF m[1] = food
              THEN /\ snake_body' = IF Len(m) > MAX_LEN THEN SubSeq(m, 1, MAX_LEN) ELSE m
                   /\ place_food(snake_body', low)
              ELSE /\ snake_body' = SubSeq(m, 1, Len(snake_body))
                   /\ UNCHANGED <<mode, food>>
  BY DEF Tick
<1> DEFINE d == Turned(dir, c)
           b == snake_body
           m == Moved(b, d)
           n == Len(b)
<1>2. /\ dir \in Dirs /\ b \in Seq(Play) /\ n >= 1 /\ Chain(b)
      /\ food \in Play \ BodyCells(b)
  BY <1>1 DEF SnakeInv
<1>3. d \in Dirs /\ dir' = d
  BY <1>1, <1>2 DEF Turned, Dirs
<1>4. n \in Nat /\ DOMAIN b = 1..n
  BY <1>2
<1> HIDE DEF d
<1>5. /\ m \in Seq(Int \X Int) /\ Len(m) = n + 1
      /\ \A i \in 2..n+1 : m[i] = b[i - 1]
  BY <1>2, <1>3, MovedIs
<1>6. HeadFree(m, n)
  BY <1>1 DEF Collides, HeadFree, d
<1>7. CASE m[1] = food
  <2>1. n < MAX_LEN
    BY <1>2, BoardNotFull
  <2>2. MAX_LEN \in Int
    BY SnakeAssumption DEF MAX_LEN
  <2>3. ~(Len(m) > MAX_LEN)
    BY <1>4, <1>5, <2>1, <2>2
  <2>4. snake_body' = m /\ place_food(m, low)
    BY <1>1, <1>7, <2>3 DEF d
  <2>5. HeadFree(m, n + 1)
    <3>1. ASSUME NEW i \in 2..n+1 PROVE m[i] # m[1]
      <4>1. i - 1 \in 1..n
        BY <1>4
      <4>2. b[i - 1] \in BodyCells(b)
        BY <1>4, <4>1 DEF BodyCells
      <4> QED
        BY <1>2, <1>5, <1>7, <4>2
    <3> QED
      BY <1>2, <1>7, <3>1 DEF HeadFree
  <2>6. Starts(m, m, n + 1)
    BY DEF Starts
  <2>7. n + 1 \in Nat /\ 1 <= n + 1 /\ n + 1 <= n + 1
    BY <1>4
  <2> HIDE DEF m
  <2>8. m \in Seq(Play) /\ Len(m) >= 1 /\ Chain(m)
    BY <1>2, <1>3, <1>5, <2>5, <2>6, <2>7, ChainOf DEF m
  <2>9. food' \in Play \ BodyCells(m)
    BY <2>4 DEF place_food, lcg_rand
  <2> QED
    BY <1>3, <2>4, <2>8, <2>9 DEF SnakeInv
<1>8. CASE m[1] # food
  <2> DEFINE s == SubSeq(m, 1, n)
  <2>1. snake_body' = s /\ food' = food
    BY <1>1, <1>8 DEF d
  <2>2. s \in Seq(Int \X Int) /\ Len(s) = n /\ \A i \in 1..n : s[i] = m[i]
    <3> HIDE DEF n, m
    <3> QED
      BY <1>4, <1>5, SMTT(30)
  <2>3. Starts(s, m, n)
    BY <2>2 DEF Starts
  <2>4. n \in Nat /\ 1 <= n /\ n <= n + 1
    BY <1>2, <1>4
  <2> HIDE DEF s, m
  <2>5. s \in Seq(Play) /\ Len(s) >= 1 /\ Chain(s) /\ BodyCells(s) \subseteq BodyCells(b) \cup {m[1]}
    BY <1>2, <1>3, <1>6, <2>2, <2>3, <2>4, ChainOf DEF m
  <2>6. food' \in Play \ BodyCells(s)
    BY <1>2, <1>8, <2>1, <2>5
  <2> QED
    BY <1>3, <2>1, <2>5, <2>6 DEF SnakeInv
<1> QED
  BY <1>7, <1>8

(* A character of vga_type leaves room for the next.                       *)
LEMMA TypeStep ==
  ASSUME TypeInv, TypeText
  PROVE  TypeInv'
<1>1. PICK c \in {-1, ESC, NEWLINE, RETURN, 65} : cur' = vga_type(cur, c)
  BY DEF TypeText
<1>2. /\ VGA_WIDTH \in Nat /\ VGA_HEIGHT \in Nat /\ GLYPH \in Nat
      /\ GLYPH <= VGA_WIDTH /\ GLYPH <= VGA_HEIGHT
  BY VgaAssumption
<1> DEFINE x == cur.x
           y == cur.y
           z == NextLine(y)
           full == x + 2 * GLYPH > VGA_WIDTH
<1>3. cur \in [x : Nat, y : Nat, on : BOOLEAN, drawn : Nat \X Nat] /\ Fits(x, y)
      /\ Fits(cur.drawn[1], cur.drawn[2])
  BY DEF TypeInv
<1>4. Fits(x, z) /\ Fits(0, z) /\ Fits(0, y)
  BY <1>2, <1>3 DEF Fits, NextLine
<1>5. ~full => Fits(x + GLYPH, y)
  BY <1>2, <1>3 DEF Fits
<1>6. x \in Nat /\ y \in Nat /\ z \in Nat /\ x + GLYPH \in Nat
  BY <1>2, <1>3, <1>4 DEF Fits
<1>7. CASE cur' = [cur EXCEPT !.on = FALSE]
  BY <1>3, <1>7 DEF TypeInv
<1>8. CASE cur' = [cur EXCEPT !.x = 0, !.y = z]
  <2> HIDE DEF z
  <2>1. /\ cur' \in [x : Nat, y : Nat, on : BOOLEAN, drawn : Nat \X Nat]
        /\ cur'.x = 0 /\ cur'.y = z /\ cur'.drawn = cur.drawn
    BY <1>3, <1>6, <1>8
  <2> QED
    BY <1>3, <1>4, <2>1 DEF TypeInv
<1>9. CASE /\ cur'.x = IF full THEN 0 ELSE x + GLYPH
           /\ cur'.y = IF full THEN z ELSE y
           /\ cur'.drawn = <<x, y>>
           /\ cur' \in [x : Nat, y : Nat, on : BOOLEAN, drawn : Nat \X Nat]
  <2>1. Fits(cur'.x, cur'.y)
    BY <1>4, <1>5, <1>9
  <2>2. cur'.drawn[1] = x /\ cur'.drawn[2] = y
    BY <1>9
  <2> QED
    BY <1>3, <1>9, <2>1, <2>2 DEF TypeInv
<1>10. CASE cur' = [x |-> IF full THEN 0 ELSE x + GLYPH, y |-> IF full THEN z ELSE y,
                    on |-> TRUE, drawn |-> <<x, y>>]
  <2> DEFINE nx == IF full THEN 0 ELSE x + GLYPH
             ny == IF full THEN z ELSE y
  <2>1. nx \in Nat /\ ny \in Nat /\ cur' = [x |-> nx, y |-> ny, on |-> TRUE, drawn |-> <<x, y>>]
    BY <1>6, <1>10
  <2>2. <<x, y>> \in Nat \X Nat
    BY <1>6
  <2> HIDE DEF nx, ny
  <2>3. /\ cur'.x = nx /\ cur'.y = ny /\ cur'.drawn = <<x, y>>
        /\ cur' \in [x : Nat, y : Nat, on : BOOLEAN, drawn : Nat \X Nat]
    BY <2>1, <2>2
  <2> QED
    BY <1>9, <2>3 DEF nx, ny
<1> QED
  BY <1>1, <1>7, <1>8, <1>10 DEF vga_type

(* For boards and screens of every size: while a game of snake.c runs the  *)
(* snake is a chain of different cells inside the border with the food     *)
(* beside it, and it never fills the board, so that the array snake_body   *)
(* is not written past its end; vga_type.c draws every character whole on  *)
(* the screen.                                                             *)
THEOREM AlwaysProgramsInside == DSpec => []ProgramsInside
<1>1. DInit => ProgramsInv
  <2> SUFFICES ASSUME SnakeInit, cur = [x |-> 0, y |-> 0, on |-> TRUE, drawn |-> <<0, 0>>]
               PROVE  ProgramsInv
    BY DEF DInit, CInit
  <2>1. SnakeInv
    BY DEF SnakeInit, SnakeInv
  <2>2. cur \in [x : Nat, y : Nat, on : BOOLEAN, drawn : Nat \X Nat]
    OBVIOUS
  <2>3. cur.x = 0 /\ cur.y = 0 /\ cur.drawn[1] = 0 /\ cur.drawn[2] = 0
    OBVIOUS
  <2>4. Fits(0, 0)
    BY VgaAssumption DEF Fits
  <2> QED
    BY <2>1, <2>2, <2>3, <2>4 DEF ProgramsInv, TypeInv
<1>2. ProgramsInv /\ [DNext]_dvars => ProgramsInv'
  <2> SUFFICES ASSUME ProgramsInv, [DNext]_dvars PROVE ProgramsInv'
    OBVIOUS
  <2>1. CASE PlaySnake
    <3>1. SnakeInv'
      BY <2>1, EnterStep, TickStep DEF PlaySnake, SnakeNext, Hung, gvars, ProgramsInv, SnakeInv
    <3> QED
      BY <2>1, <3>1 DEF PlaySnake, ProgramsInv, TypeInv
  <2>2. CASE TypeText
    BY <2>2, TypeStep DEF TypeText, ProgramsInv, gvars, SnakeInv
  <2>3. CASE UNCHANGED <<gvars, cur>>
    BY <2>3 DEF gvars, ProgramsInv, SnakeInv, TypeInv
  <2> QED
    BY <2>1, <2>2, <2>3
    DEF DNext, dvars, cvars, ConsoleStep, CNext, Video, Keyboard,
        PciStep, NetBoot, NetCall, NetDevice, Only, AudioStep
<1>3. ProgramsInv => ProgramsInside
  <2> SUFFICES ASSUME ProgramsInv PROVE SnakeWhole /\ TypedOnScreen
    BY DEF ProgramsInside
  <2>1. TypedOnScreen
    BY DEF ProgramsInv, TypeInv, Fits, TypedOnScreen
  <2>2. ASSUME mode = "play" PROVE SnakeWhole
    <3> DEFINE b == snake_body
    <3>1. b \in Seq(Play) /\ Chain(b) /\ food \in Play \ BodyCells(b)
      BY <2>2 DEF ProgramsInv, SnakeInv
    <3>2. Len(b) < MAX_LEN
      BY <3>1, BoardNotFull
    <3>3. DOMAIN b = 1..Len(b) /\ BodyCells(b) \subseteq Play
      BY <3>1 DEF BodyCells
    <3> QED
      BY <3>1, <3>2, <3>3 DEF SnakeWhole, Chain, Chained, Beside
  <2>3. ASSUME mode # "play" PROVE SnakeWhole
    BY <2>3 DEF SnakeWhole
  <2> QED
    BY <2>1, <2>2, <2>3
<1> QED
  BY <1>1, <1>2, <1>3, PTL DEF DSpec
=============================================================================
