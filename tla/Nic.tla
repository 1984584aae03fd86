-------------------------------- MODULE Nic --------------------------------
(***************************************************************************)
(* net.c, intel8255x.c and the two network system calls: the driver of the *)
(* Ethernet controller, sharing two rings of descriptors with the device.  *)
(*                                                                         *)
(* The driver runs in system calls, with interrupts disabled; the device   *)
(* runs beside it.  A descriptor is [dd, frame]: `dd' is the bit "done",   *)
(* which the device sets.  A frame is its length and, to tell frames       *)
(* apart, a number.                                                        *)
(***************************************************************************)
EXTENDS Net, FiniteSets

CONSTANTS
  RING_SIZE,        \* I8255X_RX_RING_SIZE and I8255X_TX_RING_SIZE: 16
  ETH_MAX_FRAME_SIZE, ETH_MIN_FRAME_SIZE

ASSUME NicAssumption == RING_SIZE \in Nat \ {0}

VARIABLES
  nic,          \* the driver's data, the rings and the device's registers
  pages,        \* how many pages km_page_alloc has left
  accepted, wire,    \* frames i8255x_transmit accepted; those sent
  stored, delivered  \* frames the device stored; those i8255x_receive returned

nvars == <<nic, pages, accepted, wire, stored, delivered>>

Ring == 0..RING_SIZE-1
NoFrame == [n |-> 0, len |-> 0]

-----------------------------------------------------------------------------
(* The first base address that is not 0.  pci_func_enable has masked the   *)
(* bit that tells an I/O register, so that the test of it never fails.     *)
get_mmio_addr(base_addr) ==
  LET used == {i \in 1..6 : base_addr[i] # 0}
  IN IF used = {} THEN 0 ELSE base_addr[CHOOSE i \in used : \A j \in used : i <= j]

-----------------------------------------------------------------------------
(* i8255x_setup_rings with `free' pages.  The device's memory is a slice   *)
(* that was not cleared: garbage is the bit "done" found there.  When a    *)
(* page is missing neither ring is given to the device.                    *)
i8255x_setup_rings(free, garbage) ==
  LET complete == free >= RING_SIZE
      Dirty == [dd |-> garbage, frame |-> NoFrame]
      Clean(dd) == [dd |-> dd, frame |-> NoFrame]
  IN [status |-> "up", enabled |-> complete,
      rx |-> [i \in Ring |-> IF i < free THEN Clean(FALSE) ELSE Dirty],
      tx |-> [i \in Ring |-> IF complete THEN Clean(TRUE) ELSE Dirty],
      rdh |-> 0, rdt |-> IF complete THEN RING_SIZE - 1 ELSE 0,
      tdh |-> 0, tdt |-> 0, rx_next |-> 0,
      used |-> IF complete THEN RING_SIZE ELSE free]

(* The driver is not there, in one of the states "boot", "none" or "wild"; *)
(* in the last one it has written through a null pointer.                  *)
NoDriver(status) ==
  [status |-> status, enabled |-> FALSE,
   rx |-> [i \in Ring |-> [dd |-> FALSE, frame |-> NoFrame]],
   tx |-> [i \in Ring |-> [dd |-> FALSE, frame |-> NoFrame]],
   rdh |-> 0, rdt |-> 0, tdh |-> 0, tdt |-> 0, rx_next |-> 0, used |-> 0]

(* m: what the machine has: free slices, a controller, its base addresses, *)
(* free pages, garbage.  The second slice is used without a test.          *)
i8255x_init(m) ==
  IF m.slices = 0 \/ ~m.found THEN NoDriver("none")
  ELSE IF m.slices = 1 THEN NoDriver("wild")
  ELSE IF get_mmio_addr(m.base_addr) = 0 THEN NoDriver("none")
  ELSE i8255x_setup_rings(m.free, m.garbage)

-----------------------------------------------------------------------------
(* Sending.  TDT is the descriptor the driver fills next.                  *)

(* Mutant: the device is not told.                                         *)
i8255x_transmit_Silent(k, free, frame) ==
  IF free = 0 \/ ~k.tx[k.tdt].dd THEN [ok |-> FALSE, nic |-> k]
  ELSE [ok |-> TRUE, nic |-> [k EXCEPT !.tx[k.tdt] = [dd |-> FALSE, frame |-> frame]]]

i8255x_transmit(k, free, frame) ==
  IF ~k.tx[k.tdt].dd \/ free = 0 THEN [ok |-> FALSE, nic |-> k]
  ELSE [ok |-> TRUE,
        nic |-> [k EXCEPT !.tx[k.tdt] = [dd |-> FALSE, frame |-> frame],
                          !.tdt = (@ + 1) % RING_SIZE]]

(* What net_transmit sends: always "testing".  eth_serialize is told that  *)
(* the buffer has the size of a pointer.                                   *)
TESTING == <<116, 101, 115, 116, 105, 110, 103>>
SIZEOF_POINTER == 4
EthSize == Len(Frame(TESTING, DEFAULT_MAC, <<>>, SIZEOF_POINTER))

(* net_transmit, with the driver's data k and `free' pages: one page for   *)
(* the frame, one more if the driver takes it; neither is ever freed.      *)
net_transmit(k, free) ==
  LET frame == [n |-> Len(accepted) + 1, len |-> EthSize]
      t == i8255x_transmit(k, free - 1, frame)
  IN IF free = 0 THEN nic' = k /\ pages' = 0 /\ UNCHANGED accepted
     ELSE /\ nic' = t.nic
          /\ pages' = IF t.ok THEN free - 2 ELSE free - 1
          /\ accepted' = IF t.ok THEN Append(accepted, frame) ELSE accepted

(* It sends one frame as soon as the driver is there.                      *)
net_init(m) ==
  LET k == i8255x_init(m) IN
  /\ nic.status = "boot"
  /\ IF k.status = "up" THEN net_transmit(k, m.free - k.used)
     ELSE nic' = k /\ pages' = m.free /\ UNCHANGED accepted
  /\ UNCHANGED <<wire, stored, delivered>>

sys_eth_tx(length) ==
  /\ nic.status = "up"
  /\ length <= ETH_MAX_FRAME_SIZE
  /\ net_transmit(nic, pages)
  /\ UNCHANGED <<wire, stored, delivered>>

(* Neither call tests whether there is a driver: the ring is looked up     *)
(* through a null pointer.                                                 *)
NullDriver ==
  /\ nic.status = "none"
  /\ nic' = NoDriver("wild")
  /\ UNCHANGED <<pages, accepted, wire, stored, delivered>>

-----------------------------------------------------------------------------
(* Receiving.  RDT is the last descriptor the device may not fill yet.     *)

(* Mutant: the descriptor is given back without clearing its status.       *)
i8255x_receive_Done(k) ==
  [k EXCEPT !.rdt = k.rx_next, !.rx_next = (@ + 1) % RING_SIZE]

i8255x_receive(k) ==
  [k EXCEPT !.rx[k.rx_next].dd = FALSE, !.rdt = k.rx_next,
            !.rx_next = (@ + 1) % RING_SIZE]

net_receive(bufsize) ==
  LET d == nic.rx[nic.rx_next]
      len == IF d.frame.len > bufsize THEN bufsize ELSE d.frame.len
  IN /\ d.dd
     /\ nic' = i8255x_receive(nic)
     /\ delivered' = Append(delivered, [n |-> d.frame.n, len |-> len, room |-> bufsize])
     /\ UNCHANGED <<pages, accepted, wire, stored>>

sys_eth_rx(bufsize) ==
  nic.status = "up" /\ bufsize >= ETH_MIN_FRAME_SIZE /\ net_receive(bufsize)

-----------------------------------------------------------------------------
(* The device.  It owns the descriptors from its head up to, but not with, *)
(* the tail; a head equal to the tail means none.                          *)
DeviceSends ==
  /\ nic.enabled /\ nic.tdh # nic.tdt
  /\ wire' = Append(wire, nic.tx[nic.tdh].frame)
  /\ nic' = [nic EXCEPT !.tx[nic.tdh].dd = TRUE, !.tdh = (@ + 1) % RING_SIZE]
  /\ UNCHANGED <<pages, accepted, stored, delivered>>

DeviceReceives(len) ==
  /\ nic.enabled /\ nic.rdh # nic.rdt
  /\ LET frame == [n |-> Len(stored) + 1, len |-> len]
     IN /\ stored' = Append(stored, frame)
        /\ nic' = [nic EXCEPT !.rx[nic.rdh] = [dd |-> TRUE, frame |-> frame],
                              !.rdh = (@ + 1) % RING_SIZE]
  /\ UNCHANGED <<pages, accepted, wire, delivered>>

NInit ==
  /\ nic = NoDriver("boot") /\ pages = 0
  /\ accepted = <<>> /\ wire = <<>> /\ stored = <<>> /\ delivered = <<>>

-----------------------------------------------------------------------------
(* The frames i8255x_transmit accepted are sent in order, each once and as *)
(* it was handed over, whatever the device does meanwhile, ring full or    *)
(* not.                                                                    *)
SentInOrder ==
  /\ Len(wire) <= Len(accepted)
  /\ \A i \in DOMAIN wire : wire[i] = accepted[i]

(* The frames i8255x_receive returns are those the device stored, in       *)
(* order, each once, cut to the caller's buffer; the device never          *)
(* overwrites one that was not read.                                       *)
DeliveredInOrder ==
  nic.enabled =>
    /\ Len(delivered) <= Len(stored)
    /\ \A i \in DOMAIN delivered :
         /\ delivered[i].n = stored[i].n
         /\ delivered[i].len = IF stored[i].len > delivered[i].room
                               THEN delivered[i].room ELSE stored[i].len

(* A ring that is full looks empty to the device.                          *)
RingFull == Len(accepted) - Len(wire) = RING_SIZE

(* Every accepted frame is sent, unless the driver fills the ring: then    *)
(* head and tail meet, the device stops for good and so does the driver.   *)
SentUnlessFull ==
  \A n \in 1..RING_SIZE+1 :
    nic.enabled /\ Len(accepted) >= n ~> Len(wire) >= n \/ RingFull
=============================================================================
