-------------------------------- MODULE Net --------------------------------
(***************************************************************************)
(* udp.c, ipv4.c and ethernet.c: how a payload becomes an Ethernet frame;  *)
(* and how intel8255x.c finds out the address frames are sent from.        *)
(*                                                                         *)
(* A packet structure is a record; a 16-bit field is a number, an IPv4     *)
(* address the sequence of its four bytes, the most significant first.  A  *)
(* serialized packet is the sequence of the bytes stored in the buffer,    *)
(* <<>> when the function returns 0.                                       *)
(***************************************************************************)
EXTENDS Integers, Sequences

CONSTANTS
  UDP_MAX_PAYLOAD, IPV4_MAX_PAYLOAD, ETH_MTU,   \* 1472, 1480, 1500
  ETH_MIN_PAYLOAD                               \* 46

UDP_HEADER_LEN == 8
IPV4_HEADER_MIN_LEN == 20
ETH_HEADER_LEN == 14
IPV4_PROTO_UDP == 17
IPV4_DEFAULT_TTL == 64
ETH_TYPE_IPV4 == 2048

ASSUME NetAssumption ==
  {UDP_MAX_PAYLOAD, IPV4_MAX_PAYLOAD, ETH_MTU, ETH_MIN_PAYLOAD} \subseteq Nat

HighByte(v) == (v \div 256) % 256
LowByte(v) == v % 256
NetworkOrder(v) == <<HighByte(v), LowByte(v)>>

(* The first len bytes of a payload, no more than the layer takes.         *)
Clipped(payload, max) == SubSeq(payload, 1, IF Len(payload) > max THEN max ELSE Len(payload))

-----------------------------------------------------------------------------
(* The sum of the 16-bit words of a buffer, as an x86 reads them: the byte *)
(* at the lower address is the low one.  An odd byte is a word of its own. *)
WordSum(bytes) ==
  LET f[n \in 0..Len(bytes)] ==
        IF n = 0 THEN 0 ELSE f[n-1] + bytes[n] * (IF n % 2 = 1 THEN 1 ELSE 256)
  IN f[Len(bytes)]

(* "while (sum >> 16) sum = (sum & 0xFFFF) + (sum >> 16);"                 *)
Folded(sum) ==
  LET f[s \in Nat] == IF s >= 65536 THEN f[(s % 65536) + (s \div 65536)] ELSE s IN f[sum]

ipv4_calculate_checksum(header) == 65535 - Folded(WordSum(header))

(* The addresses of the pseudo-header are stored as the integers they are: *)
(* their least significant byte comes first.                               *)
PseudoHeader(udp_len, src_addr, dest_addr) ==
  [i \in 1..4 |-> src_addr[5 - i]] \o [i \in 1..4 |-> dest_addr[5 - i]]
    \o <<0, IPV4_PROTO_UDP>> \o NetworkOrder(udp_len)

udp_calculate_checksum(udp_buffer, src_addr, dest_addr) ==
  LET sum == WordSum(PseudoHeader(Len(udp_buffer), src_addr, dest_addr))
               + WordSum(udp_buffer)
      checksum == 65535 - Folded(sum)
  IN IF checksum = 0 THEN 65535 ELSE checksum

-----------------------------------------------------------------------------
(* UDP.                                                                    *)
udp_init(src_port, dest_port) ==
  [src_port |-> src_port, dest_port |-> dest_port, payload |-> <<>>]

(* Mutant: the payload may take what IPv4 has room for.                    *)
udp_set_payload_Long(packet, payload) ==
  [packet EXCEPT !.payload = Clipped(payload, IPV4_MAX_PAYLOAD)]

udp_set_payload(packet, payload) ==
  [packet EXCEPT !.payload = Clipped(payload, UDP_MAX_PAYLOAD)]

udp_serialize(packet, buffer_size, src_addr, dest_addr) ==
  LET total_size == UDP_HEADER_LEN + Len(packet.payload)
      Buffer(checksum) ==
        NetworkOrder(packet.src_port) \o NetworkOrder(packet.dest_port)
          \o NetworkOrder(total_size) \o NetworkOrder(checksum) \o packet.payload
  IN IF buffer_size < total_size THEN <<>>
     ELSE Buffer(udp_calculate_checksum(Buffer(0), src_addr, dest_addr))

-----------------------------------------------------------------------------
(* IPv4.                                                                   *)
ipv4_init(dscp_ecn, identification, flags, fragment_offset, ttl, protocol,
          src_addr, dest_addr) ==
  [version_ihl |-> 69, dscp_ecn |-> dscp_ecn, identification |-> identification,
   flags_fragment |-> (flags % 8) * 8192 + (fragment_offset % 8192),
   ttl |-> ttl, protocol |-> protocol,
   src_addr |-> src_addr, dest_addr |-> dest_addr, payload |-> <<>>]

ipv4_set_payload(packet, payload) ==
  [packet EXCEPT !.payload = Clipped(payload, IPV4_MAX_PAYLOAD)]

ipv4_serialize(packet, buffer_size) ==
  LET total_size == IPV4_HEADER_MIN_LEN + Len(packet.payload)
      Header(checksum) ==
        <<packet.version_ihl, packet.dscp_ecn>> \o NetworkOrder(total_size)
          \o NetworkOrder(packet.identification) \o NetworkOrder(packet.flags_fragment)
          \o <<packet.ttl, packet.protocol>> \o NetworkOrder(checksum)
          \o packet.src_addr \o packet.dest_addr
  IN IF buffer_size < total_size THEN <<>>
     ELSE Header(ipv4_calculate_checksum(Header(0))) \o packet.payload

-----------------------------------------------------------------------------
(* Ethernet.                                                               *)
eth_init(dest_mac, src_mac, ethertype) ==
  [dest_mac |-> dest_mac, src_mac |-> src_mac, ethertype |-> ethertype, payload |-> <<>>]

eth_set_payload(frame, payload) ==
  [frame EXCEPT !.payload = Clipped(payload, ETH_MTU)]

(* `buffer' is what the buffer held.  klibc's memset takes the length as   *)
(* its second argument, which is 0 here: the padding keeps what was there. *)
eth_serialize(frame, buffer, buffer_size) ==
  LET len == Len(frame.payload)
      payload_len == IF len < ETH_MIN_PAYLOAD THEN ETH_MIN_PAYLOAD ELSE len
      total_len == ETH_HEADER_LEN + payload_len
      padding == IF len < ETH_MIN_PAYLOAD
             THEN SubSeq(buffer, ETH_HEADER_LEN + len + 1, total_len) ELSE <<>>
  IN IF buffer_size < total_len THEN <<>>
     ELSE frame.dest_mac \o frame.src_mac \o NetworkOrder(frame.ethertype)
            \o frame.payload \o padding

-----------------------------------------------------------------------------
(* The address of the station.  A word of the EEPROM is <<low, high>>; one *)
(* that is not read in time, or read while there is no EEPROM, is 0xFFFF.  *)
DEFAULT_MAC == <<0, 17, 34, 51, 68, 85>>

i8255x_read_eeprom(word, done) == IF done THEN word ELSE <<255, 255>>

(* `done': the words that are read before the timeout; `rar': the bytes of *)
(* the receive address registers.                                          *)
get_mac_addr(eeprom, words, done, rar) ==
  LET Word(i) == i8255x_read_eeprom(words[i], i \in done)
      mac == IF eeprom THEN Word(1) \o Word(2) \o Word(3) ELSE rar
  IN IF \A i \in 1..6 : mac[i] = 0 THEN DEFAULT_MAC
     ELSE IF \A i \in 1..6 : mac[i] = 255 THEN DEFAULT_MAC
     ELSE mac

-----------------------------------------------------------------------------
(* What net_transmit and networktests.c do with a message: UDP in IPv4 in  *)
(* Ethernet.  The two large buffers are never too small.                   *)
SRC_IP == <<192, 168, 1, 100>>
DEST_IP == <<192, 168, 1, 1>>
DEST_MAC == <<170, 187, 204, 221, 238, 255>>

Datagram(message) ==
  udp_serialize(udp_set_payload(udp_init(10000, 11000), message), 65507, SRC_IP, DEST_IP)

Packet(message) ==
  ipv4_serialize(
    ipv4_set_payload(ipv4_init(0, 1234, 0, 0, IPV4_DEFAULT_TTL, IPV4_PROTO_UDP,
                               SRC_IP, DEST_IP), Datagram(message)), 65535)

Frame(message, src_mac, buffer, buffer_size) ==
  eth_serialize(eth_set_payload(eth_init(DEST_MAC, src_mac, ETH_TYPE_IPV4), Packet(message)),
                buffer, buffer_size)
=============================================================================
