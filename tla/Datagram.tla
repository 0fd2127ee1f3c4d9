------------------------------ MODULE Datagram ------------------------------
(***************************************************************************)
(* One datagram, encoded, sent over a link that may damage a word of it,   *)
(* and decoded: ENCODE_IP_PKT and ENCODE_UDP_PKT at one end, DECODE_IP_PKT *)
(* and DECODE_UDP_PKT at the other.  The agent uses the first two, for its *)
(* answer to a host; the others are the library's.                         *)
(***************************************************************************)
EXTENDS IpCodec

CONSTANTS
  IpHeaders,   \* what the sender fills in: an IP header but for its total_len
  UdpPorts,    \* pairs of ports
  Payloads,    \* byte strings
  Hits,        \* the words of the wire that may be damaged, counted from 1
  Damages,     \* what a damage adds to a word, modulo 65536
  ReplyAddrs   \* addresses in the answer to a host

Addrs == [1..4 -> U8]

\* Every field of a header has the width of its declaration.
FieldsFit(ip) ==
  /\ ip.ver = IP_VERSION /\ ip.IHL \in 5..15
  /\ ip.tos \in U8 /\ ip.ttl \in U8 /\ ip.proto \in U8
  /\ ip.id \in U16 /\ ip.flag \in 0..7 /\ ip.frag_off \in 0..8191
  /\ ip.cSA \in Addrs /\ ip.cDA \in Addrs
  /\ ip.opt_pad \in Seq(U8) /\ Len(ip.opt_pad) = 4 * ip.IHL - 20

ASSUME HeadersAssumption == \A h \in IpHeaders : FieldsFit(h)
ASSUME PortsAssumption == UdpPorts \subseteq U16 \X U16
ASSUME PayloadsAssumption ==
  \A payload \in Payloads : /\ payload \in Seq(U8)
                           /\ \A h \in IpHeaders : 4 * h.IHL + UDP_HDR_LEN + Len(payload) \in U16
ASSUME ReplyAddrsAssumption == ReplyAddrs \subseteq Addrs
ASSUME DamagesAssumption == Hits \subseteq Nat \ {0} /\ Damages \subseteq U16 \ {0}

VARIABLES
  stage,   \* "idle", "sent", "damaged" or "received"
  sent,    \* the headers and the payload given to the encoder
  wire,    \* the bytes on the link
  hit,     \* the word damaged, counted from 1, and what it was; or NoHit
  got      \* what the receiver's two decoders returned

dgramVars == <<stage, sent, wire, hit, got>>

Sent(ip, udp, payload) == [ip |-> ip, udp |-> udp, payload |-> payload]

Hit(word, was) == [word |-> word, was |-> was]
NoHit == Hit(0, 0)

NoUdp == [src |-> 0, dst |-> 0, len |-> 0, chksum |-> 0]
Nothing == Sent(ip_hdr_init(<<0, 0, 0, 0>>, <<0, 0, 0, 0>>), NoUdp, <<>>)
NotYet == [ip |-> "none", udp |-> "none", header |-> Nothing.ip, udpHeader |-> NoUdp,
           payload |-> <<>>]

DgramInit ==
  /\ stage = "idle"
  /\ sent = Nothing
  /\ wire = <<>>
  /\ hit = NoHit
  /\ got = NotYet
-----------------------------------------------------------------------------
WithLength(ip, n) ==
  [ver |-> ip.ver, IHL |-> ip.IHL, tos |-> ip.tos,
   total_len |-> 4 * ip.IHL + UDP_HDR_LEN + n, id |-> ip.id, flag |-> ip.flag,
   frag_off |-> ip.frag_off, ttl |-> ip.ttl, proto |-> ip.proto,
   cSA |-> ip.cSA, cDA |-> ip.cDA, opt_pad |-> ip.opt_pad]

\* The encoder's payload lies in a buffer; the byte behind it is 170.
Encode(ip, udp, payload) ==
  ENCODE_IP_PKT(ip) \o ENCODE_UDP_PKT(ip, udp, Append(payload, 170)) \o payload

SendDatagram ==
  \E h \in IpHeaders, p \in UdpPorts, payload \in Payloads :
    LET ip == WithLength(h, Len(payload))
        udp == [src |-> p[1], dst |-> p[2], len |-> UDP_HDR_LEN + Len(payload)]
    IN  sent' = Sent(ip, udp, payload) /\ wire' = Encode(ip, udp, payload)

SendHostReply ==
  \E src, dst, a, b \in ReplyAddrs :
    /\ sent' = Sent(ip_hdr_init(src, dst), udp_hdr_init, a \o b)
    /\ wire' = HostReply(src, dst, a \o b)

Send ==
  /\ stage = "idle"
  /\ stage' = "sent"
  /\ SendDatagram \/ SendHostReply
  /\ UNCHANGED <<hit, got>>

WordAt(k) == DECODE_U16(wire, 2 * k - 1)

\* Word k of the wire becomes w.  An odd last byte is not a word.
Replace(k, w) ==
  [i \in DOMAIN wire |-> CASE i = 2 * k - 1 -> w \div 256
                           [] i = 2 * k     -> w % 256
                           [] OTHER         -> wire[i]]

\* A header may not claim more than the receiver was given.
Readable(data) == 4 * (data[1] % 16) <= Len(data)

Damage ==
  /\ stage = "sent"
  /\ stage' = "damaged"
  /\ \E k \in Hits, d \in Damages :
       /\ 2 * k <= Len(wire)
       /\ hit' = Hit(k, WordAt(k))
       /\ wire' = Replace(k, (WordAt(k) + d) % 65536)
       /\ Readable(wire')
  /\ UNCHANGED <<sent, got>>

\* The receive buffer is longer than the datagram; the byte behind it is 85.
Receive ==
  /\ stage \in {"sent", "damaged"}
  /\ stage' = "received"
  /\ LET ip == DECODE_IP_PKT(Append(wire, 85))
         udp == DECODE_UDP_PKT(ip.header, ip.rest)
     IN  got' = IF ip.verdict = "ERROR"
                THEN [NotYet EXCEPT !.ip = "ERROR", !.header = ip.header]
                ELSE [ip |-> "TRUE", udp |-> udp.verdict, header |-> ip.header,
                      udpHeader |-> udp.header,
                      payload |-> IF udp.verdict = "ERROR" THEN <<>>
                                  ELSE SubSeq(udp.rest, 1, Len(wire) - 4 * ip.header.IHL
                                                             - UDP_HDR_LEN)]
  /\ UNCHANGED <<sent, wire, hit>>

DgramNext == Send \/ Damage \/ Receive

DgramSpec == DgramInit /\ [][DgramNext]_dgramVars
-----------------------------------------------------------------------------
(***************************************************************************)
(* The checksum by its definition (RFC 1071): every carry out of the 16    *)
(* bits goes in again at the low end, so that the sum is kept modulo       *)
(* 65535, with 65535 for a multiple of it.                                 *)
(***************************************************************************)
OnesSum(words) ==
  LET sum == SumOf(words) IN IF sum = 0 THEN 0 ELSE 1 + ((sum - 1) % 65535)

Received == stage = "received"
Accepted == Received /\ got.ip = "TRUE" /\ got.udp = "TRUE"

IpHeaderWords == WordsOf(SubSeq(wire, 1, 4 * sent.ip.IHL))

\* The datagram in bytes with its pseudo header and, when its length is odd, a 0 behind.
UdpWords(bytes) ==
  LET body == SubSeq(bytes, 4 * sent.ip.IHL + 1, Len(bytes))
  IN  WordsOf(sent.ip.cSA) \o WordsOf(sent.ip.cDA) \o <<PROTO_TYPE_UDP, sent.udp.len>>
      \o WordsOf(IF Len(body) % 2 = 1 THEN Append(body, 0) ELSE body)

\* The sum of a datagram whose carry does not fit the U8 it is kept in.
CarryFits == SumOf(UdpWords(wire)) < 16777216

\* What the agent and the library put on the wire has checksums that any other
\* implementation accepts, unless the carry of the sum needs more than 8 bits;
\* and CHKSUM_IP_HDR2 knows no other checksum.
StandardChecksums ==
  stage = "sent" => /\ OnesSum(IpHeaderWords) = 65535
                    /\ CHKSUM_IP_HDR2(sent.ip, sent.ip.opt_pad # <<>>, sent.ip.opt_pad)
                         = DECODE_U16(wire, 11)
                    /\ CarryFits => OnesSum(UdpWords(wire)) = 65535

\* An undamaged datagram arrives, every field and byte of it as sent, whatever
\* its options, its length and its flags; even where the checksum is not standard.
RoundTrip ==
  Received /\ hit = NoHit =>
    /\ Accepted
    /\ \A f \in DOMAIN sent.ip : got.header[f] = sent.ip[f]
    /\ \A f \in DOMAIN sent.udp : got.udpHeader[f] = sent.udp[f]
    /\ got.payload = sent.payload

\* What CHKSUM_UDP adds up, by its multiple of 2^24, which the carry does not hold.
CarryLost(bytes) == (SumOf(UdpWords(bytes)) - DECODE_U16(bytes, 4 * sent.ip.IHL + 7)) \div 16777216

\* Damages a receiver of this kind need not notice: 0000 for FFFF or the other way
\* round, any damage to a datagram that says it has no checksum, one that takes the
\* sum past a multiple of 2^24 (256 more or less then are none), and any to the length
\* of the header: it changes what the checksum is taken over, which may still fit.
Invisible ==
  \/ {hit.was, WordAt(hit.word)} = {0, 65535}
  \/ got.ip = "TRUE" /\ got.udpHeader.chksum = 0
  \/ got.header.IHL # sent.ip.IHL
  \/ CarryLost(wire) # CarryLost(Replace(hit.word, hit.was))

\* A datagram with a damaged word is not taken for a good one.
DamageNoticed == Received /\ hit # NoHit /\ ~ Invisible => ~ Accepted
=============================================================================
