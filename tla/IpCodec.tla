------------------------------- MODULE IpCodec -------------------------------
(***************************************************************************)
(* Headers of IP and UDP (src/lib/com_util/ip_codec.c).  A header in       *)
(* memory is a record with the names of the code, on the wire a byte       *)
(* string.  opt_pad is the options, <<>> for NULL.                         *)
(***************************************************************************)
EXTENDS Checksum

IP_VERSION == 4
UDP_HDR_LEN == 8
PROTO_TYPE_UDP == 17

\* Half by half, as a sum word by word would be too deep a recursion for TLC.
SumOf(words) ==
  LET sum[part \in (1..Len(words)) \X (1..Len(words))] ==
        LET middle == (part[1] + part[2]) \div 2
        IN  IF part[1] = part[2] THEN words[part[1]]
            ELSE sum[<<part[1], middle>>] + sum[<<middle + 1, part[2]>>]
  IN  IF words = <<>> THEN 0 ELSE sum[<<1, Len(words)>>]

\* The 16-bit words of a byte string of even length.
WordsOf(bytes) == [i \in 1..Len(bytes) \div 2 |-> DECODE_U16(bytes, 2 * i - 1)]

At(data, at, n) == SubSeq(data, at, at + n - 1)
-----------------------------------------------------------------------------
(***************************************************************************)
(* IP                                                                      *)
(***************************************************************************)

\* struct FLAG_FRAG, read as the U16 it lies in.
flag_frag(ip) == 8192 * ip.flag + ip.frag_off

\* What the checksum of a header is taken over: all but the checksum itself.
HeaderWords(ip) ==
  <<256 * (16 * ip.ver + ip.IHL) + ip.tos, ip.total_len, ip.id, flag_frag(ip),
    256 * ip.ttl + ip.proto>> \o WordsOf(ip.cSA) \o WordsOf(ip.cDA)

CHKSUM_IP_HDR(ip) == CHECK_SUM(SumOf(HeaderWords(ip) \o WordsOf(ip.opt_pad)))

\* The same, with the options handed in.
CHKSUM_IP_HDR2(ip, opt_en, opt) ==
  CHECK_SUM(SumOf(HeaderWords(ip) \o (IF opt_en THEN WordsOf(opt) ELSE <<>>)))

ENCODE_IP_PKT(ip) ==
  <<16 * ip.ver + ip.IHL, ip.tos>>
  \o ENCODE_U16(ip.total_len) \o ENCODE_U16(ip.id) \o ENCODE_U16(flag_frag(ip))
  \o <<ip.ttl, ip.proto>> \o ENCODE_U16(CHKSUM_IP_HDR(ip))
  \o ip.cSA \o ip.cDA \o ip.opt_pad

\* The header at the start of data, which has at least 4 * IHL bytes.  With an
\* IHL below 5 there are no options and the data starts inside the addresses.
Header(data) ==
  [ver |-> data[1] \div 16, IHL |-> data[1] % 16, tos |-> data[2],
   total_len |-> DECODE_U16(data, 3), id |-> DECODE_U16(data, 5),
   flag |-> data[7] \div 32, frag_off |-> DECODE_U16(data, 7) % 8192,
   ttl |-> data[9], proto |-> data[10], head_chksum |-> DECODE_U16(data, 11),
   cSA |-> At(data, 13, 4), cDA |-> At(data, 17, 4),
   opt_pad |-> SubSeq(data, 21, 4 * (data[1] % 16))]

\* What a decoder returns: its verdict, the header, and the data behind it.
Decoded(verdict, header, rest) == [verdict |-> verdict, header |-> header, rest |-> rest]

DECODE_IP_PKT_Unchecked(data) ==
  Decoded("TRUE", Header(data), SubSeq(data, 4 * (data[1] % 16) + 1, Len(data)))

DECODE_IP_PKT(data) ==
  LET ip == Header(data)
      rest == SubSeq(data, 4 * ip.IHL + 1, Len(data))
  IN  IF ip.ver # IP_VERSION \/ CHKSUM_IP_HDR(ip) # ip.head_chksum
      THEN Decoded("ERROR", ip, rest)
      ELSE Decoded("TRUE", ip, rest)
-----------------------------------------------------------------------------
(***************************************************************************)
(* UDP                                                                     *)
(***************************************************************************)

Padded_NotCleared(data, n) == data

\* A payload of odd length: the byte behind it becomes 0, in place.
Padded(data, n) == IF n % 2 = 1 THEN [data EXCEPT ![n + 1] = 0] ELSE data

\* The pseudo header has the length too.  udp.len is at least UDP_HDR_LEN.
CHKSUM_UDP(ip, udp, data) ==
  LET n == udp.len - UDP_HDR_LEN
      body == SubSeq(Padded(data, n), 1, n + (n % 2))
  IN  CHECK_SUM(SumOf(WordsOf(ip.cSA) \o WordsOf(ip.cDA)
                      \o <<PROTO_TYPE_UDP, udp.len, udp.src, udp.dst, udp.len>>
                      \o WordsOf(body)))

ENCODE_UDP_PKT(ip, udp, data) ==
  ENCODE_U16(udp.src) \o ENCODE_U16(udp.dst) \o ENCODE_U16(udp.len)
  \o ENCODE_U16(CHKSUM_UDP(ip, udp, data))

\* ip has been decoded; data is what follows it.
UdpHeader(data) == [src |-> DECODE_U16(data, 1), dst |-> DECODE_U16(data, 3),
                    len |-> DECODE_U16(data, 5), chksum |-> DECODE_U16(data, 7)]

\* A checksum of 0 means that it has not been computed.
DECODE_UDP_PKT(ip, data) ==
  LET udp == UdpHeader(data)
      body == SubSeq(data, UDP_HDR_LEN + 1, Len(data))
  IN  IF \/ udp.len # ip.total_len - 4 * ip.IHL
         \/ udp.chksum # 0 /\ CHKSUM_UDP(ip, udp, body) # udp.chksum
      THEN Decoded("ERROR", udp, body)
      ELSE Decoded("TRUE", udp, IF udp.chksum = 0 THEN body
                                ELSE Padded(body, udp.len - UDP_HDR_LEN))
-----------------------------------------------------------------------------
(***************************************************************************)
(* The agent's own use: its answer to a host (src/ofp_codec.c).  src_ip    *)
(* and dst_ip are those of the packet it answers.  opt_pad is not set, and *)
(* with an IHL of 5 nothing depends on it.                                 *)
(***************************************************************************)
ip_hdr_init(src_ip, dst_ip) ==
  [ver |-> 4, IHL |-> 5, tos |-> 0, total_len |-> 36, id |-> 1, flag |-> 2,
   frag_off |-> 0, ttl |-> 64, proto |-> PROTO_TYPE_UDP, cSA |-> dst_ip, cDA |-> src_ip,
   opt_pad |-> <<>>]

udp_hdr_init == [src |-> 6655, dst |-> 8000, len |-> 16]

\* The frame behind the MAC addresses and the type.  The payload is two IP
\* addresses of the flow mod.
HostReply(src_ip, dst_ip, payload) ==
  LET ip == ip_hdr_init(src_ip, dst_ip)
  IN  ENCODE_IP_PKT(ip) \o ENCODE_UDP_PKT(ip, udp_hdr_init, payload) \o payload
=============================================================================
