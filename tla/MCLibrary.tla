------------------------------ MODULE MCLibrary ------------------------------
(***************************************************************************)
(* The run of the library's sequential parts: the datagrams, the stream    *)
(* machine of MD5, and MD5 of whole messages.  They share nothing, so a    *)
(* behaviour is one of them at work.                                       *)
(***************************************************************************)
EXTENDS Datagram, Md5Stream
B == INSTANCE Md5Block

VARIABLE vector   \* how many of the known messages have been tried

Host == <<192, 168, 10, 138>>
Gateway == <<10, 0, 0, 1>>
Ones == <<255, 255, 255, 255>>
MCAddrs == {Host, Ones, <<0, 0, 0, 0>>}

IpHeader(ihl, tos, id, flag, off, sa, opt) ==
  [ver |-> 4, IHL |-> ihl, tos |-> tos, id |-> id, flag |-> flag, frag_off |-> off,
   ttl |-> 64, proto |-> 17, cSA |-> sa, cDA |-> Gateway, opt_pad |-> opt]

\* With the extremes of each field, and with options or none.
MCHeaders ==
  {IpHeader(5, 0, 65535, f, o, sa, <<>>) : f \in {2, 7}, o \in {0, 8191}, sa \in {Host, Ones}}
  \cup {IpHeader(6, 192, 0, 2, 0, Ones, opt) : opt \in {<<1, 1, 1, 0>>, <<255, 255, 255, 254>>}}

MCPorts == {<<6655, 8000>>, <<65535, 65535>>}

Repeated(byte, n) == [i \in 1..n |-> byte]

\* Even and odd lengths; one whose carry, added from Host to Gateway, carries once
\* more; one whose sum is 11 below 2^24 from Host, and beyond from others; one beyond.
MCPayloads == {Repeated(byte, n) : byte \in {0, 1, 255}, n \in {0, 1, 2, 5}}
              \cup {<<241, 104>>, Repeated(255, 508) \o <<238, 100>>, Repeated(255, 531)}

MCHits == 1..18
MCDamages == {1, 256, 65535}

MCStream(i) == i
-----------------------------------------------------------------------------
Letters == [i \in 1..26 |-> 96 + i]
HiThere == <<72, 105, 32, 84, 104, 101, 114, 101>>
LargerThanBlock ==
  <<84, 101, 115, 116, 32, 85, 115, 105, 110, 103, 32, 76, 97, 114, 103, 101,
   114, 32, 84, 104, 97, 110, 32, 66, 108, 111, 99, 107, 45, 83, 105, 122, 101,
   32, 75, 101, 121, 32, 45, 32, 72, 97, 115, 104, 32, 75, 101, 121, 32, 70,
   105, 114, 115, 116>>

\* Messages that end at, before and behind a boundary of the padding, a message
\* in pieces, keys below, at and above the length of a block.
Computed(v) ==
  CASE v = 1  -> B!MD5digest(<<>>)
    [] v = 2  -> B!MD5digest(Letters)
    [] v = 3  -> B!MD5digest(Repeated(49, 55))
    [] v = 4  -> B!MD5digest(Repeated(49, 56))
    [] v = 5  -> B!MD5digest(Repeated(49, 64))
    [] v = 6  -> B!Digest(<<Letters, Repeated(255, 70), Letters, <<>>, Repeated(0, 6)>>)
    [] v = 7  -> B!hmac_md5(HiThere, Repeated(11, 16))
    [] v = 8  -> B!hmac_md5(Repeated(221, 50), Repeated(170, 64))
    [] v = 9  -> B!hmac_md5(LargerThanBlock, Repeated(170, 65))
    [] v = 10 -> B!hmac_md5(LargerThanBlock, Repeated(170, 80))

\* What any other MD5 or HMAC-MD5 makes of them.
Expected == <<
  <<\hd4, \h1d, \h8c, \hd9, \h8f, \h00, \hb2, \h04, \he9, \h80, \h09, \h98, \hec, \hf8, \h42, \h7e>>,
  <<\hc3, \hfc, \hd3, \hd7, \h61, \h92, \he4, \h00, \h7d, \hfb, \h49, \h6c, \hca, \h67, \he1, \h3b>>,
  <<\h1e, \h81, \h7a, \hd2, \h7a, \h93, \h4e, \h9d, \hb7, \h23, \h9b, \hc9, \h2a, \h4e, \h09, \h32>>,
  <<\h16, \he5, \h48, \h33, \hb8, \h8a, \h6c, \hc0, \h69, \h66, \hd8, \h3d, \h05, \hc2, \h71, \hb3>>,
  <<\h46, \hf0, \h48, \h63, \h25, \h7a, \hc8, \h04, \h09, \h05, \hea, \h00, \h02, \h18, \h3d, \h35>>,
  <<\h40, \h74, \hee, \hb8, \h4c, \hbc, \h64, \h9b, \hb2, \h4b, \h01, \hf9, \ha5, \hf1, \hff, \hc6>>,
  <<\h92, \h94, \h72, \h7a, \h36, \h38, \hbb, \h1c, \h13, \hf4, \h8e, \hf8, \h15, \h8b, \hfc, \h9d>>,
  <<\h7b, \h52, \hc1, \h89, \h5e, \hb8, \h9c, \hf7, \h4f, \hbb, \h47, \hcc, \hd8, \hc8, \h75, \h17>>,
  <<\hcb, \h14, \h8c, \h18, \h91, \h24, \h21, \h45, \hb9, \h83, \h32, \hcf, \h0f, \h0d, \h79, \h1e>>,
  <<\h6b, \h1a, \hb7, \hfe, \h4b, \hd7, \hbf, \h8f, \h0b, \h62, \he6, \hce, \h61, \hb9, \hd0, \hcd>> >>

TryVector == vector < Len(Expected) /\ vector' = vector + 1
-----------------------------------------------------------------------------
Init == DgramInit /\ StreamInit /\ vector = 0

NoDatagram == stage = "idle"
NoStream == ~ open /\ digest = <<>>
NoVector == vector = 0

Next ==
  \/ NoStream /\ NoVector /\ DgramNext /\ UNCHANGED <<md5Vars, vector>>
  \/ NoDatagram /\ NoVector /\ StreamNext /\ UNCHANGED <<dgramVars, vector>>
  \/ NoDatagram /\ NoStream /\ TryVector /\ UNCHANGED <<dgramVars, md5Vars>>

Spec == Init /\ [][Next]_<<dgramVars, md5Vars, vector>>

\* md5.c computes the digests and the authentication codes of the standards.
KnownDigests == vector > 0 => Computed(vector) = Expected[vector]
=============================================================================
