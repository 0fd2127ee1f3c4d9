SPECIFICATION Spec
CONSTANTS
  IpHeaders <- MCHeaders
  UdpPorts <- MCPorts
  Payloads <- MCPayloads
  Hits <- MCHits
  Damages <- MCDamages
  ReplyAddrs <- MCAddrs
  Block = 4
  TagLen = 2
  Word = 32
  Stream <- MCStream
  MaxTotal = 140
  Lengths = {0, 1, 2, 3, 5, 6, 11}
  Memory = {0, 255}
INVARIANTS
  StandardChecksums
  RoundTrip
  DamageNoticed
  StreamKept
  DigestPadded
  KnownDigests
CHECK_DEADLOCK FALSE
