------------------------------ MODULE Md5Block ------------------------------
(***************************************************************************)
(* MD5 of whole messages: MD5Transform, the digest, and the HMAC of        *)
(* src/lib/com_util/md5.c.  A word of 32 bits is a pair of its halves, the *)
(* high one first, as TLC's integers have a sign.                          *)
(***************************************************************************)
EXTENDS Integers, Sequences, Bitwise
LOCAL INSTANCE SequencesExt

\* No message here has 2^21 bytes, so it makes no difference that the words of
\* the count wrap at 2^24 and not at 2^32.
LOCAL M == INSTANCE Md5 WITH Block <- 64, TagLen <- 8, Word <- 16777216
-----------------------------------------------------------------------------
Each(Op(_, _), x, y) == <<Op(x[1], y[1]), Op(x[2], y[2])>>

WAnd(x, y) == Each(LAMBDA p, q : p & q, x, y)
WOr(x, y)  == Each(LAMBDA p, q : p | q, x, y)
WXor(x, y) == Each(LAMBDA p, q : p ^^ q, x, y)
WNot(x)    == <<65535 - x[1], 65535 - x[2]>>

Plus(x, y) == <<(x[1] + y[1] + ((x[2] + y[2]) \div 65536)) % 65536, (x[2] + y[2]) % 65536>>

\* By n below 16 bits, then by the two halves changing places.
RotateSmall(x, n) ==
  <<((x[1] * (2 ^ n)) % 65536) + (x[2] \div (2 ^ (16 - n))),
    ((x[2] * (2 ^ n)) % 65536) + (x[1] \div (2 ^ (16 - n)))>>

ROTATE_LEFT(x, n) ==
  IF n < 16 THEN RotateSmall(x, n) ELSE RotateSmall(<<x[2], x[1]>>, n - 16)
-----------------------------------------------------------------------------
F(x, y, z)  == WOr(WAnd(x, y), WAnd(WNot(x), z))
G(x, y, z)  == WOr(WAnd(x, z), WAnd(y, WNot(z)))
H(x, y, z)  == WXor(x, WXor(y, z))
Ii(x, y, z) == WXor(y, WOr(x, WNot(z)))

Mix(round, x, y, z) ==
  CASE round = 1 -> F(x, y, z)
    [] round = 2 -> G(x, y, z)
    [] round = 3 -> H(x, y, z)
    [] round = 4 -> Ii(x, y, z)

\* The shifts S11 to S44.
Shifts == <<<<7, 12, 17, 22>>, <<5, 9, 14, 20>>, <<4, 11, 16, 23>>, <<6, 10, 15, 21>>>>

\* Which of the 16 words of the block step n of the round takes, both from 0.
Taken(round, n) ==
  CASE round = 1 -> n
    [] round = 2 -> (1 + (5 * n)) % 16
    [] round = 3 -> (5 + (3 * n)) % 16
    [] round = 4 -> (7 * n) % 16

\* The additive constant of each of the 64 steps.
Additive == <<
  <<\hd76a, \ha478>>, <<\he8c7, \hb756>>, <<\h2420, \h70db>>, <<\hc1bd, \hceee>>,
  <<\hf57c, \h0faf>>, <<\h4787, \hc62a>>, <<\ha830, \h4613>>, <<\hfd46, \h9501>>,
  <<\h6980, \h98d8>>, <<\h8b44, \hf7af>>, <<\hffff, \h5bb1>>, <<\h895c, \hd7be>>,
  <<\h6b90, \h1122>>, <<\hfd98, \h7193>>, <<\ha679, \h438e>>, <<\h49b4, \h0821>>,
  <<\hf61e, \h2562>>, <<\hc040, \hb340>>, <<\h265e, \h5a51>>, <<\he9b6, \hc7aa>>,
  <<\hd62f, \h105d>>, <<\h0244, \h1453>>, <<\hd8a1, \he681>>, <<\he7d3, \hfbc8>>,
  <<\h21e1, \hcde6>>, <<\hc337, \h07d6>>, <<\hf4d5, \h0d87>>, <<\h455a, \h14ed>>,
  <<\ha9e3, \he905>>, <<\hfcef, \ha3f8>>, <<\h676f, \h02d9>>, <<\h8d2a, \h4c8a>>,
  <<\hfffa, \h3942>>, <<\h8771, \hf681>>, <<\h6d9d, \h6122>>, <<\hfde5, \h380c>>,
  <<\ha4be, \hea44>>, <<\h4bde, \hcfa9>>, <<\hf6bb, \h4b60>>, <<\hbebf, \hbc70>>,
  <<\h289b, \h7ec6>>, <<\heaa1, \h27fa>>, <<\hd4ef, \h3085>>, <<\h0488, \h1d05>>,
  <<\hd9d4, \hd039>>, <<\he6db, \h99e5>>, <<\h1fa2, \h7cf8>>, <<\hc4ac, \h5665>>,
  <<\hf429, \h2244>>, <<\h432a, \hff97>>, <<\hab94, \h23a7>>, <<\hfc93, \ha039>>,
  <<\h655b, \h59c3>>, <<\h8f0c, \hcc92>>, <<\hffef, \hf47d>>, <<\h8584, \h5dd1>>,
  <<\h6fa8, \h7e4f>>, <<\hfe2c, \he6e0>>, <<\ha301, \h4314>>, <<\h4e08, \h11a1>>,
  <<\hf753, \h7e82>>, <<\hbd3a, \hf235>>, <<\h2ad7, \hd2bb>>, <<\heb86, \hd391>> >>

\* One of FF, GG, HH and II.  The roles of a, b, c and d move on by one.
Step(abcd, x, k) ==
  LET round == 1 + ((k - 1) \div 16)
      n == (k - 1) % 16
      b == abcd[2]
      sum == Plus(Plus(abcd[1], Mix(round, b, abcd[3], abcd[4])),
                  Plus(x[Taken(round, n) + 1], Additive[k]))
  IN  <<abcd[4], Plus(b, ROTATE_LEFT(sum, Shifts[round][1 + (n % 4)])), b, abcd[3]>>

\* The words of a block, each from four bytes, the low one first.
MD5_decode(block) ==
  [j \in 1..16 |-> <<block[4 * j - 1] + (256 * block[4 * j]),
                     block[4 * j - 3] + (256 * block[4 * j - 2])>>]

MD5Transform(state, block) ==
  LET x == MD5_decode(block)
      abcd == FoldLeft(LAMBDA s, k : Step(s, x, k), state, [k \in 1..64 |-> k])
  IN  <<Plus(state[1], abcd[1]), Plus(state[2], abcd[2]),
        Plus(state[3], abcd[3]), Plus(state[4], abcd[4])>>

InitialState == <<<<\h6745, \h2301>>, <<\hefcd, \hab89>>, <<\h98ba, \hdcfe>>, <<\h1032, \h5476>>>>

MD5_encode(state) ==
  FlattenSeq([i \in 1..4 |-> <<state[i][2] % 256, state[i][2] \div 256,
                               state[i][1] % 256, state[i][1] \div 256>>])

\* The digest of a string of whole blocks.
Transformed(bytes) ==
  MD5_encode(FoldLeft(LAMBDA s, j : MD5Transform(s, SubSeq(bytes, 64 * j - 63, 64 * j)),
                      InitialState, [j \in 1..Len(bytes) \div 64 |-> j]))
-----------------------------------------------------------------------------
\* MD5Update takes the length as a U16.
U16(bytes) == SubSeq(bytes, 1, Len(bytes) % 65536)

\* The pieces, one MD5Update each, through one context.
Digest(pieces) ==
  Transformed(M!MD5Final(FoldLeft(LAMBDA ctx, piece : M!MD5Update(ctx, U16(piece)),
                                  M!MD5Init(M!Zeros(64)), pieces)))

MD5digest(str) == Digest(<<str>>)

\* The key, padded with zeros, with every byte XORed.
Pad(key, byte) == [k \in 1..64 |-> (IF k <= Len(key) THEN key[k] ELSE 0) ^^ byte]

ShortKey_Never(key) == key

\* A key of more than 64 bytes is hashed first.
ShortKey(key) == IF Len(key) > 64 THEN MD5digest(key) ELSE key

hmac_md5(text, key) ==
  LET k == ShortKey(key)
  IN  Digest(<<Pad(k, 92), Digest(<<Pad(k, 54), text>>)>>)
=============================================================================
