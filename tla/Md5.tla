-------------------------------- MODULE Md5 --------------------------------
(***************************************************************************)
(* The buffering of MD5 (src/lib/com_util/md5.c): a context takes a        *)
(* message in pieces of any length.  What MD5Transform makes of the blocks *)
(* is left out here (see Md5Block): state is the sequence of the bytes it  *)
(* has been given.                                                         *)
(***************************************************************************)
EXTENDS Integers, Sequences

CONSTANTS
  Block,    \* bytes of a block: 64
  TagLen,   \* bytes of the encoded bit count: 8
  Word      \* count[0] and count[1] count modulo Word: 2^32

ASSUME BlockAssumption == TagLen \in Nat /\ Block \in Nat /\ 0 < TagLen /\ TagLen < Block
ASSUME TagAssumption == TagLen % 2 = 0
ASSUME WordAssumption == Word \in Nat \ {0} /\ Word % (8 * Block) = 0

\* MD5_CTX.  count is the bits so far, the low word first.
Context(state, count, buffer) == [state |-> state, count |-> count, buffer |-> buffer]

\* The buffer keeps what the memory held.
MD5Init(buffer) == Context(<<>>, <<0, 0>>, buffer)
-----------------------------------------------------------------------------
\* The bytes that wait in the buffer for the rest of their block.
Index(ctx) == (ctx.count[1] \div 8) % Block

\* MD5_memcpy behind the first index bytes of the buffer.
MD5_memcpy(buffer, index, bytes) ==
  [k \in 1..Block |-> IF k \in index + 1 .. index + Len(bytes) THEN bytes[k - index]
                      ELSE buffer[k]]

AddBits_NoCarry(count, n) == <<(count[1] + (8 * n)) % Word, (count[2] + ((8 * n) \div Word)) % Word>>

\* The low word has wrapped when it is below what was added to it.
AddBits(count, n) ==
  LET low == (count[1] + (8 * n)) % Word
      carry == IF low < (8 * n) % Word THEN 1 ELSE 0
  IN  <<low, (count[2] + carry + ((8 * n) \div Word)) % Word>>

\* The piece fills the buffer, whole blocks go past it, the rest is kept.  n is
\* a U16, and so is i, which never wraps.
MD5Update(ctx, input) ==
  LET n == Len(input)
      index == Index(ctx)
      partLen == Block - index
      i == partLen + (Block * ((n - partLen) \div Block))
      count == AddBits(ctx.count, n)
  IN  IF n < partLen
      THEN Context(ctx.state, count, MD5_memcpy(ctx.buffer, index, input))
      ELSE LET first == MD5_memcpy(ctx.buffer, index, SubSeq(input, 1, partLen))
           IN  Context(ctx.state \o first \o SubSeq(input, partLen + 1, i), count,
                       MD5_memcpy(first, 0, SubSeq(input, i + 1, n)))
-----------------------------------------------------------------------------
Zeros(n) == [k \in 1..n |-> 0]

\* A word as width bytes, the low one first.
MD5_encode(word, width) == [k \in 1..width |-> (word \div (256 ^ (k - 1))) % 256]

PADDING == <<128>> \o Zeros(Block - 1)

padLen_OneBlock(index) == IF index <= Block - TagLen THEN Block - TagLen - index
                          ELSE (2 * Block) - TagLen - index

\* 1 to Block bytes of PADDING, up to TagLen below a whole block.
padLen(index) == IF index < Block - TagLen THEN Block - TagLen - index
                 ELSE (2 * Block) - TagLen - index

\* All that the digest is made of: the state before the context is wiped.
MD5Final(ctx) ==
  LET width == TagLen \div 2
      bits == MD5_encode(ctx.count[1], width) \o MD5_encode(ctx.count[2], width)
      padded == MD5Update(ctx, SubSeq(PADDING, 1, padLen(Index(ctx))))
  IN  MD5Update(padded, bits).state

Wiped == Context(<<>>, <<0, 0>>, Zeros(Block))
=============================================================================
