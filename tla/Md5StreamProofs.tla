-------------------------- MODULE Md5StreamProofs --------------------------
(***************************************************************************)
(* MD5 of a stream, for every message, every way to cut it into pieces,    *)
(* every size of a block and of a word: an open context holds the message  *)
(* given to it so far (Holds), MD5Update keeps that true, and MD5Final     *)
(* then hashes the padded message.  First the arithmetic of the two words  *)
(* of the count and of the index it yields, then the bytes, the padding,   *)
(* and the stream machine.                                                 *)
(***************************************************************************)
EXTENDS Md5Stream, SequenceTheorems, TLAPS

\* What \div and % yield, and how to know them.

LEMMA DivMod ==
  ASSUME NEW a \in Int, NEW b \in Nat \ {0}
  PROVE  a \div b \in Int /\ a % b \in 0..b - 1 /\ a = b * (a \div b) + (a % b)
OBVIOUS

LEMMA DivModIs ==
  ASSUME NEW a \in Int, NEW b \in Nat \ {0}, NEW k \in Int, NEW r \in 0..b - 1, a = b * k + r
  PROVE  a \div b = k /\ a % b = r
<1> DEFINE d == a \div b
           m == a % b
<1>1. d \in Int /\ m \in 0..b - 1 /\ a = b * d + m
  BY DivMod
<1> HIDE DEF d, m
<1>2. b * (k - d) = m - r
  BY <1>1
<1>3. k - d = 0
  <2>1. CASE k - d >= 1
    <3>1. b * (k - d) >= b
      BY <2>1, <1>1
    <3> QED BY <1>1, <1>2, <3>1
  <2>2. CASE k - d <= -1
    <3>1. b * (k - d) <= -b
      BY <2>2, <1>1
    <3> QED BY <1>1, <1>2, <3>1
  <2> QED BY <1>1, <2>1, <2>2
<1>4. k = d /\ m = r
  BY <1>1, <1>2, <1>3
<1> QED BY <1>4 DEF d, m

-----------------------------------------------------------------------------
(***************************************************************************)
(* MD5: the count of the bits, and the bytes that wait                     *)
(***************************************************************************)

\* Word is a multiple of the bits of a block.
LEMMA WordIs ==
  /\ Block \in Nat \ {0} /\ Word \in Nat \ {0} /\ Word * Word \in Nat \ {0}
  /\ \E u \in Nat : Word = 8 * (Block * u)
<1>1. Block \in Nat \ {0} /\ Word \in Nat \ {0} /\ 8 * Block \in Nat \ {0}
  BY BlockAssumption, WordAssumption
<1>2. Word * Word \in Nat \ {0}
  BY <1>1
<1> DEFINE u == Word \div (8 * Block)
<1>3. u \in Int /\ Word = ((8 * Block) * u) + (Word % (8 * Block))
  <2>1. Word \in Int /\ (8 * Block) \in Nat \ {0}
    BY <1>1
  <2> HIDE DEF u
  <2>2. /\ Word \div (8 * Block) \in Int
        /\ Word = (8 * Block) * (Word \div (8 * Block)) + (Word % (8 * Block))
    BY <2>1, DivMod
  <2> QED BY <2>2 DEF u
<1>4. Word = (8 * Block) * u
  BY <1>1, <1>3, WordAssumption
<1> HIDE DEF u
<1>5. u >= 0
  <2> SUFFICES ASSUME u <= -1 PROVE FALSE
    BY <1>3
  <2>1. (8 * Block) * u <= -(8 * Block)
    BY <1>1, <1>3
  <2> QED BY <1>1, <1>4, <2>1
<1>6. (8 * Block) * u = 8 * (Block * u)
  BY <1>1, <1>3
<1> QED BY <1>1, <1>2, <1>3, <1>4, <1>5, <1>6

\* The two words of the count are the length of l bytes in bits.
Counts(count, l) ==
  /\ count[1] \in 0..Word - 1 /\ count[2] \in 0..Word - 1
  /\ count[1] + (Word * count[2]) = (8 * l) % (Word * Word)

LEMMA CountParts ==
  ASSUME NEW count, NEW l \in Nat, Counts(count, l)
  PROVE  \E s \in Int : 8 * l = (Word * Word) * s + (count[1] + (Word * count[2]))
<1>1. 8 * l \in Int /\ Word * Word \in Nat \ {0}
  BY WordIs
<1>2. (8 * l) \div (Word * Word) \in Int
      /\ 8 * l = (Word * Word) * ((8 * l) \div (Word * Word)) + ((8 * l) % (Word * Word))
  BY <1>1, DivMod
<1> QED BY <1>2 DEF Counts

\* Index is read from the low word alone, and is right however often it wrapped.
LEMMA IndexOfCount ==
  ASSUME NEW count, NEW l \in Nat, Counts(count, l)
  PROVE  (count[1] \div 8) % Block = l % Block
<1> DEFINE c1 == count[1]
           c2 == count[2]
<1>1. PICK s \in Int : 8 * l = (Word * Word) * s + (c1 + (Word * c2))
  BY CountParts
<1>2. PICK u \in Nat : Word = 8 * (Block * u)
  BY WordIs
<1>3. c1 \in Int /\ c2 \in Int /\ Word \in Int /\ Block \in Nat \ {0}
  BY WordIs DEF Counts
<1> HIDE DEF c1, c2
<1> DEFINE t == (Word * s) + c2
<1>4. t \in Int /\ 8 * l = Word * t + c1
  <2>1. Word * t = (Word * Word) * s + (Word * c2)
    BY <1>3
  <2> QED BY <1>1, <1>3, <2>1
<1> HIDE DEF t
<1> DEFINE v == u * t
<1>5. v \in Int /\ Word * t = 8 * (Block * v)
  BY <1>2, <1>3, <1>4
<1> HIDE DEF v
<1>6. Block * v \in Int /\ c1 = 8 * (l - Block * v) + 0
  BY <1>3, <1>4, <1>5
<1>7. c1 \div 8 = l - Block * v
  <2>1. l - Block * v \in Int /\ 0 \in 0..8 - 1 /\ 8 \in Nat \ {0}
    BY <1>6
  <2> QED BY <1>3, <1>6, <2>1, DivModIs
<1>8. /\ l \div Block \in Int /\ l % Block \in 0..Block - 1
      /\ l = Block * (l \div Block) + (l % Block)
  BY <1>3, DivMod
<1>9. ASSUME NEW d \in Int, NEW m \in 0..Block - 1, l = Block * d + m
      PROVE  (l - Block * v) % Block = m
  <2>1. l - Block * v = Block * (d - v) + m
    BY <1>3, <1>5, <1>9
  <2>2. d - v \in Int /\ l - Block * v \in Int
    BY <1>5, <1>6
  <2> QED BY <1>3, <2>1, <2>2, DivModIs
<1>10. (l - Block * v) % Block = l % Block
  BY <1>8, <1>9
<1> QED BY <1>7, <1>10 DEF c1

\* The carry from the low word to the high one.
LEMMA BitsAdd ==
  ASSUME NEW count, NEW l \in Nat, Counts(count, l), NEW n \in Nat
  PROVE  Counts(AddBits(count, n), l + n)
<1> DEFINE c1 == count[1]
           c2 == count[2]
           low == (c1 + (8 * n)) % Word
           a == (8 * n) % Word
           b == (8 * n) \div Word
           carry == IF low < a THEN 1 ELSE 0
           high == (c2 + carry + b) % Word
<1>1. PICK s \in Int : 8 * l = (Word * Word) * s + (c1 + (Word * c2))
  BY CountParts
<1>2. c1 \in 0..Word - 1 /\ c2 \in 0..Word - 1 /\ Word \in Nat \ {0}
  BY WordIs DEF Counts
<1>3. AddBits(count, n) = <<low, high>>
  BY DEF AddBits
<1> HIDE DEF c1, c2
<1>4. a \in 0..Word - 1 /\ b \in Int /\ 8 * n = Word * b + a
  <2>1. (8 * n) \in Int /\ Word \in Nat \ {0}
    BY <1>2
  <2> QED BY <2>1, DivMod
<1>5. low \in 0..Word - 1 /\ \E k \in Int : c1 + (8 * n) = Word * k + low
  <2>1. (c1 + (8 * n)) \in Int /\ Word \in Nat \ {0}
    BY <1>2
  <2>2. /\ (c1 + (8 * n)) \div Word \in Int
        /\ c1 + (8 * n) = Word * ((c1 + (8 * n)) \div Word) + low
        /\ low \in 0..Word - 1
    BY <2>1, DivMod
  <2> QED BY <2>2
<1> HIDE DEF a, b, low
<1>6. c1 + a = (Word * carry) + low
  <2>1. PICK k \in Int : c1 + (8 * n) = Word * k + low
    BY <1>5
  <2> DEFINE e == k - b
  <2>2. e \in Int /\ c1 + a = Word * e + low
    BY <1>2, <1>4, <1>5, <2>1
  <2> HIDE DEF e
  <2>3. e = 0 \/ e = 1
    <3>1. CASE e >= 2
      <4>1. Word * e >= Word + Word
        BY <1>2, <2>2, <3>1
      <4> QED BY <1>2, <1>4, <1>5, <2>2, <4>1
    <3>2. CASE e <= -1
      <4>1. Word * e <= -Word
        BY <1>2, <2>2, <3>2
      <4> QED BY <1>2, <1>4, <1>5, <2>2, <4>1
    <3> QED BY <2>2, <3>1, <3>2
  <2>4. CASE e = 0
    <3>1. c1 + a = low
      BY <1>2, <1>5, <2>2, <2>4
    <3>2. carry = 0
      BY <1>2, <1>4, <1>5, <3>1
    <3> QED BY <1>2, <1>5, <3>1, <3>2
  <2>5. CASE e = 1
    <3>1. c1 + a = Word + low
      BY <1>2, <1>5, <2>2, <2>5
    <3>2. carry = 1
      BY <1>2, <1>4, <1>5, <3>1
    <3> QED BY <1>2, <1>5, <3>1, <3>2
  <2> QED BY <2>3, <2>4, <2>5
<1>7. carry \in Int
  OBVIOUS
<1> HIDE DEF carry
<1>8. high \in 0..Word - 1 /\ \E t \in Int : c2 + carry + b = Word * t + high
  <2>1. (c2 + carry + b) \in Int /\ Word \in Nat \ {0}
    BY <1>2, <1>4, <1>7
  <2>2. /\ (c2 + carry + b) \div Word \in Int
        /\ c2 + carry + b = Word * ((c2 + carry + b) \div Word) + high
        /\ high \in 0..Word - 1
    BY <2>1, DivMod
  <2> QED BY <2>2
<1> HIDE DEF high
<1>9. PICK t \in Int : c2 + carry + b = Word * t + high
  BY <1>8
<1>10. 8 * (l + n) = (Word * Word) * (s + t) + (low + (Word * high))
  <2>1. 8 * n + c1 = Word * (b + carry) + low
    BY <1>2, <1>4, <1>5, <1>6, <1>7
  <2>2. 8 * (l + n) = (Word * Word) * s + (Word * c2 + (Word * (b + carry) + low))
    BY <1>1, <1>2, <2>1
  <2>3. Word * c2 + Word * (b + carry) = Word * (Word * t + high)
    <3>1. Word * c2 + Word * (b + carry) = Word * (c2 + carry + b)
      BY <1>2, <1>4, <1>7
    <3> QED BY <1>9, <3>1
  <2>4. Word * (Word * t + high) = (Word * Word) * t + Word * high
    BY <1>2, <1>8
  <2>5. (Word * Word) * s + (Word * Word) * t = (Word * Word) * (s + t)
    BY <1>2
  <2> QED BY <1>2, <1>4, <1>5, <1>7, <1>8, <2>2, <2>3, <2>4, <2>5
<1>11. low + (Word * high) \in 0..(Word * Word) - 1
  <2>1. Word * high >= 0 /\ Word * high \in Int
    BY <1>2, <1>8
  <2>2. Word * high <= Word * (Word - 1)
    BY <1>2, <1>8
  <2>3. Word * (Word - 1) = Word * Word - Word
    BY <1>2
  <2> QED BY <1>2, <1>5, <2>1, <2>2, <2>3
<1>12. (8 * (l + n)) % (Word * Word) = low + (Word * high)
  <2>1. 8 * (l + n) \in Int /\ s + t \in Int /\ Word * Word \in Nat \ {0}
    BY WordIs
  <2> QED BY <1>10, <1>11, <2>1, DivModIs
<1> QED BY <1>3, <1>5, <1>8, <1>12 DEF Counts

\* Where l + n bytes end in the blocks, when n bytes do not complete the block
\* that l bytes begin, and when they do.
LEMMA IndexAdds ==
  ASSUME NEW l \in Nat, NEW n \in Nat, n < Block - (l % Block)
  PROVE  (l + n) % Block = (l % Block) + n
<1>1. Block \in Nat \ {0} /\ l \in Int
  BY WordIs
<1>2. /\ l \div Block \in Int /\ l % Block \in 0..Block - 1
      /\ l = Block * (l \div Block) + (l % Block)
  BY <1>1, DivMod
<1>3. ASSUME NEW d \in Int, NEW m \in 0..Block - 1, l = Block * d + m, n < Block - m
      PROVE  (l + n) % Block = m + n
  <2>1. m + n \in 0..Block - 1 /\ l + n \in Int /\ l + n = Block * d + (m + n)
    BY <1>1, <1>3
  <2> QED BY <1>1, <2>1, DivModIs
<1> QED BY <1>2, <1>3

LEMMA IndexWraps ==
  ASSUME NEW l \in Nat, NEW n \in Nat, NEW partLen, NEW i,
         partLen = Block - (l % Block), n >= partLen,
         i = partLen + (Block * ((n - partLen) \div Block))
  PROVE  /\ l % Block \in 0..Block - 1 /\ partLen \in 1..Block
         /\ i \in partLen..n /\ n - i \in 0..Block - 1
         /\ (l + n) % Block = n - i
<1>1. Block \in Nat \ {0} /\ l \in Int
  BY WordIs
<1>2. /\ l \div Block \in Int /\ l % Block \in 0..Block - 1
      /\ l = Block * (l \div Block) + (l % Block)
  BY <1>1, DivMod
<1>3. partLen \in 1..Block /\ n - partLen \in Int
  BY <1>1, <1>2
<1>4. /\ (n - partLen) \div Block \in Int /\ (n - partLen) % Block \in 0..Block - 1
      /\ n - partLen = Block * ((n - partLen) \div Block) + ((n - partLen) % Block)
  BY <1>1, <1>3, DivMod
<1>5. ASSUME NEW e \in Int, NEW r \in 0..Block - 1, n - partLen = Block * e + r,
             NEW d \in Int, NEW m \in 0..Block - 1, l = Block * d + m, partLen = Block - m,
             NEW j, j = partLen + (Block * e)
      PROVE  j \in partLen..n /\ n - j = r /\ (l + n) % Block = n - j
  <2>1. Block * e \in Int /\ j \in Int /\ n - j = r
    BY <1>1, <1>5
  <2>2. e >= 0
    <3> SUFFICES ASSUME e <= -1 PROVE FALSE
      OBVIOUS
    <3>1. Block * e <= -Block
      BY <1>1
    <3> QED BY <1>1, <1>3, <1>5, <3>1
  <2>3. Block * e >= 0
    BY <1>1, <2>2
  <2>4. d + 1 + e \in Int /\ l + n \in Int /\ l + n = Block * (d + 1 + e) + r
    <3>1. Block * (d + 1 + e) = Block * d + Block + Block * e
      BY <1>1
    <3> QED BY <1>1, <1>5, <2>1, <3>1
  <2>5. (l + n) % Block = r
    BY <1>1, <2>4, DivModIs
  <2>6. j \in partLen..n
    BY <1>1, <1>3, <1>5, <2>1, <2>3
  <2> QED BY <2>1, <2>5, <2>6
<1> DEFINE d == l \div Block
           m == l % Block
           e == (n - partLen) \div Block
           r == (n - partLen) % Block
<1>6. d \in Int /\ m \in 0..Block - 1 /\ l = Block * d + m /\ partLen = Block - m
  BY <1>2
<1>7. e \in Int /\ r \in 0..Block - 1 /\ n - partLen = Block * e + r
      /\ i = partLen + (Block * e)
  BY <1>4
<1> HIDE DEF d, m, e, r
<1>8. i \in partLen..n /\ n - i = r /\ (l + n) % Block = n - i
  BY <1>5, <1>6, <1>7
<1> QED BY <1>2, <1>3, <1>7, <1>8

-----------------------------------------------------------------------------
(***************************************************************************)
(* MD5: the bytes                                                          *)
(***************************************************************************)

Buffers == [1..Block -> Byte]

LEMMA BufferSeq ==
  ASSUME NEW buffer \in Buffers
  PROVE  buffer \in Seq(Byte) /\ Len(buffer) = Block
<1>1. Block \in Nat
  BY WordIs
<1> QED BY <1>1 DEF Buffers

\* What MD5_memcpy leaves in front of the end of what it copied.
LEMMA CopiedBehind ==
  ASSUME NEW buffer \in Buffers, NEW index \in Nat, NEW bytes \in Seq(Byte),
         index + Len(bytes) <= Block
  PROVE  /\ MD5_memcpy(buffer, index, bytes) \in Buffers
         /\ SubSeq(MD5_memcpy(buffer, index, bytes), 1, index + Len(bytes))
              = SubSeq(buffer, 1, index) \o bytes
<1> DEFINE copied == MD5_memcpy(buffer, index, bytes)
           e == index + Len(bytes)
<1>1. Block \in Nat /\ Len(bytes) \in Nat /\ e \in Nat
  BY WordIs
<1>2. \A k \in 1..Block : copied[k] = IF k \in index + 1 .. index + Len(bytes)
                                      THEN bytes[k - index] ELSE buffer[k]
  BY DEF MD5_memcpy
<1>3. copied \in Buffers
  <2>1. \A k \in index + 1 .. index + Len(bytes) : bytes[k - index] \in Byte
    BY <1>1
  <2>2. \A k \in 1..Block : buffer[k] \in Byte
    BY DEF Buffers
  <2> QED BY <2>1, <2>2 DEF MD5_memcpy, Buffers
<1> HIDE DEF copied
<1>4. /\ SubSeq(copied, 1, e) \in Seq(Byte) /\ Len(SubSeq(copied, 1, e)) = e
      /\ \A k \in 1..e : SubSeq(copied, 1, e)[k] = copied[k]
  <2>1. \A k \in 1..e : copied[k] \in Byte
    BY <1>1, <1>3 DEF Buffers
  <2>2. 1 \in Int /\ e \in Int
    BY <1>1
  <2> HIDE DEF e
  <2>3. /\ SubSeq(copied, 1, e) \in Seq(Byte)
        /\ Len(SubSeq(copied, 1, e)) = IF 1 <= e THEN e - 1 + 1 ELSE 0
        /\ \A k \in 1..e - 1 + 1 : SubSeq(copied, 1, e)[k] = copied[1 + k - 1]
    BY <2>1, <2>2, SubSeqProperties
  <2> QED BY <1>1, <2>3
<1>5. /\ SubSeq(buffer, 1, index) \in Seq(Byte) /\ Len(SubSeq(buffer, 1, index)) = index
      /\ \A k \in 1..index : SubSeq(buffer, 1, index)[k] = buffer[k]
  <2>1. \A k \in 1..index : buffer[k] \in Byte
    BY <1>1 DEF Buffers
  <2>2. 1 \in Int /\ index \in Int
    OBVIOUS
  <2>3. /\ SubSeq(buffer, 1, index) \in Seq(Byte)
        /\ Len(SubSeq(buffer, 1, index)) = IF 1 <= index THEN index - 1 + 1 ELSE 0
        /\ \A k \in 1..index - 1 + 1 : SubSeq(buffer, 1, index)[k] = buffer[1 + k - 1]
    BY <2>1, <2>2, SubSeqProperties
  <2> QED BY <2>3
<1> DEFINE front == SubSeq(buffer, 1, index)
           left == SubSeq(copied, 1, e)
<1>6. /\ front \o bytes \in Seq(Byte) /\ Len(front \o bytes) = e
      /\ \A k \in 1..e : (front \o bytes)[k] = IF k <= index THEN buffer[k]
                                               ELSE bytes[k - index]
  <2>1. front \in Seq(Byte) /\ Len(front) = index /\ \A k \in 1..index : front[k] = buffer[k]
    BY <1>5
  <2> HIDE DEF front
  <2>2. /\ front \o bytes \in Seq(Byte) /\ Len(front \o bytes) = Len(front) + Len(bytes)
        /\ \A k \in 1..Len(front) + Len(bytes) :
             (front \o bytes)[k] = IF k <= Len(front) THEN front[k] ELSE bytes[k - Len(front)]
    BY <2>1, ConcatProperties
  <2> HIDE DEF e
  <2>3. e = index + Len(bytes)
    BY DEF e
  <2> QED BY <1>1, <2>1, <2>2, <2>3
<1>7. \A k \in 1..e : left[k] = (front \o bytes)[k]
  <2> SUFFICES ASSUME NEW k \in 1..e PROVE left[k] = (front \o bytes)[k]
    OBVIOUS
  <2>1. left[k] = copied[k] /\ k \in 1..Block
    BY <1>1, <1>4
  <2>2. (front \o bytes)[k] = IF k <= index THEN buffer[k] ELSE bytes[k - index]
    BY <1>6
  <2>3. (k \in index + 1 .. index + Len(bytes)) <=> ~ (k <= index)
    BY <1>1
  <2> QED BY <1>2, <2>1, <2>2, <2>3
<1>8. left = front \o bytes
  BY <1>4, <1>6, <1>7, SeqEqual
<1> QED BY <1>3, <1>8 DEF copied

\* The context c holds the message m: what has been hashed and what waits in the
\* buffer are m, and the count is its length in bits.
Holds(c, m) ==
  /\ c.state \in Seq(Byte) /\ c.buffer \in Buffers
  /\ Counts(c.count, Len(m))
  /\ c.state \o SubSeq(c.buffer, 1, Index(c)) = m

LEMMA WaitingBytes ==
  ASSUME NEW buffer \in Buffers, NEW index \in 0..Block
  PROVE  SubSeq(buffer, 1, index) \in Seq(Byte)
<1>1. \A k \in 1..index : buffer[k] \in Byte
  BY WordIs DEF Buffers
<1>2. 1 \in Int /\ index \in Int
  BY WordIs
<1> QED BY <1>1, <1>2, SubSeqProperties

\* A piece that does not complete a block waits behind the bytes before it.
LEMMA UpdateWaits ==
  ASSUME NEW state \in Seq(Byte), NEW buffer \in Buffers, NEW index \in 0..Block - 1,
         NEW input \in Seq(Byte), index + Len(input) <= Block
  PROVE  /\ MD5_memcpy(buffer, index, input) \in Buffers
         /\ state \o SubSeq(MD5_memcpy(buffer, index, input), 1, index + Len(input))
              = (state \o SubSeq(buffer, 1, index)) \o input
<1>1. index \in Nat /\ index \in 0..Block
  BY WordIs
<1> DEFINE front == SubSeq(buffer, 1, index)
<1>2. front \in Seq(Byte)
  BY <1>1, WaitingBytes
<1>3. /\ MD5_memcpy(buffer, index, input) \in Buffers
      /\ SubSeq(MD5_memcpy(buffer, index, input), 1, index + Len(input)) = front \o input
  BY <1>1, CopiedBehind
<1> HIDE DEF front
<1>4. state \o (front \o input) = (state \o front) \o input
  BY <1>2, ConcatAssociative
<1> QED BY <1>3, <1>4 DEF front

\* Concatenation under a name of its own, for the steps that only regroup.
Cat(x, y) == x \o y

LEMMA CatFacts ==
  ASSUME NEW S, NEW x \in Seq(S), NEW y \in Seq(S), NEW z \in Seq(S)
  PROVE  Cat(Cat(x, y), z) = Cat(x, Cat(y, z)) /\ Cat(x, y) \in Seq(S)
BY ConcatAssociative, ConcatProperties DEF Cat

LEMMA Regrouped ==
  ASSUME NEW s \in Seq(Byte), NEW f \in Seq(Byte), NEW a \in Seq(Byte), NEW b \in Seq(Byte),
         NEW c \in Seq(Byte)
  PROVE  /\ Cat(Cat(s, Cat(f, a)), b) \in Seq(Byte)
         /\ Cat(Cat(Cat(s, Cat(f, a)), b), c) = Cat(Cat(s, f), Cat(Cat(a, b), c))
<1>1. /\ Cat(s, f) \in Seq(Byte) /\ Cat(a, b) \in Seq(Byte)
      /\ Cat(s, Cat(f, a)) = Cat(Cat(s, f), a)
  BY CatFacts
<1>2. /\ Cat(Cat(s, Cat(f, a)), b) = Cat(Cat(s, f), Cat(a, b))
      /\ Cat(Cat(Cat(s, f), Cat(a, b)), c) = Cat(Cat(s, f), Cat(Cat(a, b), c))
      /\ Cat(Cat(s, f), Cat(a, b)) \in Seq(Byte)
  BY <1>1, CatFacts
<1> QED BY <1>2

\* A longer one completes it; the whole blocks behind it are hashed, the rest, from
\* its byte i + 1 on, waits.
Completed(buffer, index, input) ==
  MD5_memcpy(buffer, index, SubSeq(input, 1, Block - index))
Rest(buffer, index, input, i) ==
  MD5_memcpy(Completed(buffer, index, input), 0, SubSeq(input, i + 1, Len(input)))
Hashed(state, buffer, index, input, i) ==
  state \o Completed(buffer, index, input) \o SubSeq(input, (Block - index) + 1, i)

LEMMA UpdateHashes ==
  ASSUME NEW state \in Seq(Byte), NEW buffer \in Buffers, NEW index \in 0..Block - 1,
         NEW input \in Seq(Byte),
         NEW i \in Block - index .. Len(input), Len(input) - i \in 0..Block - 1
  PROVE  /\ Rest(buffer, index, input, i) \in Buffers
         /\ Hashed(state, buffer, index, input, i) \in Seq(Byte)
         /\ Hashed(state, buffer, index, input, i)
              \o SubSeq(Rest(buffer, index, input, i), 1, Len(input) - i)
              = (state \o SubSeq(buffer, 1, index)) \o input
<1> DEFINE partLen == Block - index
           first == Completed(buffer, index, input)
           next == Rest(buffer, index, input, i)
           hashed == Hashed(state, buffer, index, input, i)
<1>0. /\ first = MD5_memcpy(buffer, index, SubSeq(input, 1, partLen))
      /\ next = MD5_memcpy(first, 0, SubSeq(input, i + 1, Len(input)))
      /\ hashed = state \o first \o SubSeq(input, partLen + 1, i)
  BY DEF Completed, Rest, Hashed
<1> HIDE DEF first, next, hashed
<1> DEFINE n == Len(input)
           a == SubSeq(input, 1, partLen)
           b == SubSeq(input, partLen + 1, i)
           c == SubSeq(input, i + 1, n)
           front == SubSeq(buffer, 1, index)
<1>1. /\ Block \in Nat \ {0} /\ n \in Nat /\ index \in Nat /\ index \in 0..Block
      /\ partLen \in 1..Block /\ partLen <= i /\ i <= n /\ i \in Nat
  BY WordIs
<1>2. \A k \in 1..n : input[k] \in Byte
  OBVIOUS
<1>3. a \in Seq(Byte) /\ Len(a) = partLen
  <2>1. 1 \in Int /\ partLen \in Int /\ \A k \in 1..partLen : input[k] \in Byte
    BY <1>1, <1>2
  <2>2. a \in Seq(Byte) /\ Len(a) = IF 1 <= partLen THEN partLen - 1 + 1 ELSE 0
    BY <2>1, SubSeqProperties
  <2> QED BY <1>1, <2>2
<1>4. b \in Seq(Byte)
  <2>1. partLen + 1 \in Int /\ i \in Int /\ \A k \in partLen + 1 .. i : input[k] \in Byte
    BY <1>1, <1>2
  <2> QED BY <2>1, SubSeqProperties
<1>5. c \in Seq(Byte) /\ Len(c) = n - i
  <2>1. i + 1 \in Int /\ n \in Int /\ \A k \in i + 1 .. n : input[k] \in Byte
    BY <1>1, <1>2
  <2>2. c \in Seq(Byte) /\ Len(c) = IF i + 1 <= n THEN n - (i + 1) + 1 ELSE 0
    BY <2>1, SubSeqProperties
  <2> QED BY <1>1, <2>2
<1>6. a \o b = SubSeq(input, 1, i)
  <2>1. 1 \in 1..Len(input) + 1 /\ partLen \in 1 - 1 .. Len(input) /\ i \in partLen..Len(input)
    BY <1>1
  <2> QED BY <2>1, ConcatAdjacentSubSeq
<1>7. SubSeq(input, 1, i) \o c = input
  <2>1. 1 \in 1..Len(input) + 1 /\ i \in 1 - 1 .. Len(input) /\ Len(input) \in i..Len(input)
    BY <1>1
  <2>2. SubSeq(input, 1, i) \o c = SubSeq(input, 1, Len(input))
    BY <2>1, ConcatAdjacentSubSeq
  <2> QED BY <2>2, SubSeqFull
<1>8. front \in Seq(Byte)
  BY <1>1, WaitingBytes
<1>9. first \in Buffers /\ first \in Seq(Byte) /\ first = front \o a
  <2>1. index + Len(a) = Block
    BY <1>1, <1>3
  <2>2. first \in Buffers /\ SubSeq(first, 1, index + Len(a)) = front \o a
    <3>1. first = MD5_memcpy(buffer, index, a)
      BY <1>0
    <3>2. index + Len(a) <= Block
      BY <1>1, <2>1
    <3> HIDE DEF a
    <3>3. /\ MD5_memcpy(buffer, index, a) \in Buffers
          /\ SubSeq(MD5_memcpy(buffer, index, a), 1, index + Len(a)) = front \o a
      BY <1>1, <1>3, <3>2, CopiedBehind
    <3> QED BY <3>1, <3>3
  <2>3. first \in Seq(Byte) /\ Len(first) = Block
    BY <2>2, BufferSeq
  <2>4. SubSeq(first, 1, Block) = first
    BY <2>3, SubSeqFull
  <2> QED BY <2>1, <2>2, <2>3, <2>4
<1>10. next \in Buffers /\ SubSeq(next, 1, n - i) = c
  <2>1. 0 \in Nat /\ 0 + Len(c) <= Block /\ 0 + Len(c) = n - i
    BY <1>1, <1>5
  <2>2. next \in Buffers /\ SubSeq(next, 1, 0 + Len(c)) = SubSeq(first, 1, 0) \o c
    BY <1>0, <1>5, <1>9, <2>1, CopiedBehind
  <2>3. SubSeq(first, 1, 0) = <<>>
    BY SubSeqEmpty
  <2>4. SubSeq(first, 1, 0) \o c = c
    BY <1>5, <2>3, ConcatEmptySeq
  <2> QED BY <2>1, <2>2, <2>4
<1> HIDE DEF a, b, c, front, n
<1>11. hashed = Cat(Cat(state, first), b) /\ first = Cat(front, a)
  BY <1>0, <1>9 DEF b, Cat
<1>12. hashed \in Seq(Byte) /\ Cat(hashed, c) = Cat(Cat(state, front), Cat(Cat(a, b), c))
  <2>1. /\ state \in Seq(Byte) /\ a \in Seq(Byte) /\ b \in Seq(Byte) /\ c \in Seq(Byte)
        /\ front \in Seq(Byte)
    BY <1>3, <1>4, <1>5, <1>8
  <2>2. /\ Cat(Cat(state, Cat(front, a)), b) \in Seq(Byte)
        /\ Cat(Cat(Cat(state, Cat(front, a)), b), c) = Cat(Cat(state, front), Cat(Cat(a, b), c))
    BY <2>1, Regrouped, SMTT(30)
  <2> QED BY <1>11, <2>2, Zenon
<1>13. (a \o b) \o c = input
  BY <1>6, <1>7
<1> QED BY <1>10, <1>12, <1>13 DEF c, n, front, Cat, next, hashed

\* A call of MD5Update adds its piece to the message, whatever its length.
LEMMA UpdateKeeps ==
  ASSUME NEW c, NEW m \in Seq(Byte), Holds(c, m), NEW input \in Seq(Byte)
  PROVE  Holds(MD5Update(c, input), m \o input)
<1> DEFINE n == Len(input)
           l == Len(m)
           index == Index(c)
           partLen == Block - index
           i == partLen + (Block * ((n - partLen) \div Block))
           after == MD5Update(c, input)
           count == AddBits(c.count, n)
<1>1. n \in Nat /\ l \in Nat /\ Len(m \o input) = l + n
  BY ConcatProperties
<1>2. index = l % Block
  BY <1>1, IndexOfCount DEF Holds, Index
<1>3. Counts(count, l + n)
  BY <1>1, BitsAdd DEF Holds
<1>4. (count[1] \div 8) % Block = (l + n) % Block
  <2>1. l + n \in Nat
    BY <1>1
  <2> HIDE DEF count
  <2> QED BY <1>3, <2>1, IndexOfCount
<1>5. c.state \in Seq(Byte) /\ c.buffer \in Buffers
      /\ c.state \o SubSeq(c.buffer, 1, index) = m
  BY DEF Holds
<1>6. Block \in Nat \ {0} /\ index \in 0..Block - 1
  <2>1. Block \in Nat \ {0} /\ l \in Int
    BY <1>1, WordIs
  <2> HIDE DEF l, index
  <2> QED BY <1>2, <2>1, DivMod
<1> HIDE DEF l
<1>7. CASE n < partLen
  <2> DEFINE kept == MD5_memcpy(c.buffer, index, input)
  <2>1. after = Context(c.state, count, kept)
    BY <1>7 DEF MD5Update
  <2>2. (l + n) % Block = index + n
    <3> HIDE DEF n, index
    <3> QED BY <1>1, <1>2, <1>7, IndexAdds
  <2>3. index + Len(input) <= Block
    <3> HIDE DEF index
    <3> QED BY <1>1, <1>6, <1>7
  <2> HIDE DEF index
  <2>4. kept \in Buffers /\ c.state \o SubSeq(kept, 1, index + n) = m \o input
    BY <1>5, <1>6, <2>3, UpdateWaits
  <2> HIDE DEF kept, count, n, after
  <2>5. Index(after) = index + n
    BY <1>4, <2>1, <2>2 DEF Context, Index
  <2>6. after.state = c.state /\ after.buffer = kept /\ after.count = count
    BY <2>1 DEF Context
  <2>7. Counts(after.count, Len(m \o input))
    BY <1>1, <1>3, <2>6
  <2>8. after.state \o SubSeq(after.buffer, 1, Index(after)) = m \o input
    BY <2>4, <2>5, <2>6
  <2>9. after.state \in Seq(Byte) /\ after.buffer \in Buffers
    BY <1>5, <2>4, <2>6
  <2>10. Holds(after, m \o input)
    BY <2>7, <2>8, <2>9 DEF Holds
  <2> QED BY <2>10 DEF after
<1>8. CASE ~ (n < partLen)
  <2> DEFINE next == Rest(c.buffer, index, input, i)
             hashed == Hashed(c.state, c.buffer, index, input, i)
  <2>1. after = Context(hashed, count, next)
    BY <1>8 DEF MD5Update, Rest, Hashed, Completed
  <2>2. /\ partLen \in 1..Block /\ i \in partLen..n /\ n - i \in 0..Block - 1
        /\ (l + n) % Block = n - i
    <3>1. partLen = Block - (l % Block) /\ n >= partLen
          /\ i = partLen + (Block * ((n - partLen) \div Block))
      <4> HIDE DEF n, index
      <4> QED BY <1>1, <1>2, <1>6, <1>8
    <3> HIDE DEF n, partLen, i
    <3> QED BY <1>1, <3>1, IndexWraps
  <2> HIDE DEF i
  <2>3. /\ next \in Buffers /\ hashed \in Seq(Byte)
        /\ hashed \o SubSeq(next, 1, n - i) = m \o input
    <3>1. i \in Block - index .. Len(input) /\ Len(input) - i \in 0..Block - 1
      BY <2>2
    <3> HIDE DEF index
    <3>2. /\ next \in Buffers /\ hashed \in Seq(Byte)
          /\ hashed \o SubSeq(next, 1, Len(input) - i)
               = (c.state \o SubSeq(c.buffer, 1, index)) \o input
      <4>1. ASSUME NEW s \in Seq(Byte), NEW b \in Buffers, NEW x \in 0..Block - 1,
                   NEW k \in Block - x .. Len(input), Len(input) - k \in 0..Block - 1
            PROVE  /\ Rest(b, x, input, k) \in Buffers
                   /\ Hashed(s, b, x, input, k) \in Seq(Byte)
                   /\ Hashed(s, b, x, input, k) \o SubSeq(Rest(b, x, input, k), 1, Len(input) - k)
                        = (s \o SubSeq(b, 1, x)) \o input
        BY <4>1, UpdateHashes
      <4>2. c.state \in Seq(Byte) /\ c.buffer \in Buffers /\ index \in 0..Block - 1
        BY <1>5, <1>6
      <4> QED BY <3>1, <4>1, <4>2
    <3> QED BY <1>5, <3>2
  <2> HIDE DEF next, hashed, count, n, after, index, partLen
  <2>4. Index(after) = n - i
    BY <1>4, <2>1, <2>2 DEF Context, Index
  <2>5. after.state = hashed /\ after.buffer = next /\ after.count = count
    BY <2>1 DEF Context
  <2>6. Counts(after.count, Len(m \o input))
    BY <1>1, <1>3, <2>5
  <2>7. after.state \o SubSeq(after.buffer, 1, Index(after)) = m \o input
    BY <2>3, <2>4, <2>5
  <2>8. after.state \in Seq(Byte) /\ after.buffer \in Buffers
    BY <2>3, <2>5
  <2>9. Holds(after, m \o input)
    BY <2>6, <2>7, <2>8 DEF Holds
  <2> QED BY <2>9 DEF after
<1> QED BY <1>7, <1>8

-----------------------------------------------------------------------------
(***************************************************************************)
(* MD5: the padding                                                        *)
(***************************************************************************)

LEMMA ZerosSeq ==
  ASSUME NEW n \in Nat
  PROVE  Zeros(n) \in Seq(Byte) /\ Len(Zeros(n)) = n
<1>1. Zeros(n) \in [1..n -> Byte]
  BY DEF Zeros, Byte
<1> QED BY <1>1

\* The first byte of PADDING is a 128, the others are zeros.
LEMMA PaddingFront ==
  ASSUME NEW k \in 1..Block
  PROVE  /\ SubSeq(PADDING, 1, k) = <<128>> \o Zeros(k - 1)
         /\ SubSeq(PADDING, 1, k) \in Seq(Byte) /\ Len(SubSeq(PADDING, 1, k)) = k
<1>1. Block \in Nat \ {0} /\ Block - 1 \in Nat /\ k - 1 \in Nat /\ k \in Nat
  BY WordIs
<1>2. <<128>> \in Seq(Byte) /\ Len(<<128>>) = 1 /\ <<128>>[1] = 128
  BY DEF Byte
<1>3. Zeros(Block - 1) \in Seq(Byte) /\ Len(Zeros(Block - 1)) = Block - 1
      /\ Zeros(k - 1) \in Seq(Byte) /\ Len(Zeros(k - 1)) = k - 1
  BY <1>1, ZerosSeq
<1>4. /\ PADDING \in Seq(Byte) /\ Len(PADDING) = Block
      /\ \A j \in 1..Block : PADDING[j] = IF j <= 1 THEN <<128>>[j] ELSE Zeros(Block - 1)[j - 1]
  <2>1. /\ <<128>> \o Zeros(Block - 1) \in Seq(Byte)
        /\ Len(<<128>> \o Zeros(Block - 1)) = Len(<<128>>) + Len(Zeros(Block - 1))
        /\ \A j \in 1..Len(<<128>>) + Len(Zeros(Block - 1)) :
             (<<128>> \o Zeros(Block - 1))[j]
               = IF j <= Len(<<128>>) THEN <<128>>[j] ELSE Zeros(Block - 1)[j - Len(<<128>>)]
    BY <1>2, <1>3, ConcatProperties
  <2>2. PADDING = <<128>> \o Zeros(Block - 1)
    BY DEF PADDING
  <2>3. Len(<<128>>) = 1 /\ Len(<<128>>) + Len(Zeros(Block - 1)) = Block
    BY <1>1, <1>2, <1>3
  <2> QED BY <2>1, <2>2, <2>3
<1>5. /\ <<128>> \o Zeros(k - 1) \in Seq(Byte) /\ Len(<<128>> \o Zeros(k - 1)) = k
      /\ \A j \in 1..k : (<<128>> \o Zeros(k - 1))[j]
                           = IF j <= 1 THEN <<128>>[j] ELSE Zeros(k - 1)[j - 1]
  <2>1. /\ <<128>> \o Zeros(k - 1) \in Seq(Byte)
        /\ Len(<<128>> \o Zeros(k - 1)) = Len(<<128>>) + Len(Zeros(k - 1))
        /\ \A j \in 1..Len(<<128>>) + Len(Zeros(k - 1)) :
             (<<128>> \o Zeros(k - 1))[j]
               = IF j <= Len(<<128>>) THEN <<128>>[j] ELSE Zeros(k - 1)[j - Len(<<128>>)]
    BY <1>2, <1>3, ConcatProperties
  <2>2. Len(<<128>>) = 1 /\ Len(<<128>>) + Len(Zeros(k - 1)) = k
    BY <1>1, <1>2, <1>3
  <2> QED BY <2>1, <2>2
<1>6. /\ SubSeq(PADDING, 1, k) \in Seq(Byte) /\ Len(SubSeq(PADDING, 1, k)) = k
      /\ \A j \in 1..k : SubSeq(PADDING, 1, k)[j] = PADDING[j]
  <2>1. \A j \in 1..k : PADDING[j] \in Byte
    BY <1>1, <1>4
  <2>2. 1 \in Int /\ k \in Int
    BY <1>1
  <2>3. /\ SubSeq(PADDING, 1, k) \in Seq(Byte)
        /\ Len(SubSeq(PADDING, 1, k)) = IF 1 <= k THEN k - 1 + 1 ELSE 0
        /\ \A j \in 1..k - 1 + 1 : SubSeq(PADDING, 1, k)[j] = PADDING[1 + j - 1]
    BY <2>1, <2>2, SubSeqProperties
  <2> QED BY <1>1, <2>3
<1>7. \A j \in 1..k : SubSeq(PADDING, 1, k)[j] = (<<128>> \o Zeros(k - 1))[j]
  <2> SUFFICES ASSUME NEW j \in 1..k
               PROVE  SubSeq(PADDING, 1, k)[j] = (<<128>> \o Zeros(k - 1))[j]
    OBVIOUS
  <2>1. SubSeq(PADDING, 1, k)[j] = IF j <= 1 THEN <<128>>[j] ELSE Zeros(Block - 1)[j - 1]
    BY <1>1, <1>4, <1>6
  <2>2. j > 1 => Zeros(Block - 1)[j - 1] = 0 /\ Zeros(k - 1)[j - 1] = 0
    BY <1>1 DEF Zeros
  <2> QED BY <1>5, <2>1, <2>2
<1>8. SubSeq(PADDING, 1, k) = <<128>> \o Zeros(k - 1)
  BY <1>5, <1>6, <1>7, SeqEqual
<1> QED BY <1>6, <1>8

LEMMA EncodeSeq ==
  ASSUME NEW word \in Int, NEW width \in Nat
  PROVE  MD5_encode(word, width) \in Seq(Byte) /\ Len(MD5_encode(word, width)) = width
<1>1. MD5_encode(word, width) \in [1..width -> Byte]
  BY DEF MD5_encode, Byte
<1> QED BY <1>1

\* The two words of a count, and the half of the tag each of them fills.
LEMMA TagOfCount ==
  ASSUME NEW count, NEW l \in Nat, Counts(count, l)
  PROVE  LET width == TagLen \div 2
             bits == MD5_encode(count[1], width) \o MD5_encode(count[2], width)
         IN  bits = LengthTag(l) /\ bits \in Seq(Byte) /\ Len(bits) = TagLen
<1> DEFINE width == TagLen \div 2
           b == (8 * l) % (Word * Word)
           low == MD5_encode(count[1], width)
           high == MD5_encode(count[2], width)
<1>1. count[1] \in 0..Word - 1 /\ count[2] \in 0..Word - 1 /\ Word \in Nat \ {0}
      /\ b = count[1] + (Word * count[2])
  BY WordIs DEF Counts
<1> HIDE DEF b
<1>2. b \div Word = count[2] /\ b % Word = count[1]
  <2>1. b \in Int /\ b = Word * count[2] + count[1] /\ count[2] \in Int
    BY <1>1
  <2> QED BY <1>1, <2>1, DivModIs
<1>3. width \in Nat /\ width + width = TagLen
  <2>1. TagLen \in Nat /\ TagLen % 2 = 0
    BY BlockAssumption, TagAssumption
  <2> QED BY <2>1
<1> HIDE DEF width
<1>4. low \in Seq(Byte) /\ Len(low) = width /\ high \in Seq(Byte) /\ Len(high) = width
  <2>1. count[1] \in Int /\ count[2] \in Int
    BY <1>1
  <2> QED BY <1>3, <2>1, EncodeSeq
<1>5. LengthTag(l) = low \o high
  BY <1>2 DEF LengthTag, b, width
<1> HIDE DEF low, high
<1>6. low \o high \in Seq(Byte) /\ Len(low \o high) = TagLen
  <2>1. low \o high \in Seq(Byte) /\ Len(low \o high) = Len(low) + Len(high)
    BY <1>4, ConcatProperties
  <2> QED BY <1>3, <1>4, <2>1
<1> QED BY <1>5, <1>6 DEF low, high, width

LEMMA Apart ==
  ASSUME NEW l \in Int, NEW z \in Int, NEW k \in Int, NEW t \in Int, NEW p \in Int, NEW q \in Int,
         l + 1 + z + t = p, l + k + t = q
  PROVE  p - q = (z + 1) - k
OBVIOUS

\* padLen reaches from l bytes up to TagLen below a whole block, and no other length
\* of at most a block does.
LEMMA PadLength ==
  ASSUME NEW l \in Nat, NEW index, index = l % Block, NEW k, k = padLen(index)
  PROVE  /\ k \in 1..Block
         /\ (l + k + TagLen) % Block = 0
         /\ \A z \in 0..Block - 1 : ((l + 1 + z + TagLen) % Block = 0) => z = k - 1
<1>1. Block \in Nat \ {0} /\ l \in Int /\ TagLen \in 1..Block - 1
  BY WordIs, BlockAssumption
<1>2. /\ l \div Block \in Int /\ l % Block \in 0..Block - 1
      /\ l = Block * (l \div Block) + (l % Block)
  BY <1>1, DivMod
<1>3. index \in 0..Block - 1 /\ \E d \in Int : l = Block * d + index
  BY <1>2
<1>4. PICK d \in Int : l = Block * d + index
  BY <1>3
<1>5. k \in 1..Block /\ (index + k + TagLen = Block \/ index + k + TagLen = Block + Block)
  BY <1>1, <1>3 DEF padLen
<1>6. \E e \in Int : l + k + TagLen = Block * e
  <2>1. Block * (d + 1) = Block * d + Block /\ Block * (d + 2) = Block * d + (Block + Block)
    BY <1>1
  <2>2. d + 1 \in Int /\ d + 2 \in Int
    OBVIOUS
  <2>3. l + k + TagLen = Block * (d + 1) \/ l + k + TagLen = Block * (d + 2)
    BY <1>1, <1>3, <1>4, <1>5, <2>1
  <2> QED BY <2>2, <2>3
<1>7. PICK e \in Int : l + k + TagLen = Block * e
  BY <1>6
<1>8. (l + k + TagLen) % Block = 0
  <2>1. (l + k + TagLen) \in Int /\ l + k + TagLen = Block * e + 0 /\ 0 \in 0..Block - 1
    BY <1>1, <1>5, <1>7
  <2> QED BY <1>1, <2>1, DivModIs
<1>9. ASSUME NEW z \in 0..Block - 1, (l + 1 + z + TagLen) % Block = 0
      PROVE  z = k - 1
  <2>1. (l + 1 + z + TagLen) \in Int
    BY <1>1
  <2>2. /\ (l + 1 + z + TagLen) \div Block \in Int
        /\ l + 1 + z + TagLen
             = Block * ((l + 1 + z + TagLen) \div Block) + ((l + 1 + z + TagLen) % Block)
    BY <1>1, <2>1, DivMod
  <2>3. PICK f \in Int : l + 1 + z + TagLen = Block * f
    <3> DEFINE f == (l + 1 + z + TagLen) \div Block
    <3>1. f \in Int /\ l + 1 + z + TagLen = Block * f + 0
      BY <1>9, <2>2
    <3> HIDE DEF f
    <3>2. l + 1 + z + TagLen = Block * f
      BY <1>1, <3>1
    <3> QED BY <3>1, <3>2
  <2>4. Block * (f - e) = (z + 1) - k
    <3>1. Block * (f - e) = (Block * f) - (Block * e)
      BY <1>1
    <3>2. Block * f \in Int /\ Block * e \in Int
      BY <1>1
    <3>3. k \in Int /\ TagLen \in Int /\ z \in Int /\ l \in Int
      BY <1>1, <1>5
    <3>4. (Block * f) - (Block * e) = (z + 1) - k
      BY <1>7, <2>3, <3>2, <3>3, Apart
    <3> QED BY <3>1, <3>4
  <2>5. f - e = 0
    <3>1. CASE f - e >= 1
      <4>1. Block * (f - e) >= Block
        BY <1>1, <3>1
      <4> QED BY <1>1, <1>5, <2>4, <4>1
    <3>2. CASE f - e <= -1
      <4>1. Block * (f - e) <= -Block
        BY <1>1, <3>2
      <4> QED BY <1>1, <1>5, <2>4, <4>1
    <3> QED BY <3>1, <3>2
  <2> QED BY <1>1, <1>5, <2>4, <2>5
<1> QED BY <1>5, <1>8, <1>9

\* The digest is made of the padded message.
LEMMA FinalPads ==
  ASSUME NEW c, NEW m \in Seq(Byte), Holds(c, m)
  PROVE  MD5Final(c) = PaddedMessage(m)
<1> DEFINE l == Len(m)
           k == padLen(Index(c))
           pad == SubSeq(PADDING, 1, k)
           width == TagLen \div 2
           bits == MD5_encode(c.count[1], width) \o MD5_encode(c.count[2], width)
           padded == MD5Update(c, pad)
           final == MD5Update(padded, bits)
           z == CHOOSE z \in 0..Block - 1 : (l + 1 + z + TagLen) % Block = 0
<1>1. l \in Nat /\ Counts(c.count, l)
  BY DEF Holds
<1>2. Index(c) = l % Block
  BY <1>1, IndexOfCount DEF Index
<1>3. /\ k \in 1..Block
      /\ (l + k + TagLen) % Block = 0
      /\ \A x \in 0..Block - 1 : ((l + 1 + x + TagLen) % Block = 0) => x = k - 1
  <2> HIDE DEF l
  <2>1. \A x : x = l % Block => /\ padLen(x) \in 1..Block
                                /\ (l + padLen(x) + TagLen) % Block = 0
                                /\ \A y \in 0..Block - 1 :
                                     ((l + 1 + y + TagLen) % Block = 0) => y = padLen(x) - 1
    BY <1>1, PadLength
  <2> QED BY <1>2, <2>1
<1>4. z = k - 1
  <2>1. Block \in Nat /\ TagLen \in Nat
    BY WordIs, BlockAssumption
  <2>2. k - 1 \in 0..Block - 1 /\ l + 1 + (k - 1) + TagLen = l + k + TagLen
    BY <1>1, <1>3, <2>1
  <2> HIDE DEF k, l
  <2>3. \E x \in 0..Block - 1 : (l + 1 + x + TagLen) % Block = 0
    BY <1>3, <2>2
  <2>4. z \in 0..Block - 1 /\ (l + 1 + z + TagLen) % Block = 0
    BY <2>3
  <2> QED BY <1>3, <2>4
<1>5. pad = <<128>> \o Zeros(k - 1) /\ pad \in Seq(Byte) /\ Len(pad) = k
  <2> HIDE DEF k
  <2> QED BY <1>3, PaddingFront
<1>6. bits = LengthTag(l) /\ bits \in Seq(Byte) /\ Len(bits) = TagLen
  <2> HIDE DEF l
  <2> QED BY <1>1, TagOfCount
<1> HIDE DEF pad, bits, k
<1>7. Holds(padded, m \o pad)
  BY <1>5, UpdateKeeps
<1>8. m \o pad \in Seq(Byte) /\ Len(m \o pad) = l + k
  BY <1>5, ConcatProperties
<1> HIDE DEF padded
<1>9. Holds(final, (m \o pad) \o bits)
  BY <1>6, <1>7, <1>8, UpdateKeeps
<1>10. (m \o pad) \o bits \in Seq(Byte) /\ Len((m \o pad) \o bits) = l + k + TagLen
  <2> DEFINE x == m \o pad
  <2>1. x \in Seq(Byte) /\ Len(x) = l + k
    BY <1>8
  <2> HIDE DEF x
  <2>2. x \o bits \in Seq(Byte) /\ Len(x \o bits) = Len(x) + Len(bits)
    BY <1>6, <2>1, ConcatProperties
  <2> QED BY <1>6, <2>1, <2>2 DEF x
<1> HIDE DEF final
<1>11. Index(final) = 0
  <2> DEFINE t == l + k + TagLen
  <2>1. t \in Nat /\ t % Block = 0
    <3>1. k \in Nat /\ TagLen \in Nat
      BY <1>3, BlockAssumption, WordIs
    <3> QED BY <1>1, <1>3, <3>1
  <2>2. Counts(final.count, t)
    BY <1>9, <1>10 DEF Holds
  <2> HIDE DEF t
  <2> QED BY <2>1, <2>2, IndexOfCount DEF Index
<1>12. final.state = (m \o pad) \o bits
  <2>1. final.state \in Seq(Byte) /\ final.state \o SubSeq(final.buffer, 1, 0) = (m \o pad) \o bits
    BY <1>9, <1>11 DEF Holds
  <2>2. SubSeq(final.buffer, 1, 0) = <<>>
    BY SubSeqEmpty
  <2>3. final.state \o <<>> = final.state
    BY <2>1, ConcatEmptySeq
  <2> QED BY <2>1, <2>2, <2>3
<1>13. MD5Final(c) = final.state
  BY DEF MD5Final, final, padded, bits, pad, k
<1>14. PaddedMessage(m) = (m \o (<<128>> \o Zeros(z))) \o LengthTag(l)
  <2>1. PaddedMessage(m) = m \o <<128>> \o Zeros(z) \o LengthTag(l)
    BY DEF PaddedMessage
  <2>2. <<128>> \in Seq(Byte) /\ Zeros(z) \in Seq(Byte)
    <3> HIDE DEF z
    <3>1. z \in Nat
      BY <1>3, <1>4, WordIs
    <3> QED BY <3>1, ZerosSeq DEF Byte
  <2> HIDE DEF z
  <2>3. m \o (<<128>> \o Zeros(z)) = (m \o <<128>>) \o Zeros(z)
    BY <2>2, ConcatAssociative
  <2> QED BY <2>1, <2>3
<1> HIDE DEF z, l
<1>15. m \o (<<128>> \o Zeros(z)) = m \o pad
  BY <1>4, <1>5
<1> QED BY <1>6, <1>12, <1>13, <1>14, <1>15

-----------------------------------------------------------------------------
(***************************************************************************)
(* The theorems about the stream                                           *)
(***************************************************************************)

StreamInv ==
  /\ open \in BOOLEAN
  /\ message \in Seq(Byte)
  /\ Len(message) <= MaxTotal
  /\ open => Holds(ctx, message) /\ digest = <<>>
  /\ DigestPadded

LEMMA PieceSeq ==
  ASSUME NEW n \in Nat, message \in Seq(Byte), Len(message) + n <= MaxTotal
  PROVE  Piece(n) \in Seq(Byte) /\ Len(Piece(n)) = n
<1>1. \A k \in 1..n : Stream(Len(message) + k) \in Byte
  BY StreamAssumption
<1>2. Piece(n) \in [1..n -> Byte]
  BY <1>1 DEF Piece
<1> QED BY <1>2

LEMMA StreamStarts == StreamInit => StreamInv
<1> SUFFICES ASSUME StreamInit PROVE StreamInv
  OBVIOUS
<1>1. open = FALSE /\ message = <<>> /\ digest = <<>>
  BY DEF StreamInit
<1>2. message \in Seq(Byte) /\ Len(message) <= MaxTotal
  BY <1>1, StreamAssumption
<1> QED BY <1>1, <1>2 DEF StreamInv, DigestPadded

\* A fresh context holds the empty message, whatever its memory held.
LEMMA OpenHolds ==
  ASSUME NEW byte \in Byte
  PROVE  Holds(MD5Init([k \in 1..Block |-> byte]), <<>>)
<1> DEFINE buffer == [k \in 1..Block |-> byte]
           c == MD5Init(buffer)
<1>1. buffer \in Buffers
  BY DEF Buffers
<1> HIDE DEF buffer
<1>2. c.state = <<>> /\ c.count = <<0, 0>> /\ c.buffer = buffer
  BY DEF MD5Init, Context
<1>3. Counts(<<0, 0>>, 0)
  <2>1. Word \in Nat \ {0} /\ Word * Word \in Nat \ {0}
    BY WordIs
  <2>2. 0 \in Int /\ 0 \in 0..(Word * Word) - 1 /\ 0 = (Word * Word) * 0 + 0
    BY <2>1
  <2>3. 0 % (Word * Word) = 0
    BY <2>1, <2>2, DivModIs
  <2>4. 0 + (Word * 0) = 0 /\ 8 * 0 = 0
    BY <2>1
  <2>5. <<0, 0>>[1] = 0 /\ <<0, 0>>[2] = 0
    OBVIOUS
  <2> QED BY <2>1, <2>3, <2>4, <2>5 DEF Counts
<1>4. Index(c) = 0
  <2>1. (<<0, 0>>[1] \div 8) % Block = 0 % Block
    BY <1>3, IndexOfCount
  <2>2. 0 % Block = 0
    <3>1. Block \in Nat \ {0} /\ 0 \in Int /\ 0 \in 0..Block - 1 /\ 0 = Block * 0 + 0
      BY WordIs
    <3> QED BY <3>1, DivModIs
  <2> QED BY <1>2, <2>1, <2>2 DEF Index
<1>5. c.state \o SubSeq(c.buffer, 1, Index(c)) = <<>>
  <2>1. SubSeq(c.buffer, 1, 0) = <<>>
    BY SubSeqEmpty
  <2> QED BY <1>2, <1>4, <2>1
<1>6. Len(<<>>) = 0 /\ <<>> \in Seq(Byte)
  OBVIOUS
<1>7. Holds(c, <<>>)
  BY <1>1, <1>2, <1>3, <1>5, <1>6 DEF Holds
<1> QED BY <1>7 DEF buffer

LEMMA StreamSteps == StreamInv /\ [StreamNext]_md5Vars => StreamInv'
<1> SUFFICES ASSUME StreamInv, [StreamNext]_md5Vars PROVE StreamInv'
  OBVIOUS
<1> USE DEF StreamInv
<1>1. CASE Open
  <2>1. PICK byte \in Memory : ctx' = MD5Init([k \in 1..Block |-> byte])
    BY <1>1 DEF Open
  <2>2. byte \in Byte
    BY LengthsAssumption
  <2>3. open' = TRUE /\ message' = <<>> /\ digest' = <<>>
    BY <1>1 DEF Open
  <2>4. Holds(ctx', message')
    BY <2>1, <2>2, <2>3, OpenHolds
  <2>5. message' \in Seq(Byte) /\ Len(message') <= MaxTotal
    BY <2>3, StreamAssumption
  <2> QED BY <2>3, <2>4, <2>5 DEF DigestPadded
<1>2. CASE Update
  <2>1. PICK n \in Lengths : /\ Len(message) + n <= MaxTotal
                             /\ ctx' = MD5Update(ctx, Piece(n))
                             /\ message' = message \o Piece(n)
    BY <1>2 DEF Update
  <2>2. n \in Nat
    BY LengthsAssumption
  <2>3. Piece(n) \in Seq(Byte) /\ Len(Piece(n)) = n
    BY <2>1, <2>2, PieceSeq
  <2>4. open /\ open' = open /\ digest' = digest
    BY <1>2 DEF Update
  <2>5. Holds(ctx', message')
    BY <2>1, <2>3, <2>4, UpdateKeeps
  <2>6. message' \in Seq(Byte) /\ Len(message') <= MaxTotal
    BY <2>1, <2>2, <2>3, ConcatProperties
  <2>7. DigestPadded' /\ digest' = <<>>
    BY <2>4 DEF DigestPadded
  <2> QED BY <2>4, <2>5, <2>6, <2>7
<1>3. CASE Finish
  <2>1. open' = FALSE /\ message' = message /\ digest' = PaddedMessage(message)
    BY <1>3, FinalPads DEF Finish
  <2> QED BY <2>1 DEF DigestPadded
<1>4. CASE UNCHANGED md5Vars
  BY <1>4 DEF md5Vars, DigestPadded
<1> QED BY <1>1, <1>2, <1>3, <1>4 DEF StreamNext

\* In every state of every caller, whatever the message, the pieces and the memory: an
\* open context holds the message given to it so far.
THEOREM StreamInvariant == StreamSpec => []StreamInv
BY StreamStarts, StreamSteps, PTL DEF StreamSpec

\* However a message is cut into pieces, no byte of it is lost, repeated or moved,
\* and the two words of the count are its length in bits (MD5Update).
THEOREM PiecesJoin == StreamSpec => []StreamKept
<1>1. StreamInv => StreamKept
  BY DEF StreamInv, StreamKept, Holds, Counts
<1> QED BY <1>1, StreamInvariant, PTL

\* MD5Final pads every message as the standard says: padLen and the order of the
\* two words of the count are right for every length.
THEOREM Padding == StreamSpec => []DigestPadded
<1>1. StreamInv => DigestPadded
  BY DEF StreamInv
<1> QED BY <1>1, StreamInvariant, PTL
=============================================================================
