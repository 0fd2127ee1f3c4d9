--------------------------- MODULE DatagramProofs ---------------------------
(***************************************************************************)
(* Theorems about Datagram, for every header whose fields have the widths  *)
(* they are declared with, every pair of ports, every payload a datagram   *)
(* can hold, and every damage: what is sent has standard checksums, what   *)
(* arrives undamaged is what was sent, and a damaged word is noticed but   *)
(* for the cases Invisible names.  First sums of words, then the two       *)
(* headers byte for byte, then one word that becomes another, then the     *)
(* machine.                                                                *)
(***************************************************************************)
EXTENDS Datagram, NatFacts, SequenceTheorems

-----------------------------------------------------------------------------
(*****************************************************************************)
(* Sums by halves: SumOf adds the two halves of a sequence; it yields the  *)
(* sum one gets by adding one after the other (Prefixes).                  *)
(*****************************************************************************)

\* P[i] is the sum of the first i numbers of w.
Prefixes(w, P) ==
  /\ P \in [0..Len(w) -> Int] /\ P[0] = 0
  /\ \A i \in 1..Len(w) : P[i] = P[i - 1] + w[i]

\* What the prefix sums are, element by element.
LEMMA PrefixFacts ==
  ASSUME NEW w \in Seq(Int), NEW P, Prefixes(w, P)
  PROVE  /\ \A i \in 0..Len(w) : P[i] \in Int
         /\ \A i \in 1..Len(w) : P[i] = P[i - 1] + w[i] /\ w[i] \in Int
         /\ P[0] = 0
<1>1. \A i \in 0..Len(w) : P[i] \in Int
  BY DEF Prefixes
<1>2. \A i \in 1..Len(w) : P[i] = P[i - 1] + w[i]
  BY DEF Prefixes
<1>3. \A i \in 1..Len(w) : w[i] \in Int
  OBVIOUS
<1>4. P[0] = 0
  BY DEF Prefixes
<1> QED BY <1>1, <1>2, <1>3, <1>4

\* Every sequence of integers has prefix sums.
LEMMA PrefixesExist ==
  ASSUME NEW w \in Seq(Int)
  PROVE  \E P : Prefixes(w, P)
<1> DEFINE Upto(n, P) == /\ P \in [0..n -> Int] /\ P[0] = 0
                         /\ \A i \in 1..n : i <= Len(w) => P[i] = P[i - 1] + w[i]
           S == {n \in Nat : \E P : Upto(n, P)}
<1>1. 0 \in S
  <2>1. Upto(0, [i \in 0..0 |-> 0])
    OBVIOUS
  <2> QED BY <2>1
<1>2. ASSUME NEW n \in Nat, n \in S PROVE n + 1 \in S
  <2>1. PICK P : Upto(n, P)
    BY <1>2
  <2> DEFINE x == IF n + 1 <= Len(w) THEN P[n] + w[n + 1] ELSE 0
             R == [i \in 0..n + 1 |-> IF i = n + 1 THEN x ELSE P[i]]
  <2>2. x \in Int
    <3>1. P[n] \in Int
      BY <2>1
    <3>2. n + 1 <= Len(w) => w[n + 1] \in Int
      OBVIOUS
    <3> QED BY <3>1, <3>2
  <2>3. R \in [0..n + 1 -> Int] /\ R[0] = 0 /\ R[n + 1] = x /\ \A i \in 0..n : R[i] = P[i]
    <3> HIDE DEF x
    <3> QED BY <2>1, <2>2
  <2>4. \A i \in 1..n + 1 : i <= Len(w) => R[i] = R[i - 1] + w[i]
    <3> SUFFICES ASSUME NEW i \in 1..n + 1, i <= Len(w) PROVE R[i] = R[i - 1] + w[i]
      OBVIOUS
    <3> HIDE DEF R
    <3>1. CASE i \in 1..n
      BY <2>1, <2>3, <3>1
    <3>2. CASE i = n + 1
      BY <2>3, <3>2
    <3> QED BY <3>1, <3>2
  <2>5. Upto(n + 1, R)
    <3> HIDE DEF R
    <3> QED BY <2>3, <2>4
  <2> HIDE DEF Upto, R
  <2> QED BY <2>5
<1>3. PICK P : Upto(Len(w), P)
  <2> HIDE DEF Upto
  <2>1. Len(w) \in S
    <3> HIDE DEF S
    <3> QED BY <1>1, <1>2, NatInduct
  <2> QED BY <2>1
<1> QED BY <1>3 DEF Prefixes

\* The function SumOf defines, of the parts of w.
IsSum(w, f) ==
  f = [part \in (1..Len(w)) \X (1..Len(w)) |->
         LET middle == (part[1] + part[2]) \div 2
         IN  IF part[1] = part[2] THEN w[part[1]]
             ELSE f[<<part[1], middle>>] + f[<<middle + 1, part[2]>>]]

\* SumOf is well defined: the recursion by halves has a solution.
LEMMA SumExists ==
  ASSUME NEW w \in Seq(Int), w # <<>>
  PROVE  \E f : IsSum(w, f) /\ SumOf(w) = f[<<1, Len(w)>>]
<1>1. PICK P : Prefixes(w, P)
  BY PrefixesExist
<1> DEFINE I == 1..Len(w)
           f == [part \in I \X I |-> P[part[2]] - P[part[1] - 1]]
<1>0. \A a, b \in I : f[<<a, b>>] = P[b] - P[a - 1]
  OBVIOUS
<1>a. Len(w) \in Nat /\ \A a \in I : P[a - 1] \in Int /\ P[a] \in Int /\ P[a] = P[a - 1] + w[a]
  <2>1. \A i \in 0..Len(w) : P[i] \in Int
    BY <1>1 DEF Prefixes
  <2>2. \A a \in I : a \in 0..Len(w) /\ a - 1 \in 0..Len(w)
    OBVIOUS
  <2>3. \A a \in I : P[a] = P[a - 1] + w[a]
    BY <1>1 DEF Prefixes
  <2> HIDE DEF I
  <2> QED BY <2>1, <2>2, <2>3
<1>b. f = [part \in I \X I |-> f[part]]
  OBVIOUS
<1> HIDE DEF f
<1>2. ASSUME NEW a \in I, NEW b \in I
      PROVE  f[<<a, b>>] = LET middle == (a + b) \div 2
                           IN  IF a = b THEN w[a] ELSE f[<<a, middle>>] + f[<<middle + 1, b>>]
  <2> DEFINE m == (a + b) \div 2
  <2>2. CASE a = b
    <3>1. P[a] \in Int /\ P[a - 1] \in Int /\ P[a] = P[a - 1] + w[a] /\ f[<<a, a>>] = P[a] - P[a - 1]
      BY <1>0, <1>a
    <3>2. w[a] \in Int
      OBVIOUS
    <3> QED BY <2>2, <3>1, <3>2
  <2>3. CASE a # b
    <3>1. m \in I /\ m + 1 \in I /\ (m + 1) - 1 = m
      BY <1>a, <2>3
    <3> HIDE DEF m
    <3>2. f[<<a, m>>] = P[m] - P[a - 1]
      BY <1>0, <3>1
    <3>3. f[<<m + 1, b>>] = P[b] - P[m]
      BY <1>0, <3>1
    <3>4. P[m] \in Int /\ P[a - 1] \in Int /\ P[b] \in Int /\ f[<<a, b>>] = P[b] - P[a - 1]
      BY <1>0, <1>a, <3>1
    <3>5. f[<<a, b>>] = f[<<a, m>>] + f[<<m + 1, b>>]
      BY <3>2, <3>3, <3>4
    <3> QED BY <2>3, <3>5 DEF m
  <2> QED BY <2>2, <2>3
<1>3. IsSum(w, f)
  <2>1. ASSUME NEW part \in I \X I
        PROVE  f[part] = LET middle == (part[1] + part[2]) \div 2
                         IN  IF part[1] = part[2] THEN w[part[1]]
                             ELSE f[<<part[1], middle>>] + f[<<middle + 1, part[2]>>]
    <3>1. part = <<part[1], part[2]>> /\ part[1] \in I /\ part[2] \in I
      OBVIOUS
    <3>2. f[<<part[1], part[2]>>]
            = LET middle == (part[1] + part[2]) \div 2
              IN  IF part[1] = part[2] THEN w[part[1]]
                  ELSE f[<<part[1], middle>>] + f[<<middle + 1, part[2]>>]
      BY <1>2, <3>1
    <3> QED BY <3>1, <3>2
  <2>2. f = [part \in I \X I |-> LET middle == (part[1] + part[2]) \div 2
                           IN  IF part[1] = part[2] THEN w[part[1]]
                               ELSE f[<<part[1], middle>>] + f[<<middle + 1, part[2]>>]]
    BY <1>b, <2>1
  <2> QED BY <2>2 DEF IsSum
<1> QED BY <1>3 DEF SumOf, IsSum

\* Adding by halves gives the same sum as adding one after the other.
LEMMA SumIsPrefix ==
  ASSUME NEW w \in Seq(Int), NEW P, Prefixes(w, P)
  PROVE  SumOf(w) = P[Len(w)]
<1>1. CASE w = <<>>
  BY <1>1 DEF SumOf, Prefixes
<1>2. CASE w # <<>>
  <2>1. PICK f : IsSum(w, f) /\ SumOf(w) = f[<<1, Len(w)>>]
    BY <1>2, SumExists
  <2> DEFINE I == 1..Len(w)
             S == {n \in Nat : \A a, b \in I : a <= b /\ b - a <= n => f[<<a, b>>] = P[b] - P[a - 1]}
  <2>2. \A a, b \in I : f[<<a, b>>] = LET middle == (a + b) \div 2
                                      IN  IF a = b THEN w[a] ELSE f[<<a, middle>>] + f[<<middle + 1, b>>]
    BY <2>1 DEF IsSum
  <2>3. Len(w) \in Nat /\ \A a \in I : P[a - 1] \in Int /\ P[a] \in Int /\ w[a] \in Int
                                       /\ P[a] = P[a - 1] + w[a]
    <3>1. \A i \in 0..Len(w) : P[i] \in Int
      BY DEF Prefixes
    <3>2. \A a \in I : a \in 0..Len(w) /\ a - 1 \in 0..Len(w) /\ w[a] \in Int
      OBVIOUS
    <3>3. \A a \in I : P[a] = P[a - 1] + w[a]
      BY DEF Prefixes
    <3> HIDE DEF I
    <3> QED BY <3>1, <3>2, <3>3
  <2>4. ASSUME NEW a \in I PROVE f[<<a, a>>] = P[a] - P[a - 1]
    <3>1. f[<<a, a>>] = w[a]
      BY <2>2
    <3> HIDE DEF I
    <3> QED BY <2>3, <3>1
  <2>5. 0 \in S
    <3> SUFFICES ASSUME NEW a \in I, NEW b \in I, a <= b, b - a <= 0 PROVE f[<<a, b>>] = P[b] - P[a - 1]
      OBVIOUS
    <3>1. a = b
      BY <2>3
    <3> QED BY <2>4, <3>1
  <2>6. ASSUME NEW n \in Nat, n \in S PROVE n + 1 \in S
    <3> SUFFICES ASSUME NEW a \in I, NEW b \in I, a <= b, b - a <= n + 1
                 PROVE  f[<<a, b>>] = P[b] - P[a - 1]
      BY SMTT(60)
    <3>1. CASE a = b
      BY <2>4, <3>1
    <3>2. CASE a # b
      <4> DEFINE m == (a + b) \div 2
      <4>1. m \in I /\ m + 1 \in I /\ (m + 1) - 1 = m /\ a <= m /\ m + 1 <= b /\ m - a <= n /\ b - (m + 1) <= n
        BY <2>3, <3>2
      <4>2. f[<<a, b>>] = f[<<a, m>>] + f[<<m + 1, b>>]
        BY <2>2, <3>2
      <4> HIDE DEF m
      <4>3. f[<<a, m>>] = P[m] - P[a - 1] /\ f[<<m + 1, b>>] = P[b] - P[m]
        BY <2>6, <4>1
      <4>4. P[m] \in Int /\ P[a - 1] \in Int /\ P[b] \in Int
        <5> HIDE DEF I
        <5> QED BY <2>3, <4>1
      <4> QED BY <4>2, <4>3, <4>4, SMTT(60)
    <3> QED BY <3>1, <3>2
  <2>7. Len(w) \in S
    <3> HIDE DEF S
    <3> QED BY <2>3, <2>5, <2>6, NatInduct
  <2>8. 1 \in I /\ Len(w) \in I /\ 1 <= Len(w) /\ Len(w) - 1 <= Len(w)
    BY <1>2
  <2>9. f[<<1, Len(w)>>] = P[Len(w)] - P[0]
    BY <2>7, <2>8
  <2> QED BY <2>1, <2>3, <2>8, <2>9 DEF Prefixes
<1> QED BY <1>1, <1>2

\* A sum of integers is one.
LEMMA SumInt ==
  ASSUME NEW w \in Seq(Int)
  PROVE  SumOf(w) \in Int
<1>1. PICK P : Prefixes(w, P)
  BY PrefixesExist
<1>2. P[Len(w)] \in Int
  BY <1>1 DEF Prefixes
<1> QED BY <1>1, <1>2, SumIsPrefix

\* The sum of two sequences one behind the other.
LEMMA SumAdds ==
  ASSUME NEW u \in Seq(Int), NEW v \in Seq(Int)
  PROVE  SumOf(u \o v) = SumOf(u) + SumOf(v)
<1> DEFINE k == Len(u)
           n == Len(v)
           w == u \o v
<1>1. PICK P : Prefixes(u, P)
  BY PrefixesExist
<1>2. PICK Q : Prefixes(v, Q)
  BY PrefixesExist
<1>3. /\ w \in Seq(Int) /\ Len(w) = k + n /\ k \in Nat /\ n \in Nat
      /\ \A i \in 1..k + n : w[i] = IF i <= k THEN u[i] ELSE v[i - k]
  BY ConcatProperties
<1> HIDE DEF w
<1> DEFINE R == [i \in 0..k + n |-> IF i <= k THEN P[i] ELSE P[k] + Q[i - k]]
<1>4. /\ \A i \in 0..k : P[i] \in Int
      /\ \A i \in 1..k : P[i] = P[i - 1] + u[i] /\ u[i] \in Int
      /\ P[0] = 0
  BY <1>1, PrefixFacts
<1>5. /\ \A i \in 0..n : Q[i] \in Int
      /\ \A i \in 1..n : Q[i] = Q[i - 1] + v[i] /\ v[i] \in Int
      /\ Q[0] = 0
  BY <1>2, PrefixFacts
<1>6. \A i \in 0..k + n : R[i] = IF i <= k THEN P[i] ELSE P[k] + Q[i - k]
  OBVIOUS
<1> HIDE DEF k, n
<1>7. ASSUME NEW i \in 0..k + n PROVE R[i] \in Int
  <2>1. CASE i <= k
    BY <1>3, <1>4, <1>6, <2>1
  <2>2. CASE ~ (i <= k)
    <3>1. i - k \in 0..n /\ k \in 0..k
      BY <1>3, <2>2
    <3> QED BY <1>4, <1>5, <1>6, <2>2, <3>1
  <2> QED BY <2>1, <2>2
<1>8. ASSUME NEW i \in 1..k + n PROVE R[i] = R[i - 1] + w[i]
  <2>1. CASE i <= k
    <3>1. i \in 0..k + n /\ i - 1 \in 0..k + n /\ i - 1 <= k /\ i \in 1..k
      BY <1>3, <2>1
    <3>2. R[i] = P[i] /\ R[i - 1] = P[i - 1] /\ w[i] = u[i]
      BY <1>3, <1>6, <2>1, <3>1
    <3> QED BY <1>4, <3>1, <3>2
  <2>2. CASE i = k + 1
    <3>1. i \in 0..k + n /\ i - 1 = k /\ k \in 0..k + n /\ k <= k /\ ~ (i <= k) /\ i - k = 1 /\ 1 \in 1..n
          /\ 1 - 1 = 0
      BY <1>3, <2>2
    <3>2. R[i] = P[k] + Q[1] /\ R[i - 1] = P[k] /\ w[i] = v[1]
      BY <1>3, <1>6, <3>1
    <3>3. Q[1] = Q[0] + v[1] /\ v[1] \in Int /\ Q[0] = 0 /\ P[k] \in Int
      BY <1>3, <1>4, <1>5, <3>1, SMTT(60)
    <3> QED BY <3>2, <3>3
  <2>3. CASE i > k + 1
    <3>1. i \in 0..k + n /\ i - 1 \in 0..k + n /\ ~ (i <= k) /\ ~ (i - 1 <= k) /\ i - k \in 1..n
          /\ (i - 1) - k = (i - k) - 1 /\ (i - k) - 1 \in 0..n
      BY <1>3, <2>3
    <3>2. R[i] = P[k] + Q[i - k] /\ R[i - 1] = P[k] + Q[(i - k) - 1] /\ w[i] = v[i - k]
      BY <1>3, <1>6, <3>1
    <3>3. Q[i - k] = Q[(i - k) - 1] + v[i - k] /\ v[i - k] \in Int /\ Q[(i - k) - 1] \in Int
      BY <1>5, <3>1
    <3>4. P[k] \in Int
      BY <1>3, <1>4
    <3> QED BY <3>2, <3>3, <3>4
  <2> QED BY <1>3, <2>1, <2>2, <2>3
<1>9. Prefixes(w, R)
  <2>1. R \in [0..Len(w) -> Int]
    BY <1>3, <1>7
  <2>2. R[0] = 0
    BY <1>3, <1>4, <1>6
  <2> HIDE DEF R
  <2> QED BY <1>3, <1>8, <2>1, <2>2 DEF Prefixes
<1>10. SumOf(w) = R[k + n] /\ SumOf(u) = P[k] /\ SumOf(v) = Q[n]
  <2> HIDE DEF R
  <2> QED BY <1>1, <1>2, <1>3, <1>9, SumIsPrefix DEF k, n
<1>11. R[k + n] = P[k] + Q[n]
  <2>1. CASE n = 0
    <3>1. k + n = k /\ k \in 0..k /\ k \in 0..k + n /\ k <= k
      BY <1>3, <2>1
    <3> QED BY <1>4, <1>5, <1>6, <2>1, <3>1
  <2>2. CASE n # 0
    <3>1. k + n \in 0..k + n /\ ~ (k + n <= k) /\ (k + n) - k = n
      BY <1>3, <2>2
    <3> QED BY <1>6, <3>1
  <2> QED BY <2>1, <2>2
<1> QED BY <1>10, <1>11 DEF w

\* The sum of one number.
LEMMA SumOne ==
  ASSUME NEW x \in Int
  PROVE  SumOf(<<x>>) = x
<1> DEFINE P == [i \in 0..1 |-> IF i = 0 THEN 0 ELSE x]
<1>1. <<x>> \in Seq(Int) /\ Len(<<x>>) = 1 /\ <<x>>[1] = x
  OBVIOUS
<1>2. P \in [0..1 -> Int] /\ P[0] = 0 /\ P[1] = x
  OBVIOUS
<1> HIDE DEF P
<1>3. Prefixes(<<x>>, P)
  BY <1>1, <1>2 DEF Prefixes
<1> QED BY <1>1, <1>2, <1>3, SumIsPrefix

\* The sum of numbers of at most m each.
LEMMA SumBound ==
  ASSUME NEW m \in Nat, NEW w \in Seq(Int), \A i \in 1..Len(w) : w[i] \in Nat /\ w[i] <= m
  PROVE  SumOf(w) \in Nat /\ SumOf(w) <= m * Len(w)
<1>1. w \in Seq(Int) /\ Len(w) \in Nat /\ \A i \in 1..Len(w) : w[i] \in 0..m
  OBVIOUS
<1>2. PICK P : Prefixes(w, P)
  BY <1>1, PrefixesExist
<1> DEFINE S == {i \in 0..Len(w) : P[i] \in 0..m * i}
<1>3. 0 \in S
  BY <1>1, <1>2 DEF Prefixes
<1>4. \A i \in 0..Len(w) : i < Len(w) /\ i \in S => i + 1 \in S
  <2> TAKE i \in 0..Len(w)
  <2> HAVE i < Len(w) /\ i \in S
  <2>1. i + 1 \in 1..Len(w) /\ (i + 1) - 1 = i /\ i \in Nat
    BY <1>1
  <2>2. P[i + 1] = P[i] + w[i + 1] /\ w[i + 1] \in 0..m
    BY <1>1, <1>2, <2>1 DEF Prefixes
  <2>3. m * (i + 1) = m * i + m /\ m * i \in Nat
    BY <2>1
  <2>4. P[i] \in 0..m * i
    OBVIOUS
  <2>5. P[i + 1] \in 0..m * (i + 1)
    BY <2>2, <2>3, <2>4
  <2> QED BY <2>1, <2>5
<1>5. Len(w) \in S
  <2>1. \A i \in 0..Len(w) : i \in S
    <3> HIDE DEF S
    <3> QED BY <1>1, <1>3, <1>4, UpTo
  <2>2. Len(w) \in 0..Len(w)
    BY <1>1
  <2> QED BY <2>1, <2>2
<1> QED BY <1>1, <1>2, <1>5, SumIsPrefix

-----------------------------------------------------------------------------
(*****************************************************************************)
(* Bytes and words                                                         *)
(*****************************************************************************)

\* What \div and % yield.
LEMMA DivMod ==
  ASSUME NEW a \in Int, NEW b \in Nat \ {0}
  PROVE  a \div b \in Int /\ a % b \in 0..b - 1 /\ a = b * (a \div b) + (a % b)
OBVIOUS

Bytes == Seq(U8)
Even(b) == Len(b) % 2 = 0

\* Byte strings one behind the other, however they are bracketed.
LEMMA BytesAssociative ==
  ASSUME NEW a \in Seq(U8), NEW b \in Seq(U8), NEW c \in Seq(U8)
  PROVE  (a \o b) \o c = a \o (b \o c)
BY ConcatAssociative

\* The sum of the 16-bit words of a byte string.
ByteSum(b) == SumOf(WordsOf(b))

\* What lies in a byte string.
LEMMA ByteAt ==
  ASSUME NEW b \in Bytes, NEW i \in 1..Len(b)
  PROVE  b[i] \in U8 /\ b[i] \in 0..255
BY ElementOfSeq DEF Bytes, U8

\* U16 without its bounds as an interval.
LEMMA U16Is ==
  ASSUME NEW z
  PROVE  z \in U16 <=> z \in Nat /\ z <= 65535
<1> DEFINE m == 65535
<1>1. m \in Nat
  BY SMTT(30)
<1>2. U16 = 0..m
  BY DEF U16
<1> HIDE DEF m
<1>3. z \in U16 <=> z \in Nat /\ z <= m
  BY <1>1, <1>2
<1> QED BY <1>3 DEF m

\* Two bytes make a word.
LEMMA WordOfBytes ==
  ASSUME NEW x \in 0..255, NEW y \in 0..255
  PROVE  256 * x + y \in U16
<1> DEFINE z == 256 * x + y
<1>1. z \in Nat /\ z <= 65535
  BY SMTT(30)
<1> HIDE DEF z
<1>2. z \in U16
  BY <1>1, U16Is
<1> QED BY <1>2 DEF z

\* The words of a byte string, each by its two bytes.
LEMMA WordsFacts ==
  ASSUME NEW b \in Bytes
  PROVE  /\ WordsOf(b) \in Seq(U16)
         /\ Len(WordsOf(b)) = Len(b) \div 2
         /\ \A i \in 1..Len(b) \div 2 : WordsOf(b)[i] = 256 * b[2 * i - 1] + b[2 * i]
<1> DEFINE n == Len(b) \div 2
<1>1. n \in Nat /\ 2 * n <= Len(b)
  OBVIOUS
<1>2. ASSUME NEW i \in 1..n
      PROVE  2 * i - 1 \in 1..Len(b) /\ 2 * i \in 1..Len(b)
             /\ DECODE_U16(b, 2 * i - 1) = 256 * b[2 * i - 1] + b[2 * i]
  <2>1. 2 * i - 1 \in 1..Len(b) /\ 2 * i \in 1..Len(b) /\ (2 * i - 1) + 1 = 2 * i
    BY <1>1
  <2> QED BY <2>1 DEF DECODE_U16
<1>3. \A i \in 1..n : WordsOf(b)[i] = 256 * b[2 * i - 1] + b[2 * i]
  BY <1>2, SMTT(60) DEF WordsOf
<1>4. ASSUME NEW i \in 1..n PROVE 256 * b[2 * i - 1] + b[2 * i] \in U16
  <2>1. b[2 * i - 1] \in 0..255 /\ b[2 * i] \in 0..255
    BY <1>2, ByteAt
  <2> QED BY <2>1, WordOfBytes, ZenonT(60)
<1>5. WordsOf(b) \in [1..n -> U16]
  BY <1>2, <1>4 DEF WordsOf
<1> HIDE DEF n
<1>6. WordsOf(b) \in Seq(U16) /\ Len(WordsOf(b)) = n
  BY <1>1, <1>5
<1> QED BY <1>3, <1>6 DEF n

\* Halving a sum whose first part is even.
LEMMA HalfFacts ==
  ASSUME NEW m \in Nat, NEW n \in Nat, m % 2 = 0
  PROVE  /\ m \div 2 \in Nat /\ m = 2 * (m \div 2)
         /\ n \div 2 \in Nat
         /\ (m + n) \div 2 = (m \div 2) + (n \div 2)
         /\ (m + n) % 2 = n % 2
OBVIOUS

\* Behind an even number of bytes the words stay aligned.
LEMMA WordsAdd ==
  ASSUME NEW a \in Bytes, NEW b \in Bytes, Even(a)
  PROVE  WordsOf(a \o b) = WordsOf(a) \o WordsOf(b)
<1> DEFINE m == Len(a)
           n == Len(b)
           h == m \div 2
           k == n \div 2
           c == a \o b
<1>1. /\ c \in Bytes /\ Len(c) = m + n /\ m \in Nat /\ n \in Nat
      /\ \A i \in 1..m + n : c[i] = IF i <= m THEN a[i] ELSE b[i - m]
  BY ConcatProperties DEF Bytes
<1> HIDE DEF c
<1>2. h \in Nat /\ k \in Nat /\ m = 2 * h /\ 2 * k <= n /\ (m + n) \div 2 = h + k
  BY HalfFacts DEF Even
<1>3. /\ WordsOf(a) \in Seq(U16) /\ Len(WordsOf(a)) = h
      /\ \A i \in 1..h : WordsOf(a)[i] = 256 * a[2 * i - 1] + a[2 * i]
  BY WordsFacts
<1>4. /\ WordsOf(b) \in Seq(U16) /\ Len(WordsOf(b)) = k
      /\ \A i \in 1..k : WordsOf(b)[i] = 256 * b[2 * i - 1] + b[2 * i]
  BY WordsFacts
<1> HIDE DEF h, k, m, n
<1>5. /\ WordsOf(c) \in Seq(U16) /\ Len(WordsOf(c)) = h + k
      /\ \A i \in 1..h + k : WordsOf(c)[i] = 256 * c[2 * i - 1] + c[2 * i]
  <2>1. Len(c) \div 2 = h + k
    BY <1>1, <1>2
  <2>2. /\ WordsOf(c) \in Seq(U16) /\ Len(WordsOf(c)) = Len(c) \div 2
        /\ \A i \in 1..Len(c) \div 2 : WordsOf(c)[i] = 256 * c[2 * i - 1] + c[2 * i]
    BY <1>1, WordsFacts, ZenonT(60)
  <2> QED BY <2>1, <2>2
<1> DEFINE both == WordsOf(a) \o WordsOf(b)
<1>6. /\ both \in Seq(U16) /\ Len(both) = h + k
      /\ \A i \in 1..h + k : both[i] = IF i <= h THEN WordsOf(a)[i] ELSE WordsOf(b)[i - h]
  <2> DEFINE u == WordsOf(a)
             v == WordsOf(b)
  <2>1. u \in Seq(U16) /\ v \in Seq(U16) /\ Len(u) = h /\ Len(v) = k
    BY <1>3, <1>4
  <2> HIDE DEF u, v
  <2>2. /\ u \o v \in Seq(U16) /\ Len(u \o v) = Len(u) + Len(v)
        /\ \A i \in 1..Len(u) + Len(v) : (u \o v)[i] = IF i <= Len(u) THEN u[i] ELSE v[i - Len(u)]
    BY <2>1, ConcatProperties
  <2> QED BY <2>1, <2>2 DEF u, v
<1> HIDE DEF both
<1>7. ASSUME NEW i \in 1..h + k PROVE WordsOf(c)[i] = both[i]
  <2>1. 2 * i - 1 \in 1..m + n /\ 2 * i \in 1..m + n
    BY <1>1, <1>2
  <2>2. CASE i <= h
    <3>1. 2 * i - 1 <= m /\ 2 * i <= m /\ i \in 1..h
      BY <1>2, <2>2
    <3>2. c[2 * i - 1] = a[2 * i - 1] /\ c[2 * i] = a[2 * i]
      BY <1>1, <2>1, <3>1
    <3> QED BY <1>3, <1>5, <1>6, <2>2, <3>1, <3>2
  <2>3. CASE ~ (i <= h)
    <3>1. ~ (2 * i - 1 <= m) /\ ~ (2 * i <= m) /\ i - h \in 1..k
          /\ (2 * i - 1) - m = 2 * (i - h) - 1 /\ 2 * i - m = 2 * (i - h)
      BY <1>2, <2>3
    <3>2. c[2 * i - 1] = b[2 * (i - h) - 1] /\ c[2 * i] = b[2 * (i - h)]
      BY <1>1, <2>1, <3>1
    <3> QED BY <1>4, <1>5, <1>6, <2>3, <3>1, <3>2
  <2> QED BY <2>2, <2>3
<1>8. WordsOf(c) = both
  BY <1>5, <1>6, <1>7, SeqEqual
<1> QED BY <1>8 DEF both, c

\* The sums of what is sent one behind the other add up.
LEMMA ByteSumAdds ==
  ASSUME NEW a \in Bytes, NEW b \in Bytes, Even(a)
  PROVE  /\ a \o b \in Bytes /\ Len(a \o b) = Len(a) + Len(b)
         /\ ByteSum(a \o b) = ByteSum(a) + ByteSum(b)
         /\ Even(b) => Even(a \o b)
<1>1. a \o b \in Bytes /\ Len(a \o b) = Len(a) + Len(b)
  BY ConcatProperties DEF Bytes
<1>2. WordsOf(a) \in Seq(Int) /\ WordsOf(b) \in Seq(Int)
  <2>1. U16 \subseteq Int
    BY DEF U16
  <2> QED BY <2>1, WordsFacts, SeqMonotonic
<1>3. ByteSum(a \o b) = ByteSum(a) + ByteSum(b)
  BY <1>2, WordsAdd, SumAdds DEF ByteSum
<1>4. Even(b) => Even(a \o b)
  <2>1. Len(a) \in Nat /\ Len(b) \in Nat
    BY DEF Bytes
  <2> QED BY <1>1, <2>1, HalfFacts DEF Even
<1> QED BY <1>1, <1>3, <1>4

MaxWord == 65535

\* The sum of the words is a natural, and bounded by their number.
LEMMA ByteSumNat ==
  ASSUME NEW b \in Bytes
  PROVE  ByteSum(b) \in Nat /\ ByteSum(b) <= MaxWord * (Len(b) \div 2)
<1> DEFINE w == WordsOf(b)
<1>1. w \in Seq(U16) /\ Len(w) = Len(b) \div 2
  BY WordsFacts
<1> HIDE DEF w
<1>2. MaxWord \in Nat /\ \A v \in U16 : v \in Int /\ v \in Nat /\ v <= MaxWord
  BY SMTT(30) DEF U16, MaxWord
<1>3. w \in Seq(Int)
  <2>1. U16 \subseteq Int
    BY <1>2
  <2> QED BY <1>1, <2>1, SeqMonotonic
<1>4. \A i \in 1..Len(w) : w[i] \in Nat /\ w[i] <= MaxWord
  BY <1>1, <1>2, ElementOfSeq
<1>5. SumOf(w) \in Nat /\ SumOf(w) <= MaxWord * Len(w)
  BY <1>2, <1>3, <1>4, SumBound
<1> QED BY <1>1, <1>5 DEF ByteSum, w

\* Two bytes as a byte string.
LEMMA PairFacts ==
  ASSUME NEW x \in U8, NEW y \in U8
  PROVE  /\ <<x, y>> \in Bytes /\ Len(<<x, y>>) = 2 /\ Even(<<x, y>>)
         /\ <<x, y>>[1] = x /\ <<x, y>>[2] = y
         /\ ByteSum(<<x, y>>) = 256 * x + y
<1>1. <<x, y>> \in Bytes /\ Len(<<x, y>>) = 2 /\ <<x, y>>[1] = x /\ <<x, y>>[2] = y
  BY DEF Bytes
<1>2. Even(<<x, y>>)
  BY <1>1 DEF Even
<1> DEFINE w == 256 * x + y
<1>3. w \in Int
  BY DEF U8
<1>4. WordsOf(<<x, y>>) = <<w>>
  <2> DEFINE p == <<x, y>>
  <2>1. Len(p) \div 2 = 1
    BY <1>1
  <2>2. /\ WordsOf(p) \in Seq(U16) /\ Len(WordsOf(p)) = 1
        /\ \A i \in 1..1 : WordsOf(p)[i] = 256 * p[2 * i - 1] + p[2 * i]
    BY <1>1, <2>1, WordsFacts, ZenonT(60)
  <2>3. WordsOf(p)[1] = w
    BY <1>1, <2>2
  <2>4. <<w>> \in Seq(Int) /\ Len(<<w>>) = 1 /\ <<w>>[1] = w
    BY <1>3
  <2>5. WordsOf(p) \in Seq(Int)
    <3>1. U16 \subseteq Int
      BY DEF U16
    <3> QED BY <2>2, <3>1, SeqMonotonic
  <2> HIDE DEF p, w
  <2>6. WordsOf(p) = <<w>>
    <3>1. \A i \in 1..Len(WordsOf(p)) : WordsOf(p)[i] = <<w>>[i]
      BY <2>2, <2>3, <2>4
    <3> QED BY <2>2, <2>4, <2>5, <3>1, SeqEqual
  <2> QED BY <2>6 DEF p
<1>5. ByteSum(<<x, y>>) = w
  <2> HIDE DEF w
  <2> QED BY <1>3, <1>4, SumOne DEF ByteSum
<1> QED BY <1>1, <1>2, <1>5

\* Two bytes of an integer, and the integer again.
LEMMA U16Facts ==
  ASSUME NEW v \in U16
  PROVE  /\ ENCODE_U16(v) \in Bytes /\ Len(ENCODE_U16(v)) = 2 /\ Even(ENCODE_U16(v))
         /\ ENCODE_U16(v)[1] = v \div 256 /\ ENCODE_U16(v)[2] = v % 256
         /\ 256 * (v \div 256) + (v % 256) = v
         /\ ByteSum(ENCODE_U16(v)) = v
<1>1. v \div 256 \in U8 /\ v % 256 \in U8 /\ 256 * (v \div 256) + (v % 256) = v
  <2>1. v \in Nat /\ v <= 65535
    BY U16Is
  <2>2. v \div 256 \in U8
    BY <2>1, SMTT(30) DEF U8
  <2>3. v % 256 \in U8
    BY <2>1, SMTT(30) DEF U8
  <2>4. 256 * (v \div 256) + (v % 256) = v
    BY <2>1, SMTT(30)
  <2> QED BY <2>2, <2>3, <2>4
<1> QED BY <1>1, PairFacts DEF ENCODE_U16

-----------------------------------------------------------------------------
(*****************************************************************************)
(* Behind an even number of bytes; the checksum of a sum, and what it      *)
(* completes the sum to                                                    *)
(*****************************************************************************)

\* What is put behind a byte string of even length.
LEMMA Behind ==
  ASSUME NEW p \in Bytes, NEW q \in Bytes, Even(p)
  PROVE  /\ p \o q \in Bytes /\ Len(p \o q) = Len(p) + Len(q)
         /\ ByteSum(p \o q) = ByteSum(p) + ByteSum(q)
         /\ \A i \in 1..Len(p) : (p \o q)[i] = p[i]
         /\ \A j \in 1..Len(q) : (p \o q)[Len(p) + j] = q[j]
         /\ Even(q) => Even(p \o q)
<1> DEFINE n == Len(p)
           k == Len(q)
           r == p \o q
<1>1. n \in Nat /\ k \in Nat /\ \A i \in 1..n + k : r[i] = IF i <= n THEN p[i] ELSE q[i - n]
  BY ConcatProperties DEF Bytes
<1> HIDE DEF n, k, r
<1>2. \A i \in 1..n : r[i] = p[i]
  <2>1. \A i \in 1..n : i \in 1..n + k /\ i <= n
    BY <1>1
  <2> QED BY <1>1, <2>1
<1>3. \A j \in 1..k : r[n + j] = q[j]
  <2>1. \A j \in 1..k : n + j \in 1..n + k /\ ~ (n + j <= n) /\ (n + j) - n = j
    BY <1>1
  <2> QED BY <1>1, <2>1
<1> QED BY <1>2, <1>3, ByteSumAdds DEF n, k, r

-----------------------------------------------------------------------------
\* The carry goes in once or twice; either way the sum stays the same modulo 65535.
LEMMA CheckSumFits ==
  ASSUME NEW sum \in Int
  PROVE  CHECK_SUM(sum) \in U16
<1> DEFINE a == ADD_CARRY_FOR_CHKSUM(sum)
           b == AddOnce(sum) + Carry(AddOnce(sum))
<1>1. Carry(sum) \in Int
  BY SMTT(30) DEF Carry
<1>2. AddOnce(sum) \in Int
  BY <1>1, SMTT(30) DEF AddOnce
<1>3. Carry(AddOnce(sum)) \in Int
  <2> DEFINE x == AddOnce(sum)
  <2>1. x \in Int
    BY <1>2
  <2> HIDE DEF x
  <2>2. Carry(x) \in Int
    BY <2>1, SMTT(30) DEF Carry
  <2> QED BY <2>2 DEF x
<1>4. b \in Int
  BY <1>2, <1>3
<1>5. a = b % 65536
  BY DEF ADD_CARRY_FOR_CHKSUM
<1> HIDE DEF a, b
<1>6. a \in Int /\ 0 <= a /\ a <= 65535
  BY <1>4, <1>5, SMTT(30)
<1> DEFINE c == CHECK_SUM(sum)
<1>7. c = 65535 - a
  BY SMTT(30) DEF CHECK_SUM, a
<1> HIDE DEF c
<1>8. c \in Nat /\ c <= 65535
  BY <1>6, <1>7, SMTT(30)
<1>9. c \in U16
  BY <1>8, U16Is
<1> QED BY <1>9 DEF c

\* A carry of at most 8 bits.
Fits(sum) == sum \div 65536 <= 255

\* Below 2^24 the carry has at most 8 bits.
LEMMA FitsBelow ==
  ASSUME NEW m \in Nat, NEW n \in Nat, m <= n
  PROVE  n < 16777216 => Fits(m)
BY SMTT(30) DEF Fits

\* High and low half of a number of at most 17 bits.
LEMMA Folded ==
  ASSUME NEW x \in Nat
  PROVE  /\ x < 65536 => x \div 65536 = 0 /\ x % 65536 = x
         /\ x >= 65536 /\ x < 131072 => x \div 65536 = 1 /\ x % 65536 = x - 65536
BY SMTT(30)

\* With its checksum added, a sum whose carry fits becomes a multiple of 65535.
LEMMA CheckSumCompletes ==
  ASSUME NEW sum \in Nat, Fits(sum)
  PROVE  \E k \in Nat \ {0} : sum + CHECK_SUM(sum) = 65535 * k
<1> DEFINE h == sum \div 65536
           l == sum % 65536
<1>1. h \in 0..255 /\ l \in Nat /\ l <= 65535 /\ sum = 65536 * h + l
  <2>1. h \in Int /\ l \in Int /\ 0 <= l /\ l <= 65535 /\ sum = 65536 * h + l
    BY SMTT(30)
  <2>2. h <= 255
    BY DEF Fits
  <2> HIDE DEF h, l
  <2>3. 0 <= h
    BY <2>1, SMTT(30)
  <2>4. h \in 0..255
    BY <2>1, <2>2, <2>3, SMTT(30)
  <2> QED BY <2>1, <2>4, SMTT(30)
<1>2. Carry(sum) = h
  <2>1. \A x \in 0..255 : x % 256 = x
    BY SMTT(30)
  <2> QED BY <1>1, <2>1, SMTT(30) DEF Carry
<1>3. AddOnce(sum) = h + l
  BY <1>2 DEF AddOnce
<1> HIDE DEF h, l
<1>4. CASE h + l < 65536
  <2>1. (h + l) \div 65536 = 0 /\ (h + l) % 65536 = h + l
    <3>1. h + l \in Nat
      BY <1>1
    <3> QED BY <1>4, <3>1, Folded
  <2>2. Carry(h + l) = 0
    BY <2>1, SMTT(30) DEF Carry
  <2>3. AddOnce(sum) + Carry(AddOnce(sum)) = h + l
    BY <1>1, <1>3, <2>2, SMTT(30)
  <2>4. ADD_CARRY_FOR_CHKSUM(sum) = h + l
    BY <2>1, <2>3 DEF ADD_CARRY_FOR_CHKSUM
  <2>5. CHECK_SUM(sum) = 65535 - (h + l)
    BY <2>4 DEF CHECK_SUM
  <2>6. h + 1 \in Nat \ {0} /\ sum + CHECK_SUM(sum) = 65535 * (h + 1)
    BY <1>1, <2>5, SMTT(30)
  <2> QED BY <2>6
<1>5. CASE ~ (h + l < 65536)
  <2>1. (h + l) \div 65536 = 1 /\ (h + l + 1) % 65536 = h + l - 65535
    <3>1. h + l \in Nat /\ h + l + 1 \in Nat /\ h + l >= 65536 /\ h + l < 131072
          /\ h + l + 1 >= 65536 /\ h + l + 1 < 131072 /\ h + l + 1 - 65536 = h + l - 65535
      BY <1>1, <1>5, SMTT(30)
    <3> QED BY <3>1, Folded, SMTT(30)
  <2>2. Carry(h + l) = 1
    BY <2>1, SMTT(30) DEF Carry
  <2>3. AddOnce(sum) + Carry(AddOnce(sum)) = h + l + 1
    BY <1>1, <1>3, <2>2, SMTT(30)
  <2>4. ADD_CARRY_FOR_CHKSUM(sum) = h + l - 65535
    BY <2>1, <2>3 DEF ADD_CARRY_FOR_CHKSUM
  <2>5. CHECK_SUM(sum) = 65535 - (h + l - 65535)
    BY <2>4 DEF CHECK_SUM
  <2>6. h + 2 \in Nat \ {0} /\ sum + CHECK_SUM(sum) = 65535 * (h + 2)
    BY <1>1, <2>5, SMTT(30)
  <2> QED BY <2>6
<1> QED BY <1>4, <1>5

\* The sum of RFC 1071 of such a multiple is all ones.
LEMMA OnesSumOfMultiple ==
  ASSUME NEW words, NEW k \in Nat \ {0}, SumOf(words) = 65535 * k
  PROVE  OnesSum(words) = 65535
<1> DEFINE sum == SumOf(words)
<1>1. sum \in Int /\ sum # 0 /\ sum - 1 = 65535 * (k - 1) + 65534
  BY SMTT(30)
<1> HIDE DEF sum
<1>2. (sum - 1) % 65535 = 65534
  BY <1>1, SMTT(30)
<1>3. 1 + 65534 = 65535
  BY SMTT(30)
<1> QED BY <1>1, <1>2, <1>3, SMTT(30) DEF OnesSum, sum

\* An address is four bytes.
LEMMA AddrFacts ==
  ASSUME NEW a \in Addrs
  PROVE  a \in Bytes /\ Len(a) = 4 /\ Even(a) /\ ByteSum(a) \in Nat
<1>1. \A n \in Nat : \A f \in [1..n -> U8] : f \in Seq(U8) /\ Len(f) = n
  OBVIOUS
<1>2. a \in Bytes /\ Len(a) = 4
  BY <1>1 DEF Addrs, Bytes
<1>3. 4 % 2 = 0
  OBVIOUS
<1> QED BY <1>2, <1>3, ByteSumNat DEF Even

-----------------------------------------------------------------------------
(*****************************************************************************)
(* The header of IP                                                        *)
(*****************************************************************************)

\* The sum of five numbers.
LEMMA SumFive ==
  ASSUME NEW a \in Int, NEW b \in Int, NEW c \in Int, NEW d \in Int, NEW e \in Int
  PROVE  <<a, b, c, d, e>> \in Seq(Int) /\ SumOf(<<a, b, c, d, e>>) = a + b + c + d + e
<1> DEFINE w == <<a, b, c, d, e>>
           P == [i \in 0..5 |-> CASE i = 0 -> 0 [] i = 1 -> a [] i = 2 -> a + b
                                  [] i = 3 -> a + b + c [] i = 4 -> a + b + c + d
                                  [] i = 5 -> a + b + c + d + e]
<1>1. w \in Seq(Int) /\ Len(w) = 5 /\ w[1] = a /\ w[2] = b /\ w[3] = c /\ w[4] = d /\ w[5] = e
  OBVIOUS
<1>2. /\ P[0] = 0 /\ P[1] = a /\ P[2] = a + b /\ P[3] = a + b + c /\ P[4] = a + b + c + d
      /\ P[5] = a + b + c + d + e
  OBVIOUS
<1>3. P = [i \in 0..5 |-> P[i]]
  OBVIOUS
<1> HIDE DEF w, P
<1>4. \A i \in 0..5 : i = 0 \/ i = 1 \/ i = 2 \/ i = 3 \/ i = 4 \/ i = 5
  OBVIOUS
<1>5. \A i \in 0..5 : P[i] \in Int
  BY <1>2, <1>4
<1>6. P \in [0..5 -> Int]
  BY <1>3, <1>5
<1>7. \A i \in 1..5 : P[i] = P[i - 1] + w[i]
  <2>1. P[1] = P[0] + w[1] /\ P[2] = P[1] + w[2] /\ P[3] = P[2] + w[3]
        /\ P[4] = P[3] + w[4] /\ P[5] = P[4] + w[5]
    BY <1>1, <1>2
  <2>2. 1 - 1 = 0 /\ 2 - 1 = 1 /\ 3 - 1 = 2 /\ 4 - 1 = 3 /\ 5 - 1 = 4
    OBVIOUS
  <2>3. \A i \in 1..5 : i = 1 \/ i = 2 \/ i = 3 \/ i = 4 \/ i = 5
    OBVIOUS
  <2> QED BY <2>1, <2>2, <2>3
<1>8. Prefixes(w, P)
  BY <1>1, <1>2, <1>6, <1>7 DEF Prefixes
<1> QED BY <1>1, <1>2, <1>8, SumIsPrefix DEF w

\* What CHKSUM_IP_HDR takes the checksum of.
HeaderSum(ip) == SumOf(HeaderWords(ip) \o WordsOf(ip.opt_pad))

FiveSum(ip) ==
  (256 * (16 * ip.ver + ip.IHL) + ip.tos) + ip.total_len + ip.id + flag_frag(ip)
    + (256 * ip.ttl + ip.proto)

\* The fields have their widths.
Fits16(ip) == FieldsFit(ip) /\ ip.total_len \in U16

\* Each byte and each word of a header has its width.
LEMMA FieldFacts ==
  ASSUME NEW ip, Fits16(ip)
  PROVE  /\ 16 * ip.ver + ip.IHL \in U8 /\ ip.tos \in U8 /\ ip.ttl \in U8 /\ ip.proto \in U8
         /\ ip.total_len \in U16 /\ ip.id \in U16 /\ flag_frag(ip) \in U16
         /\ ip.IHL \in 5..15
<1>1. ip.ver = 4 /\ ip.IHL \in 5..15
  BY SMTT(60) DEF Fits16, FieldsFit, IP_VERSION
<1>2. 16 * ip.ver + ip.IHL \in U8
  BY <1>1 DEF U8
<1>3. ip.flag \in 0..7 /\ ip.frag_off \in 0..8191
  BY SMTT(30) DEF Fits16, FieldsFit
<1>4. flag_frag(ip) \in U16
  <2> DEFINE x == ip.flag
             y == ip.frag_off
  <2>1. x \in 0..7 /\ y \in 0..8191
    BY <1>3
  <2> HIDE DEF x, y
  <2>2. 8192 * x + y \in U16
    <3> DEFINE z == 8192 * x + y
    <3>1. x \in Int /\ y \in Int /\ 0 <= x /\ x <= 7 /\ 0 <= y /\ y <= 8191
      BY <2>1, SMTT(30)
    <3>2. z \in Nat /\ z <= 65535
      BY <3>1, SMTT(30)
    <3> HIDE DEF z
    <3>3. z \in U16
      BY <3>2, U16Is
    <3> QED BY <3>3 DEF z
  <2> QED BY <2>2 DEF flag_frag, x, y
<1> QED BY <1>1, <1>2, <1>4 DEF Fits16, FieldsFit

\* The sum of a header is the sum of its parts.
LEMMA HeaderSumIs ==
  ASSUME NEW ip, Fits16(ip)
  PROVE  /\ HeaderSum(ip) = FiveSum(ip) + ByteSum(ip.cSA) + ByteSum(ip.cDA) + ByteSum(ip.opt_pad)
         /\ HeaderSum(ip) \in Nat /\ FiveSum(ip) \in Nat
<1> DEFINE five == <<256 * (16 * ip.ver + ip.IHL) + ip.tos, ip.total_len, ip.id, flag_frag(ip),
                     256 * ip.ttl + ip.proto>>
           s == WordsOf(ip.cSA)
           d == WordsOf(ip.cDA)
           o == WordsOf(ip.opt_pad)
<1>1. \A v \in U16 : v \in Int /\ v \in Nat
  BY SMTT(30) DEF U16
<1>2. \A v \in U8 : v \in Int /\ v \in Nat
  BY SMTT(30) DEF U8
<1>3. five \in Seq(Int) /\ SumOf(five) = FiveSum(ip) /\ FiveSum(ip) \in Nat
  <2> DEFINE a == 256 * (16 * ip.ver + ip.IHL) + ip.tos
             b == ip.total_len
             c == ip.id
             d2 == flag_frag(ip)
             e == 256 * ip.ttl + ip.proto
  <2>1. a \in Nat /\ b \in Nat /\ c \in Nat /\ d2 \in Nat /\ e \in Nat
    BY <1>1, <1>2, FieldFacts
  <2>2. five = <<a, b, c, d2, e>> /\ FiveSum(ip) = a + b + c + d2 + e
    BY DEF FiveSum
  <2> HIDE DEF a, b, c, d2, e, five
  <2>3. a \in Int /\ b \in Int /\ c \in Int /\ d2 \in Int /\ e \in Int
    BY <2>1
  <2>4. <<a, b, c, d2, e>> \in Seq(Int) /\ SumOf(<<a, b, c, d2, e>>) = a + b + c + d2 + e
    BY <2>3, SumFive, SMTT(30)
  <2>5. a + b + c + d2 + e \in Nat
    BY <2>1
  <2> QED BY <2>2, <2>4, <2>5
<1>4. \A b \in Bytes : WordsOf(b) \in Seq(Int) /\ SumOf(WordsOf(b)) = ByteSum(b)
  <2>1. U16 \subseteq Int
    BY <1>1
  <2> QED BY <2>1, WordsFacts, SeqMonotonic DEF ByteSum
<1>5. ip.cSA \in Bytes /\ ip.cDA \in Bytes /\ ip.opt_pad \in Bytes
  BY AddrFacts DEF Fits16, FieldsFit, Bytes
<1>6. s \in Seq(Int) /\ d \in Seq(Int) /\ o \in Seq(Int)
      /\ SumOf(s) = ByteSum(ip.cSA) /\ SumOf(d) = ByteSum(ip.cDA) /\ SumOf(o) = ByteSum(ip.opt_pad)
  BY <1>4, <1>5
<1>7. HeaderSum(ip) = SumOf(((five \o s) \o d) \o o)
  BY DEF HeaderSum, HeaderWords
<1> HIDE DEF five, s, d, o
<1>8. five \o s \in Seq(Int) /\ (five \o s) \o d \in Seq(Int)
  BY <1>3, <1>6, ConcatProperties
<1>9. SumOf(((five \o s) \o d) \o o) = SumOf(five) + SumOf(s) + SumOf(d) + SumOf(o)
  <2> DEFINE u == five \o s
             v == u \o d
  <2>1. SumOf(u) = SumOf(five) + SumOf(s) /\ u \in Seq(Int) /\ v \in Seq(Int)
    BY <1>3, <1>6, <1>8, SumAdds
  <2> HIDE DEF u
  <2>2. SumOf(v) = SumOf(u) + SumOf(d)
    BY <1>6, <2>1, SumAdds
  <2> HIDE DEF v
  <2>3. SumOf(v \o o) = SumOf(v) + SumOf(o)
    BY <1>6, <2>1, SumAdds
  <2> QED BY <2>1, <2>2, <2>3 DEF u, v
<1>10. ByteSum(ip.cSA) \in Nat /\ ByteSum(ip.cDA) \in Nat /\ ByteSum(ip.opt_pad) \in Nat
  BY <1>5, ByteSumNat
<1> QED BY <1>3, <1>6, <1>7, <1>9, <1>10, SMTT(60)

\* The bytes of an encoded header, and their sum.
Wire(ip, p) ==
  /\ p \in Bytes /\ Len(p) = 4 * ip.IHL /\ Even(p)
  /\ ByteSum(p) = HeaderSum(ip) + CHKSUM_IP_HDR(ip)
  /\ p[1] = 16 * ip.ver + ip.IHL /\ p[2] = ip.tos
  /\ p[3] = ip.total_len \div 256 /\ p[4] = ip.total_len % 256
  /\ p[5] = ip.id \div 256 /\ p[6] = ip.id % 256
  /\ p[7] = flag_frag(ip) \div 256 /\ p[8] = flag_frag(ip) % 256
  /\ p[9] = ip.ttl /\ p[10] = ip.proto
  /\ p[11] = CHKSUM_IP_HDR(ip) \div 256 /\ p[12] = CHKSUM_IP_HDR(ip) % 256
  /\ \A j \in 1..4 : p[12 + j] = ip.cSA[j] /\ p[16 + j] = ip.cDA[j]
  /\ \A j \in 1..4 * ip.IHL - 20 : p[20 + j] = ip.opt_pad[j]

\* ENCODE_IP_PKT yields these bytes.
LEMMA EncodedHeader ==
  ASSUME NEW ip, Fits16(ip)
  PROVE  Wire(ip, ENCODE_IP_PKT(ip)) /\ CHKSUM_IP_HDR(ip) \in U16
<1> DEFINE b1 == 16 * ip.ver + ip.IHL
           ff == flag_frag(ip)
           ck == CHKSUM_IP_HDR(ip)
           k == 4 * ip.IHL - 20
<1>0. k \in Nat /\ ip.IHL \in Nat /\ 20 + k = 4 * ip.IHL
  BY FieldFacts
<1>1. b1 \in U8 /\ ip.tos \in U8 /\ ip.ttl \in U8 /\ ip.proto \in U8
      /\ ip.total_len \in U16 /\ ip.id \in U16 /\ ff \in U16 /\ ck \in U16
  <2>1. HeaderSum(ip) \in Int
    BY HeaderSumIs, SMTT(60)
  <2> QED BY <2>1, FieldFacts, CheckSumFits DEF CHKSUM_IP_HDR, HeaderSum
<1>2. /\ ip.cSA \in Bytes /\ Len(ip.cSA) = 4 /\ Even(ip.cSA)
      /\ ip.cDA \in Bytes /\ Len(ip.cDA) = 4 /\ Even(ip.cDA)
      /\ ip.opt_pad \in Bytes /\ Len(ip.opt_pad) = k
  BY AddrFacts DEF Fits16, FieldsFit, Bytes
<1>3. /\ ByteSum(ip.cSA) \in Nat /\ ByteSum(ip.cDA) \in Nat /\ ByteSum(ip.opt_pad) \in Nat
      /\ HeaderSum(ip) = FiveSum(ip) + ByteSum(ip.cSA) + ByteSum(ip.cDA) + ByteSum(ip.opt_pad)
  BY <1>2, ByteSumNat, HeaderSumIs, SMTT(60)
<1>4. \A v \in U16 : v \in Nat
  BY SMTT(30) DEF U16
<1>5. \A v \in U8 : v \in Nat
  BY SMTT(30) DEF U8
<1> DEFINE p1 == <<b1, ip.tos>>
           p2 == p1 \o ENCODE_U16(ip.total_len)
           p3 == p2 \o ENCODE_U16(ip.id)
           p4 == p3 \o ENCODE_U16(ff)
           p5 == p4 \o <<ip.ttl, ip.proto>>
           p6 == p5 \o ENCODE_U16(ck)
           p7 == p6 \o ip.cSA
           p8 == p7 \o ip.cDA
           p9 == p8 \o ip.opt_pad
<1>6. ENCODE_IP_PKT(ip) = p9
  BY DEF ENCODE_IP_PKT
<1> HIDE DEF ck, ff, k
<1>7. /\ p1 \in Bytes /\ Len(p1) = 2 /\ Even(p1)
      /\ ByteSum(p1) = (256 * b1 + ip.tos)
      /\ p1[1] = b1 /\ p1[2] = ip.tos
  BY <1>1, PairFacts
<1> HIDE DEF p1
<1>8. /\ p2 \in Bytes /\ Len(p2) = 4 /\ Even(p2)
      /\ ByteSum(p2) = (256 * b1 + ip.tos) + ip.total_len
      /\ p2[1] = b1 /\ p2[2] = ip.tos
      /\ p2[3] = ip.total_len \div 256 /\ p2[4] = ip.total_len % 256
  <2> DEFINE q == ENCODE_U16(ip.total_len)
  <2>1. q \in Bytes /\ Len(q) = 2 /\ Even(q) /\ ByteSum(q) = ip.total_len
        /\ q[1] = ip.total_len \div 256 /\ q[2] = ip.total_len % 256
    BY <1>1, U16Facts
  <2> HIDE DEF q
  <2>0. p1 \in Bytes /\ Even(p1) /\ q \in Bytes /\ Even(q)
    BY <1>7, <2>1
  <2>a. /\ p1 \o q \in Bytes /\ Len(p1 \o q) = Len(p1) + Len(q)
        /\ ByteSum(p1 \o q) = ByteSum(p1) + ByteSum(q)
        /\ \A i \in 1..Len(p1) : (p1 \o q)[i] = p1[i]
        /\ \A j \in 1..Len(q) : (p1 \o q)[Len(p1) + j] = q[j]
        /\ Even(p1 \o q)
    BY <2>0, Behind
  <2>2. /\ p1 \o q \in Bytes /\ Len(p1 \o q) = 2 + 2
        /\ ByteSum(p1 \o q) = ByteSum(p1) + ByteSum(q)
        /\ \A i \in 1..2 : (p1 \o q)[i] = p1[i]
        /\ \A j \in 1..2 : (p1 \o q)[2 + j] = q[j]
        /\ Even(p1 \o q)
    BY <1>7, <2>1, <2>a
  <2>3. p2 = p1 \o q
    BY DEF q
  <2> HIDE DEF p2
  <2>4. p2[3] = q[1] /\ p2[4] = q[2] /\ \A i \in 1..2 : p2[i] = p1[i]
    <3>1. 2 + 1 = 3 /\ 2 + 2 = 4 /\ 1 \in 1..2 /\ 2 \in 1..2
      OBVIOUS
    <3> QED BY <2>2, <2>3, <3>1
  <2> QED BY <1>7, <2>1, <2>2, <2>3, <2>4
<1> HIDE DEF p2
<1>9. /\ p3 \in Bytes /\ Len(p3) = 6 /\ Even(p3)
      /\ ByteSum(p3) = (256 * b1 + ip.tos) + ip.total_len + ip.id
      /\ p3[1] = b1 /\ p3[2] = ip.tos
      /\ p3[3] = ip.total_len \div 256 /\ p3[4] = ip.total_len % 256
      /\ p3[5] = ip.id \div 256 /\ p3[6] = ip.id % 256
  <2> DEFINE q == ENCODE_U16(ip.id)
  <2>1. q \in Bytes /\ Len(q) = 2 /\ Even(q) /\ ByteSum(q) = ip.id
        /\ q[1] = ip.id \div 256 /\ q[2] = ip.id % 256
    BY <1>1, U16Facts
  <2> HIDE DEF q
  <2>0. p2 \in Bytes /\ Even(p2) /\ q \in Bytes /\ Even(q)
    BY <1>8, <2>1
  <2>a. /\ p2 \o q \in Bytes /\ Len(p2 \o q) = Len(p2) + Len(q)
        /\ ByteSum(p2 \o q) = ByteSum(p2) + ByteSum(q)
        /\ \A i \in 1..Len(p2) : (p2 \o q)[i] = p2[i]
        /\ \A j \in 1..Len(q) : (p2 \o q)[Len(p2) + j] = q[j]
        /\ Even(p2 \o q)
    BY <2>0, Behind
  <2>2. /\ p2 \o q \in Bytes /\ Len(p2 \o q) = 4 + 2
        /\ ByteSum(p2 \o q) = ByteSum(p2) + ByteSum(q)
        /\ \A i \in 1..4 : (p2 \o q)[i] = p2[i]
        /\ \A j \in 1..2 : (p2 \o q)[4 + j] = q[j]
        /\ Even(p2 \o q)
    BY <1>8, <2>1, <2>a
  <2>3. p3 = p2 \o q
    BY DEF q
  <2> HIDE DEF p3
  <2>4. p3[5] = q[1] /\ p3[6] = q[2] /\ \A i \in 1..4 : p3[i] = p2[i]
    <3>1. 4 + 1 = 5 /\ 4 + 2 = 6 /\ 1 \in 1..2 /\ 2 \in 1..2
      OBVIOUS
    <3> QED BY <2>2, <2>3, <3>1
  <2> QED BY <1>8, <2>1, <2>2, <2>3, <2>4
<1> HIDE DEF p3
<1>10. /\ p4 \in Bytes /\ Len(p4) = 8 /\ Even(p4)
       /\ ByteSum(p4) = (256 * b1 + ip.tos) + ip.total_len + ip.id + ff
       /\ p4[1] = b1 /\ p4[2] = ip.tos
       /\ p4[3] = ip.total_len \div 256 /\ p4[4] = ip.total_len % 256
       /\ p4[5] = ip.id \div 256 /\ p4[6] = ip.id % 256
       /\ p4[7] = ff \div 256 /\ p4[8] = ff % 256
  <2> DEFINE q == ENCODE_U16(ff)
  <2>1. q \in Bytes /\ Len(q) = 2 /\ Even(q) /\ ByteSum(q) = ff
        /\ q[1] = ff \div 256 /\ q[2] = ff % 256
    BY <1>1, U16Facts
  <2> HIDE DEF q
  <2>0. p3 \in Bytes /\ Even(p3) /\ q \in Bytes /\ Even(q)
    BY <1>9, <2>1
  <2>a. /\ p3 \o q \in Bytes /\ Len(p3 \o q) = Len(p3) + Len(q)
        /\ ByteSum(p3 \o q) = ByteSum(p3) + ByteSum(q)
        /\ \A i \in 1..Len(p3) : (p3 \o q)[i] = p3[i]
        /\ \A j \in 1..Len(q) : (p3 \o q)[Len(p3) + j] = q[j]
        /\ Even(p3 \o q)
    BY <2>0, Behind
  <2>2. /\ p3 \o q \in Bytes /\ Len(p3 \o q) = 6 + 2
        /\ ByteSum(p3 \o q) = ByteSum(p3) + ByteSum(q)
        /\ \A i \in 1..6 : (p3 \o q)[i] = p3[i]
        /\ \A j \in 1..2 : (p3 \o q)[6 + j] = q[j]
        /\ Even(p3 \o q)
    BY <1>9, <2>1, <2>a
  <2>3. p4 = p3 \o q
    BY DEF q
  <2> HIDE DEF p4
  <2>4. p4[7] = q[1] /\ p4[8] = q[2] /\ \A i \in 1..6 : p4[i] = p3[i]
    <3>1. 6 + 1 = 7 /\ 6 + 2 = 8 /\ 1 \in 1..2 /\ 2 \in 1..2
      OBVIOUS
    <3> QED BY <2>2, <2>3, <3>1
  <2> QED BY <1>9, <2>1, <2>2, <2>3, <2>4, SMTT(60)
<1> HIDE DEF p4
<1>11. /\ p5 \in Bytes /\ Len(p5) = 10 /\ Even(p5)
       /\ ByteSum(p5) = (256 * b1 + ip.tos) + ip.total_len + ip.id + ff + (256 * ip.ttl + ip.proto)
       /\ p5[1] = b1 /\ p5[2] = ip.tos
       /\ p5[3] = ip.total_len \div 256 /\ p5[4] = ip.total_len % 256
       /\ p5[5] = ip.id \div 256 /\ p5[6] = ip.id % 256
       /\ p5[7] = ff \div 256 /\ p5[8] = ff % 256
       /\ p5[9] = ip.ttl /\ p5[10] = ip.proto
  <2> DEFINE q == <<ip.ttl, ip.proto>>
  <2>1. q \in Bytes /\ Len(q) = 2 /\ Even(q) /\ ByteSum(q) = (256 * ip.ttl + ip.proto)
        /\ q[1] = ip.ttl /\ q[2] = ip.proto
    BY <1>1, PairFacts
  <2> HIDE DEF q
  <2>0. p4 \in Bytes /\ Even(p4) /\ q \in Bytes /\ Even(q)
    BY <1>10, <2>1
  <2>a. /\ p4 \o q \in Bytes /\ Len(p4 \o q) = Len(p4) + Len(q)
        /\ ByteSum(p4 \o q) = ByteSum(p4) + ByteSum(q)
        /\ \A i \in 1..Len(p4) : (p4 \o q)[i] = p4[i]
        /\ \A j \in 1..Len(q) : (p4 \o q)[Len(p4) + j] = q[j]
        /\ Even(p4 \o q)
    BY <2>0, Behind
  <2>2. /\ p4 \o q \in Bytes /\ Len(p4 \o q) = 8 + 2
        /\ ByteSum(p4 \o q) = ByteSum(p4) + ByteSum(q)
        /\ \A i \in 1..8 : (p4 \o q)[i] = p4[i]
        /\ \A j \in 1..2 : (p4 \o q)[8 + j] = q[j]
        /\ Even(p4 \o q)
    BY <1>10, <2>1, <2>a, SMTT(60)
  <2>3. p5 = p4 \o q
    BY DEF q
  <2> HIDE DEF p5
  <2>4. p5[9] = q[1] /\ p5[10] = q[2] /\ \A i \in 1..8 : p5[i] = p4[i]
    <3>1. 8 + 1 = 9 /\ 8 + 2 = 10 /\ 1 \in 1..2 /\ 2 \in 1..2
      OBVIOUS
    <3> QED BY <2>2, <2>3, <3>1
  <2> QED BY <1>10, <2>1, <2>2, <2>3, <2>4, SMTT(60)
<1> HIDE DEF p5
<1>12. /\ p6 \in Bytes /\ Len(p6) = 12 /\ Even(p6)
       /\ ByteSum(p6) = (256 * b1 + ip.tos) + ip.total_len + ip.id + ff + (256 * ip.ttl + ip.proto) + ck
       /\ p6[1] = b1 /\ p6[2] = ip.tos
       /\ p6[3] = ip.total_len \div 256 /\ p6[4] = ip.total_len % 256
       /\ p6[5] = ip.id \div 256 /\ p6[6] = ip.id % 256
       /\ p6[7] = ff \div 256 /\ p6[8] = ff % 256
       /\ p6[9] = ip.ttl /\ p6[10] = ip.proto
       /\ p6[11] = ck \div 256 /\ p6[12] = ck % 256
  <2> DEFINE q == ENCODE_U16(ck)
  <2>1. q \in Bytes /\ Len(q) = 2 /\ Even(q) /\ ByteSum(q) = ck
        /\ q[1] = ck \div 256 /\ q[2] = ck % 256
    BY <1>1, U16Facts
  <2> HIDE DEF q
  <2>0. p5 \in Bytes /\ Even(p5) /\ q \in Bytes /\ Even(q)
    BY <1>11, <2>1
  <2>a. /\ p5 \o q \in Bytes /\ Len(p5 \o q) = Len(p5) + Len(q)
        /\ ByteSum(p5 \o q) = ByteSum(p5) + ByteSum(q)
        /\ \A i \in 1..Len(p5) : (p5 \o q)[i] = p5[i]
        /\ \A j \in 1..Len(q) : (p5 \o q)[Len(p5) + j] = q[j]
        /\ Even(p5 \o q)
    BY <2>0, Behind
  <2>2. /\ p5 \o q \in Bytes /\ Len(p5 \o q) = 10 + 2
        /\ ByteSum(p5 \o q) = ByteSum(p5) + ByteSum(q)
        /\ \A i \in 1..10 : (p5 \o q)[i] = p5[i]
        /\ \A j \in 1..2 : (p5 \o q)[10 + j] = q[j]
        /\ Even(p5 \o q)
    BY <1>11, <2>1, <2>a, SMTT(60)
  <2>3. p6 = p5 \o q
    BY DEF q
  <2> HIDE DEF p6
  <2>4. p6[11] = q[1] /\ p6[12] = q[2] /\ \A i \in 1..10 : p6[i] = p5[i]
    <3>1. 10 + 1 = 11 /\ 10 + 2 = 12 /\ 1 \in 1..2 /\ 2 \in 1..2
      OBVIOUS
    <3> QED BY <2>2, <2>3, <3>1
  <2> QED BY <1>11, <2>1, <2>2, <2>3, <2>4, SMTT(60)
<1> HIDE DEF p6
<1>13. /\ p7 \in Bytes /\ Len(p7) = 12 + 4 /\ ByteSum(p7) = ByteSum(p6) + ByteSum(ip.cSA)
       /\ \A i \in 1..12 : p7[i] = p6[i]
       /\ \A j \in 1..4 : p7[12 + j] = ip.cSA[j]
       /\ Even(ip.cSA) => Even(p7)
  <2>1. Len(p6) = 12 /\ Len(ip.cSA) = 4
    BY <1>0, <1>2, <1>12
  <2>2. /\ p7 \in Bytes /\ Len(p7) = Len(p6) + Len(ip.cSA) /\ ByteSum(p7) = ByteSum(p6) + ByteSum(ip.cSA)
        /\ \A i \in 1..Len(p6) : p7[i] = p6[i]
        /\ \A j \in 1..Len(ip.cSA) : p7[Len(p6) + j] = ip.cSA[j]
        /\ Even(ip.cSA) => Even(p7)
    <3>1. p6 \in Bytes /\ Even(p6) /\ ip.cSA \in Bytes
      BY <1>2, <1>12
    <3> QED BY <3>1, Behind
  <2> QED BY <2>1, <2>2
<1> HIDE DEF p7
<1>14. /\ p8 \in Bytes /\ Len(p8) = 16 + 4 /\ ByteSum(p8) = ByteSum(p7) + ByteSum(ip.cDA)
       /\ \A i \in 1..16 : p8[i] = p7[i]
       /\ \A j \in 1..4 : p8[16 + j] = ip.cDA[j]
       /\ Even(ip.cDA) => Even(p8)
  <2>1. Len(p7) = 16 /\ Len(ip.cDA) = 4
    BY <1>0, <1>2, <1>13
  <2>2. /\ p8 \in Bytes /\ Len(p8) = Len(p7) + Len(ip.cDA) /\ ByteSum(p8) = ByteSum(p7) + ByteSum(ip.cDA)
        /\ \A i \in 1..Len(p7) : p8[i] = p7[i]
        /\ \A j \in 1..Len(ip.cDA) : p8[Len(p7) + j] = ip.cDA[j]
        /\ Even(ip.cDA) => Even(p8)
    <3>1. p7 \in Bytes /\ Even(p7) /\ ip.cDA \in Bytes
      BY <1>2, <1>13
    <3> QED BY <3>1, Behind
  <2> QED BY <2>1, <2>2
<1> HIDE DEF p8
<1>15. /\ p9 \in Bytes /\ Len(p9) = 20 + k /\ ByteSum(p9) = ByteSum(p8) + ByteSum(ip.opt_pad)
       /\ \A i \in 1..20 : p9[i] = p8[i]
       /\ \A j \in 1..k : p9[20 + j] = ip.opt_pad[j]
       /\ Even(ip.opt_pad) => Even(p9)
  <2>1. Len(p8) = 20 /\ Len(ip.opt_pad) = k
    BY <1>0, <1>2, <1>14
  <2>2. /\ p9 \in Bytes /\ Len(p9) = Len(p8) + Len(ip.opt_pad) /\ ByteSum(p9) = ByteSum(p8) + ByteSum(ip.opt_pad)
        /\ \A i \in 1..Len(p8) : p9[i] = p8[i]
        /\ \A j \in 1..Len(ip.opt_pad) : p9[Len(p8) + j] = ip.opt_pad[j]
        /\ Even(ip.opt_pad) => Even(p9)
    <3>1. p8 \in Bytes /\ Even(p8) /\ ip.opt_pad \in Bytes
      BY <1>2, <1>14
    <3> QED BY <3>1, Behind
  <2> QED BY <2>1, <2>2
<1> HIDE DEF p9
<1>16. Even(p9) /\ Len(p9) = 4 * ip.IHL
  <2>1. (4 * ip.IHL) % 2 = 0
    BY <1>0
  <2> QED BY <1>0, <1>15, <2>1 DEF Even
<1>17. \A i \in 1..12 : p9[i] = p6[i]
  BY <1>13, <1>14, <1>15, SMTT(60)
<1>18. \A j \in 1..4 : p9[12 + j] = ip.cSA[j] /\ p9[16 + j] = ip.cDA[j]
  <2>1. \A j \in 1..4 : 12 + j \in 1..16 /\ 12 + j \in 1..20 /\ 16 + j \in 1..20
    OBVIOUS
  <2> QED BY <1>13, <1>14, <1>15, <2>1, SMTT(60)
<1>19. ByteSum(p9) = HeaderSum(ip) + ck
  <2>1. FiveSum(ip) = (256 * b1 + ip.tos) + ip.total_len + ip.id + ff + (256 * ip.ttl + ip.proto)
    BY DEF FiveSum, ff
  <2> DEFINE x == 256 * b1 + ip.tos
             y == 256 * ip.ttl + ip.proto
  <2>2. x \in Int /\ y \in Int /\ ip.total_len \in Int /\ ip.id \in Int /\ ff \in Int /\ ck \in Int
    BY <1>1, <1>4, <1>5
  <2>3. ByteSum(p6) = x + ip.total_len + ip.id + ff + y + ck
    BY <1>12
  <2>4. FiveSum(ip) = x + ip.total_len + ip.id + ff + y
    BY <2>1
  <2>5. ByteSum(p6) = FiveSum(ip) + ck /\ FiveSum(ip) \in Int
    <3> HIDE DEF x, y
    <3> QED BY <2>2, <2>3, <2>4
  <2>6. ByteSum(p9) = ByteSum(p6) + ByteSum(ip.cSA) + ByteSum(ip.cDA) + ByteSum(ip.opt_pad)
    BY <1>13, <1>14, <1>15
  <2> QED BY <1>3, <2>2, <2>5, <2>6
<1>20. Wire(ip, p9)
  <2>1. \A i \in 1..12 : i \in 1..12
    OBVIOUS
  <2>2. p9[1] = b1 /\ p9[2] = ip.tos /\ p9[3] = ip.total_len \div 256 /\ p9[4] = ip.total_len % 256
        /\ p9[5] = ip.id \div 256 /\ p9[6] = ip.id % 256 /\ p9[7] = ff \div 256 /\ p9[8] = ff % 256
        /\ p9[9] = ip.ttl /\ p9[10] = ip.proto /\ p9[11] = ck \div 256 /\ p9[12] = ck % 256
    BY <1>12, <1>17
  <2> QED BY <1>15, <1>16, <1>18, <1>19, <2>2 DEF Wire, ff, ck, k
<1> QED BY <1>1, <1>6, <1>20 DEF ck

-----------------------------------------------------------------------------
(*****************************************************************************)
(* The header of UDP: the payload is made even before it is summed up      *)
(*****************************************************************************)

\* A part of a byte string.
LEMMA Part ==
  ASSUME NEW c \in Bytes, NEW a \in Bytes, NEW m \in Nat,
         m + Len(a) <= Len(c), \A i \in 1..Len(a) : c[m + i] = a[i]
  PROVE  SubSeq(c, m + 1, m + Len(a)) = a
<1> DEFINE e == m + 1
           f == m + Len(a)
           s == SubSeq(c, e, f)
           n == Len(a)
<1>1. n \in Nat /\ a \in Seq(U8) /\ Len(a) = n
  BY DEF Bytes
<1>2. e \in Int /\ f \in Int
  BY <1>1
<1>3. \A i \in e..f : c[i] \in U8
  <2>1. \A i \in e..f : i \in 1..Len(c)
    BY <1>1 DEF Bytes
  <2> HIDE DEF e, f
  <2> QED BY <2>1, ByteAt
<1>4. /\ s \in Seq(U8) /\ Len(s) = IF e <= f THEN f - e + 1 ELSE 0
      /\ \A i \in 1..f - e + 1 : s[i] = c[e + i - 1]
  <2> HIDE DEF e, f
  <2> QED BY <1>2, <1>3, SubSeqProperties
<1>5. f - e + 1 = n /\ (e <= f <=> n # 0) /\ \A i \in 1..n : e + i - 1 = m + i
  BY <1>1
<1> HIDE DEF s, e, f
<1>6. Len(s) = n /\ \A i \in 1..n : s[i] = c[m + i]
  BY <1>1, <1>4, <1>5
<1>7. \A i \in 1..n : s[i] = a[i]
  BY <1>6
<1> HIDE DEF n
<1>8. s = a
  BY <1>1, <1>4, <1>6, <1>7, SeqEqual
<1> QED BY <1>8 DEF s, e, f

\* The two parts of a byte string of two.
LEMMA Split ==
  ASSUME NEW a \in Bytes, NEW b \in Bytes
  PROVE  /\ SubSeq(a \o b, 1, Len(a)) = a
         /\ SubSeq(a \o b, Len(a) + 1, Len(a \o b)) = b
<1> DEFINE n == Len(a)
           k == Len(b)
           c == a \o b
<1>1. /\ n \in Nat /\ k \in Nat /\ c \in Bytes /\ Len(c) = n + k
      /\ \A i \in 1..n + k : c[i] = IF i <= n THEN a[i] ELSE b[i - n]
  BY ConcatProperties DEF Bytes
<1>2. Len(a) = n /\ Len(b) = k
  OBVIOUS
<1> HIDE DEF n, k, c
<1>3. \A i \in 1..n : c[0 + i] = a[i]
  <2>1. \A i \in 1..n : 0 + i = i /\ i \in 1..n + k
    BY <1>1
  <2> QED BY <1>1, <2>1
<1>4. \A i \in 1..k : c[n + i] = b[i]
  <2>1. \A i \in 1..k : n + i \in 1..n + k /\ (n + i) - n = i /\ ~ (n + i <= n)
    BY <1>1
  <2> QED BY <1>1, <2>1
<1>5. SubSeq(c, 1, n) = a
  <2>1. c \in Bytes /\ a \in Bytes /\ 0 \in Nat /\ 0 + Len(a) <= Len(c)
    BY <1>1, <1>2
  <2>2. \A i \in 1..Len(a) : c[0 + i] = a[i]
    BY <1>2, <1>3
  <2>3. SubSeq(c, 0 + 1, 0 + Len(a)) = a
    BY <2>1, <2>2, Part
  <2>4. 0 + 1 = 1 /\ 0 + Len(a) = n
    BY <1>1, <1>2
  <2> QED BY <2>3, <2>4
<1>6. SubSeq(c, n + 1, n + k) = b
  <2>1. c \in Bytes /\ b \in Bytes /\ n \in Nat /\ n + Len(b) <= Len(c)
    BY <1>1, <1>2
  <2>2. \A i \in 1..Len(b) : c[n + i] = b[i]
    BY <1>2, <1>4
  <2>3. SubSeq(c, n + 1, n + Len(b)) = b
    BY <2>1, <2>2, Part
  <2> QED BY <1>2, <2>3
<1> QED BY <1>1, <1>5, <1>6 DEF n, c

EvenPad(p) == IF Len(p) % 2 = 1 THEN Append(p, 0) ELSE p

\* A payload made even, with a 0.
LEMMA EvenPadFacts ==
  ASSUME NEW p \in Bytes
  PROVE  /\ EvenPad(p) \in Bytes /\ Even(EvenPad(p))
         /\ Len(EvenPad(p)) = Len(p) + (Len(p) % 2)
         /\ \A i \in 1..Len(p) : EvenPad(p)[i] = p[i]
         /\ Len(p) % 2 = 1 => EvenPad(p)[Len(p) + 1] = 0
<1>1. Len(p) \in Nat /\ (Len(p) % 2 = 0 \/ Len(p) % 2 = 1)
  BY DEF Bytes
<1>2. 0 \in U8
  BY DEF U8
<1>3. CASE Len(p) % 2 = 1
  <2>1. EvenPad(p) = Append(p, 0)
    BY <1>3 DEF EvenPad
  <2>2. /\ EvenPad(p) \in Bytes /\ Len(EvenPad(p)) = Len(p) + 1
        /\ \A i \in 1..Len(p) : EvenPad(p)[i] = p[i]
        /\ EvenPad(p)[Len(p) + 1] = 0
    BY <1>2, <2>1, AppendProperties DEF Bytes
  <2>3. Even(EvenPad(p))
    BY <1>1, <1>3, <2>2 DEF Even
  <2> QED BY <1>3, <2>2, <2>3
<1>4. CASE Len(p) % 2 = 0
  <2>1. EvenPad(p) = p /\ ~ (Len(p) % 2 = 1)
    BY <1>4 DEF EvenPad
  <2>2. Len(p) = Len(p) + (Len(p) % 2)
    BY <1>1, <1>4
  <2> QED BY <1>4, <2>1, <2>2 DEF Even
<1> QED BY <1>1, <1>3, <1>4

\* Whatever lies behind the payload, the checksum takes a 0 for it.
LEMMA PaddedBody ==
  ASSUME NEW p \in Bytes, NEW data \in Bytes,
         Len(data) >= Len(p) + (Len(p) % 2), \A i \in 1..Len(p) : data[i] = p[i]
  PROVE  /\ Padded(data, Len(p)) \in Bytes /\ Len(Padded(data, Len(p))) = Len(data)
         /\ \A i \in 1..Len(p) : Padded(data, Len(p))[i] = p[i]
         /\ SubSeq(Padded(data, Len(p)), 1, Len(p) + (Len(p) % 2)) = EvenPad(p)
<1> DEFINE n == Len(p)
           r == n % 2
           d == Padded(data, n)
<1>1. n \in Nat /\ r \in {0, 1} /\ n + r \in Nat /\ Len(data) \in Nat /\ n + r <= Len(data)
  BY DEF Bytes
<1>2. /\ d \in Bytes /\ Len(d) = Len(data)
      /\ \A i \in 1..Len(data) : i # n + 1 => d[i] = data[i]
      /\ r = 1 => d[n + 1] = 0
  <2>1. CASE r = 1
    <3>1. n + 1 \in 1..Len(data) /\ 0 \in U8
      BY <1>1, <2>1 DEF U8
    <3>2. d = [data EXCEPT ![n + 1] = 0]
      BY <2>1 DEF Padded
    <3> HIDE DEF n, d
    <3>3. /\ d \in Seq(U8) /\ Len(d) = Len(data)
          /\ \A j \in 1..Len(data) : d[j] = IF j = n + 1 THEN 0 ELSE data[j]
      BY <3>1, <3>2, ExceptSeq DEF Bytes
    <3> QED BY <3>1, <3>3 DEF Bytes
  <2>2. CASE r = 0
    BY <2>2 DEF Padded
  <2> QED BY <1>1, <2>1, <2>2
<1>3. /\ EvenPad(p) \in Seq(U8) /\ Len(EvenPad(p)) = n + r
      /\ \A i \in 1..n : EvenPad(p)[i] = p[i] /\ data[i] = p[i]
      /\ r = 1 => EvenPad(p)[n + 1] = 0
  BY EvenPadFacts DEF Bytes
<1> HIDE DEF n, r, d
<1>4. \A i \in 1..n + r : d[i] = EvenPad(p)[i] /\ d[i] \in U8
  <2>1. \A i \in 1..n + r : i \in 1..n \/ (r = 1 /\ i = n + 1)
    BY <1>1
  <2>2. \A i \in 1..n : d[i] = p[i]
    <3>1. \A i \in 1..n : i \in 1..Len(data) /\ i # n + 1
      BY <1>1
    <3> QED BY <1>2, <1>3, <3>1
  <2>3. \A i \in 1..n + r : i \in 1..Len(d)
    BY <1>1, <1>2
  <2>4. \A i \in 1..n + r : d[i] \in U8
    BY <1>2, <2>3, ByteAt
  <2>5. \A i \in 1..n + r : d[i] = EvenPad(p)[i]
    BY <1>2, <1>3, <2>1, <2>2
  <2> QED BY <2>4, <2>5
<1>5. \A i \in 1..n : d[i] = p[i]
  <2>1. \A i \in 1..n : i \in 1..n + r
    BY <1>1
  <2> QED BY <1>3, <1>4, <2>1
<1>6. SubSeq(d, 1, n + r) = EvenPad(p)
  <2> DEFINE q == EvenPad(p)
  <2>1. d \in Bytes /\ q \in Bytes /\ 0 \in Nat /\ 0 + Len(q) <= Len(d) /\ Len(q) = n + r
    BY <1>1, <1>2, <1>3 DEF Bytes
  <2>2. \A i \in 1..Len(q) : d[0 + i] = q[i]
    <3>1. \A i \in 1..n + r : 0 + i = i
      BY <1>1
    <3> QED BY <1>3, <1>4, <3>1
  <2> HIDE DEF q
  <2>3. SubSeq(d, 0 + 1, 0 + Len(q)) = q
    BY <2>1, <2>2, Part
  <2>4. 0 + 1 = 1 /\ 0 + Len(q) = n + r
    BY <1>1, <2>1
  <2> QED BY <2>3, <2>4 DEF q
<1> QED BY <1>2, <1>5, <1>6 DEF n, r, d

Ports(udp) == udp.src \in U16 /\ udp.dst \in U16 /\ udp.len \in U16

\* What CHKSUM_UDP takes the checksum of.
UdpSum(ip, udp, p) ==
  ByteSum(ip.cSA) + ByteSum(ip.cDA) + (PROTO_TYPE_UDP + udp.len + udp.src + udp.dst + udp.len)
    + ByteSum(EvenPad(p))

\* CHKSUM_UDP depends on the payload and on nothing behind it.
LEMMA UdpChecksum ==
  ASSUME NEW ip, NEW udp, NEW p \in Bytes, NEW data \in Bytes,
         ip.cSA \in Addrs, ip.cDA \in Addrs, Ports(udp), udp.len = UDP_HDR_LEN + Len(p),
         Len(data) >= Len(p) + (Len(p) % 2), \A i \in 1..Len(p) : data[i] = p[i]
  PROVE  CHKSUM_UDP(ip, udp, data) = CHECK_SUM(UdpSum(ip, udp, p)) /\ UdpSum(ip, udp, p) \in Nat
<1> DEFINE n == udp.len - UDP_HDR_LEN
           s == WordsOf(ip.cSA)
           d == WordsOf(ip.cDA)
           five == <<PROTO_TYPE_UDP, udp.len, udp.src, udp.dst, udp.len>>
           b == WordsOf(EvenPad(p))
<1>1. n = Len(p)
  BY DEF UDP_HDR_LEN, Bytes
<1>2. SubSeq(Padded(data, n), 1, n + (n % 2)) = EvenPad(p)
  BY <1>1, PaddedBody
<1>3. CHKSUM_UDP(ip, udp, data) = CHECK_SUM(SumOf(((s \o d) \o five) \o b))
  BY <1>2 DEF CHKSUM_UDP
<1>4. \A x \in U16 : x \in Int /\ x \in Nat
  BY U16Is
<1>5. \A x \in Bytes : WordsOf(x) \in Seq(Int) /\ SumOf(WordsOf(x)) = ByteSum(x)
  <2>1. U16 \subseteq Int
    BY <1>4
  <2> QED BY <2>1, WordsFacts, SeqMonotonic DEF ByteSum
<1>6. ip.cSA \in Bytes /\ ip.cDA \in Bytes /\ EvenPad(p) \in Bytes
  BY AddrFacts, EvenPadFacts
<1>7. s \in Seq(Int) /\ d \in Seq(Int) /\ b \in Seq(Int)
      /\ SumOf(s) = ByteSum(ip.cSA) /\ SumOf(d) = ByteSum(ip.cDA) /\ SumOf(b) = ByteSum(EvenPad(p))
  BY <1>5, <1>6
<1>8. /\ five \in Seq(Int)
      /\ SumOf(five) = PROTO_TYPE_UDP + udp.len + udp.src + udp.dst + udp.len
      /\ SumOf(five) \in Nat
  <2> DEFINE x == udp.len
             y == udp.src
             z == udp.dst
             t == PROTO_TYPE_UDP
  <2>1. x \in Nat /\ y \in Nat /\ z \in Nat /\ t \in Nat
    BY <1>4 DEF Ports, PROTO_TYPE_UDP
  <2>2. five = <<t, x, y, z, x>>
    OBVIOUS
  <2> HIDE DEF x, y, z, t, five
  <2>3. x \in Int /\ y \in Int /\ z \in Int /\ t \in Int
    BY <2>1
  <2>4. <<t, x, y, z, x>> \in Seq(Int) /\ SumOf(<<t, x, y, z, x>>) = t + x + y + z + x
    BY <2>3, SumFive, SMTT(30)
  <2>5. t + x + y + z + x \in Nat
    BY <2>1
  <2> QED BY <2>2, <2>4, <2>5 DEF x, y, z, t
<1> HIDE DEF s, d, five, b, n
<1>9. SumOf(((s \o d) \o five) \o b) = SumOf(s) + SumOf(d) + SumOf(five) + SumOf(b)
  <2> DEFINE u == s \o d
             v == u \o five
  <2>1. SumOf(u) = SumOf(s) + SumOf(d) /\ u \in Seq(Int)
    BY <1>7, SumAdds, ConcatProperties
  <2> HIDE DEF u
  <2>2. SumOf(v) = SumOf(u) + SumOf(five) /\ v \in Seq(Int)
    BY <1>8, <2>1, SumAdds, ConcatProperties
  <2> HIDE DEF v
  <2>3. SumOf(v \o b) = SumOf(v) + SumOf(b)
    BY <1>7, <2>2, SumAdds
  <2> QED BY <2>1, <2>2, <2>3 DEF u, v
<1>10. ByteSum(ip.cSA) \in Nat /\ ByteSum(ip.cDA) \in Nat /\ ByteSum(EvenPad(p)) \in Nat
  BY <1>6, ByteSumNat
<1>11. SumOf(((s \o d) \o five) \o b) = UdpSum(ip, udp, p)
  BY <1>7, <1>8, <1>9 DEF UdpSum
<1>12. UdpSum(ip, udp, p) \in Nat
  <2>1. SumOf(s) + SumOf(d) + SumOf(five) + SumOf(b) \in Nat
    BY <1>7, <1>8, <1>10
  <2> QED BY <1>9, <1>11, <2>1
<1> QED BY <1>3, <1>11, <1>12

-----------------------------------------------------------------------------
(*****************************************************************************)
(* What is sent                                                            *)
(*****************************************************************************)

\* The header of UDP as it is sent, and the whole datagram.
UdpBytes(ip, udp, p) ==
  ENCODE_U16(udp.src) \o ENCODE_U16(udp.dst) \o ENCODE_U16(udp.len)
  \o ENCODE_U16(CHECK_SUM(UdpSum(ip, udp, p)))

Message(ip, udp, p) == ENCODE_IP_PKT(ip) \o UdpBytes(ip, udp, p) \o p

\* The eight bytes of the header, their sum, and the fields again.
LEMMA EncodedUdp ==
  ASSUME NEW ip, NEW udp, NEW p, Ports(udp), UdpSum(ip, udp, p) \in Nat
  PROVE  /\ UdpBytes(ip, udp, p) \in Bytes /\ Len(UdpBytes(ip, udp, p)) = 8
         /\ Even(UdpBytes(ip, udp, p))
         /\ ByteSum(UdpBytes(ip, udp, p))
              = udp.src + udp.dst + udp.len + CHECK_SUM(UdpSum(ip, udp, p))
         /\ 256 * UdpBytes(ip, udp, p)[1] + UdpBytes(ip, udp, p)[2] = udp.src
         /\ 256 * UdpBytes(ip, udp, p)[3] + UdpBytes(ip, udp, p)[4] = udp.dst
         /\ 256 * UdpBytes(ip, udp, p)[5] + UdpBytes(ip, udp, p)[6] = udp.len
         /\ 256 * UdpBytes(ip, udp, p)[7] + UdpBytes(ip, udp, p)[8]
              = CHECK_SUM(UdpSum(ip, udp, p))
         /\ CHECK_SUM(UdpSum(ip, udp, p)) \in U16
<1> DEFINE w1 == udp.src
           w2 == udp.dst
           w3 == udp.len
           w4 == CHECK_SUM(UdpSum(ip, udp, p))
           q1 == ENCODE_U16(w1)
           q2 == ENCODE_U16(w2)
           q3 == ENCODE_U16(w3)
           q4 == ENCODE_U16(w4)
           u == ((q1 \o q2) \o q3) \o q4
<1>1. w1 \in U16 /\ w2 \in U16 /\ w3 \in U16 /\ w4 \in U16
  BY CheckSumFits DEF Ports
<1>2. UdpBytes(ip, udp, p) = u
  BY DEF UdpBytes
<1> HIDE DEF w1, w2, w3, w4
<1>3. \A v \in U16 : LET q == ENCODE_U16(v)
                     IN  /\ q \in Bytes /\ Len(q) = 2 /\ Even(q) /\ ByteSum(q) = v
                         /\ 256 * q[1] + q[2] = v
  BY U16Facts
<1>4. /\ q1 \in Bytes /\ Len(q1) = 2 /\ Even(q1) /\ ByteSum(q1) = w1 /\ 256 * q1[1] + q1[2] = w1
      /\ q2 \in Bytes /\ Len(q2) = 2 /\ Even(q2) /\ ByteSum(q2) = w2 /\ 256 * q2[1] + q2[2] = w2
      /\ q3 \in Bytes /\ Len(q3) = 2 /\ Even(q3) /\ ByteSum(q3) = w3 /\ 256 * q3[1] + q3[2] = w3
      /\ q4 \in Bytes /\ Len(q4) = 2 /\ Even(q4) /\ ByteSum(q4) = w4 /\ 256 * q4[1] + q4[2] = w4
  BY <1>1, <1>3
<1> HIDE DEF q1, q2, q3, q4
<1> DEFINE r == q1 \o q2
           s == r \o q3
           t == s \o q4
<1>5. u = t
  OBVIOUS
<1> HIDE DEF u
<1>6. /\ r \in Bytes /\ Even(r) /\ Len(r) = 2 + 2 /\ ByteSum(r) = w1 + w2
      /\ \A i \in 1..2 : r[i] = q1[i]
      /\ \A j \in 1..2 : r[2 + j] = q2[j]
  <2>1. q1 \in Bytes /\ Even(q1) /\ q2 \in Bytes /\ Even(q2) /\ Len(q1) = 2 /\ Len(q2) = 2
    BY <1>4
  <2>2. /\ r \in Bytes /\ Len(r) = Len(q1) + Len(q2)
        /\ ByteSum(r) = ByteSum(q1) + ByteSum(q2)
        /\ \A i \in 1..Len(q1) : r[i] = q1[i]
        /\ \A j \in 1..Len(q2) : r[Len(q1) + j] = q2[j]
        /\ Even(r)
    BY <2>1, Behind
  <2> QED BY <1>4, <2>1, <2>2
<1> HIDE DEF r
<1>7. /\ s \in Bytes /\ Even(s) /\ Len(s) = 4 + 2 /\ ByteSum(s) = w1 + w2 + w3
      /\ \A i \in 1..4 : s[i] = r[i]
      /\ \A j \in 1..2 : s[4 + j] = q3[j]
  <2>1. r \in Bytes /\ Even(r) /\ q3 \in Bytes /\ Even(q3) /\ Len(r) = 4 /\ Len(q3) = 2
    BY <1>4, <1>6
  <2>2. /\ s \in Bytes /\ Len(s) = Len(r) + Len(q3)
        /\ ByteSum(s) = ByteSum(r) + ByteSum(q3)
        /\ \A i \in 1..Len(r) : s[i] = r[i]
        /\ \A j \in 1..Len(q3) : s[Len(r) + j] = q3[j]
        /\ Even(s)
    BY <2>1, Behind
  <2> QED BY <1>4, <1>6, <2>1, <2>2
<1> HIDE DEF s
<1>8. /\ t \in Bytes /\ Even(t) /\ Len(t) = 6 + 2 /\ ByteSum(t) = w1 + w2 + w3 + w4
      /\ \A i \in 1..6 : t[i] = s[i]
      /\ \A j \in 1..2 : t[6 + j] = q4[j]
  <2>1. s \in Bytes /\ Even(s) /\ q4 \in Bytes /\ Even(q4) /\ Len(s) = 6 /\ Len(q4) = 2
    BY <1>4, <1>7
  <2>2. /\ t \in Bytes /\ Len(t) = Len(s) + Len(q4)
        /\ ByteSum(t) = ByteSum(s) + ByteSum(q4)
        /\ \A i \in 1..Len(s) : t[i] = s[i]
        /\ \A j \in 1..Len(q4) : t[Len(s) + j] = q4[j]
        /\ Even(t)
    BY <2>1, Behind
  <2> QED BY <1>4, <1>7, <2>1, <2>2
<1> HIDE DEF t
<1>9. /\ t[1] = q1[1] /\ t[2] = q1[2] /\ t[3] = q2[1] /\ t[4] = q2[2]
      /\ t[5] = q3[1] /\ t[6] = q3[2] /\ t[7] = q4[1] /\ t[8] = q4[2]
  <2>1. r[1] = q1[1] /\ r[2] = q1[2] /\ r[2 + 1] = q2[1] /\ r[2 + 2] = q2[2]
    BY <1>6
  <2>2. s[1] = r[1] /\ s[2] = r[2] /\ s[3] = r[3] /\ s[4] = r[4] /\ s[4 + 1] = q3[1] /\ s[4 + 2] = q3[2]
    BY <1>7
  <2>3. t[1] = s[1] /\ t[2] = s[2] /\ t[3] = s[3] /\ t[4] = s[4] /\ t[5] = s[5] /\ t[6] = s[6]
        /\ t[6 + 1] = q4[1] /\ t[6 + 2] = q4[2]
    BY <1>8
  <2>4. 2 + 1 = 3 /\ 2 + 2 = 4 /\ 4 + 1 = 5 /\ 4 + 2 = 6 /\ 6 + 1 = 7 /\ 6 + 2 = 8
    OBVIOUS
  <2> QED BY <2>1, <2>2, <2>3, <2>4
<1> QED BY <1>1, <1>2, <1>4, <1>5, <1>8, <1>9 DEF w1, w2, w3, w4

-----------------------------------------------------------------------------
HeaderFields == {"ver", "IHL", "tos", "total_len", "id", "flag", "frag_off", "ttl", "proto",
                 "cSA", "cDA", "opt_pad"}

\* The datagram on the link is the one given to the encoders.
Given(ip, udp, p) ==
  /\ Fits16(ip) /\ DOMAIN ip = HeaderFields
  /\ Ports(udp) /\ DOMAIN udp = {"src", "dst", "len"}
  /\ p \in Bytes /\ udp.len = UDP_HDR_LEN + Len(p)
  /\ ip.total_len = 4 * ip.IHL + udp.len

Intact == Given(sent.ip, sent.udp, sent.payload)
          /\ wire = Message(sent.ip, sent.udp, sent.payload)

\* What a given datagram consists of.
LEMMA GivenFacts ==
  ASSUME NEW ip, NEW udp, NEW p, Given(ip, udp, p)
  PROVE  /\ Fits16(ip) /\ FieldsFit(ip) /\ DOMAIN ip = HeaderFields
         /\ ip.ver = IP_VERSION /\ ip.IHL \in 5..15 /\ ip.cSA \in Addrs /\ ip.cDA \in Addrs
         /\ ip.opt_pad \in Bytes /\ ip.total_len = 4 * ip.IHL + udp.len
         /\ Ports(udp) /\ DOMAIN udp = {"src", "dst", "len"} /\ udp.len = UDP_HDR_LEN + Len(p)
         /\ p \in Bytes /\ Len(p) \in Nat
<1>1. /\ Fits16(ip) /\ DOMAIN ip = HeaderFields /\ ip.total_len = 4 * ip.IHL + udp.len
      /\ Ports(udp) /\ DOMAIN udp = {"src", "dst", "len"} /\ udp.len = UDP_HDR_LEN + Len(p)
      /\ p \in Bytes
  BY DEF Given
<1>2. FieldsFit(ip)
  BY <1>1 DEF Fits16
<1>3. /\ ip.ver = IP_VERSION /\ ip.IHL \in 5..15 /\ ip.cSA \in Addrs /\ ip.cDA \in Addrs
      /\ ip.opt_pad \in Seq(U8)
  BY <1>2 DEF FieldsFit
<1>4. Len(p) \in Nat
  BY <1>1 DEF Bytes
<1> QED BY <1>1, <1>2, <1>3, <1>4 DEF Bytes

\* The parts of a message are byte strings of known length.
LEMMA MessageFacts ==
  ASSUME NEW ip, NEW udp, NEW p, Given(ip, udp, p)
  PROVE  /\ ENCODE_IP_PKT(ip) \in Bytes /\ Len(ENCODE_IP_PKT(ip)) = 4 * ip.IHL
         /\ Wire(ip, ENCODE_IP_PKT(ip)) /\ CHKSUM_IP_HDR(ip) \in U16
         /\ UdpBytes(ip, udp, p) \in Bytes /\ Len(UdpBytes(ip, udp, p)) = 8
         /\ UdpBytes(ip, udp, p) \o p \in Bytes /\ Len(UdpBytes(ip, udp, p) \o p) = 8 + Len(p)
         /\ Message(ip, udp, p) = ENCODE_IP_PKT(ip) \o (UdpBytes(ip, udp, p) \o p)
         /\ Message(ip, udp, p) \in Bytes
         /\ Len(Message(ip, udp, p)) = 4 * ip.IHL + (8 + Len(p))
         /\ UdpSum(ip, udp, p) \in Nat
<1> DEFINE h == ENCODE_IP_PKT(ip)
           u == UdpBytes(ip, udp, p)
<1>1. Wire(ip, h) /\ CHKSUM_IP_HDR(ip) \in U16
  BY EncodedHeader DEF Given
<1>2. h \in Bytes /\ Len(h) = 4 * ip.IHL
  BY <1>1 DEF Wire
<1>3. UdpSum(ip, udp, p) \in Nat
  <2>1. /\ p \in Bytes /\ ip.cSA \in Addrs /\ ip.cDA \in Addrs /\ Ports(udp)
        /\ udp.len = UDP_HDR_LEN + Len(p)
    BY GivenFacts
  <2> DEFINE q == EvenPad(p)
  <2>2. q \in Bytes /\ Len(q) >= Len(p) + (Len(p) % 2) /\ \A i \in 1..Len(p) : q[i] = p[i]
    <3>1. Len(p) + (Len(p) % 2) \in Int
      BY <2>1 DEF Bytes
    <3> QED BY <2>1, <3>1, EvenPadFacts
  <2> HIDE DEF q
  <2> QED BY <2>1, <2>2, UdpChecksum
<1>4. u \in Bytes /\ Len(u) = 8
  BY <1>3, EncodedUdp DEF Given
<1>5. p \in Bytes
  BY DEF Given
<1>6. Message(ip, udp, p) = (h \o u) \o p
  BY DEF Message
<1> HIDE DEF h, u
<1>7. u \o p \in Bytes /\ Len(u \o p) = 8 + Len(p)
  <2>1. u \o p \in Bytes /\ Len(u \o p) = Len(u) + Len(p)
    BY <1>4, <1>5, ConcatProperties DEF Bytes
  <2> QED BY <1>4, <2>1
<1>8. (h \o u) \o p = h \o (u \o p)
  BY <1>2, <1>4, <1>5, BytesAssociative DEF Bytes
<1>9. h \o (u \o p) \in Bytes /\ Len(h \o (u \o p)) = 4 * ip.IHL + (8 + Len(p))
  <2> DEFINE v == u \o p
  <2>1. v \in Bytes /\ Len(v) = 8 + Len(p)
    BY <1>7
  <2> HIDE DEF v
  <2>2. h \o v \in Bytes /\ Len(h \o v) = Len(h) + Len(v)
    BY <1>2, <2>1, ConcatProperties DEF Bytes
  <2> QED BY <1>2, <2>1, <2>2 DEF v
<1> QED BY <1>1, <1>2, <1>3, <1>4, <1>6, <1>7, <1>8, <1>9 DEF h, u

-----------------------------------------------------------------------------
(*****************************************************************************)
(* The datagram sent has checksums as they are defined                     *)
(*****************************************************************************)

\* The header: at most 30 words, so the carry fits.
LEMMA HeaderComplete ==
  ASSUME NEW ip, Fits16(ip)
  PROVE  \E k \in Nat \ {0} : ByteSum(ENCODE_IP_PKT(ip)) = 65535 * k
<1> DEFINE h == ENCODE_IP_PKT(ip)
           sum == HeaderSum(ip)
           all == ByteSum(h)
<1>1. h \in Bytes /\ Len(h) = 4 * ip.IHL /\ all = sum + CHECK_SUM(sum) /\ ip.IHL \in 5..15
  BY EncodedHeader, FieldFacts DEF Wire, CHKSUM_IP_HDR, HeaderSum
<1>2. sum \in Nat /\ CHECK_SUM(sum) \in Nat
  BY HeaderSumIs, CheckSumFits, U16Is
<1>3. all \in Nat /\ all <= MaxWord * 30
  <2> DEFINE n == Len(h) \div 2
  <2>1. n \in Nat /\ n <= 30
    <3>1. \A k \in 5..15 : (4 * k) \div 2 = 2 * k
      BY SMTT(30)
    <3>2. n = 2 * ip.IHL
      BY <1>1, <3>1
    <3> QED BY <1>1, <3>2
  <2>2. all \in Nat /\ all <= MaxWord * n
    BY <1>1, ByteSumNat
  <2> HIDE DEF n, all
  <2>3. MaxWord * n <= MaxWord * 30
    BY <2>1, SMTT(30) DEF MaxWord
  <2>4. MaxWord * n \in Nat /\ MaxWord * 30 \in Nat
    BY <2>1, SMTT(30) DEF MaxWord
  <2> QED BY <2>2, <2>3, <2>4
<1> HIDE DEF h, sum, all
<1>4. Fits(sum)
  <2>1. sum <= MaxWord * 30
    BY <1>1, <1>2, <1>3, SMTT(30) DEF MaxWord
  <2> QED BY <1>2, <2>1, SMTT(30) DEF Fits, MaxWord
<1>5. \E k \in Nat \ {0} : sum + CHECK_SUM(sum) = 65535 * k
  BY <1>2, <1>4, CheckSumCompletes
<1> QED BY <1>1, <1>5 DEF h, all

\* The sum of two numbers.
LEMMA SumTwo ==
  ASSUME NEW a \in Int, NEW b \in Int
  PROVE  <<a, b>> \in Seq(Int) /\ SumOf(<<a, b>>) = a + b
<1> DEFINE w == <<a, b>>
           P == [i \in 0..2 |-> CASE i = 0 -> 0 [] i = 1 -> a [] i = 2 -> a + b]
<1>1. w \in Seq(Int) /\ Len(w) = 2 /\ w[1] = a /\ w[2] = b
  OBVIOUS
<1>2. P \in [0..2 -> Int] /\ P[0] = 0 /\ P[1] = a /\ P[2] = a + b
  OBVIOUS
<1> HIDE DEF w, P
<1>3. \A i \in 1..2 : P[i] = P[i - 1] + w[i]
  <2>1. P[1] = P[0] + w[1] /\ P[2] = P[1] + w[2]
    BY <1>1, <1>2
  <2>2. 1 - 1 = 0 /\ 2 - 1 = 1 /\ \A i \in 1..2 : i = 1 \/ i = 2
    OBVIOUS
  <2> QED BY <2>1, <2>2
<1>4. Prefixes(w, P)
  BY <1>1, <1>2, <1>3 DEF Prefixes
<1> QED BY <1>1, <1>2, <1>4, SumIsPrefix DEF w

\* The words of a byte string, and their sum, are integers.
LEMMA WordsInt ==
  ASSUME NEW x \in Bytes
  PROVE  WordsOf(x) \in Seq(Int) /\ SumOf(WordsOf(x)) = ByteSum(x) /\ ByteSum(x) \in Nat
<1>1. U16 \subseteq Int
  BY U16Is
<1> QED BY <1>1, WordsFacts, SeqMonotonic, ByteSumNat DEF ByteSum

\* Behind an even number of bytes, what is made even is the rest.
LEMMA BodyPadded ==
  ASSUME NEW u \in Bytes, Even(u), NEW p \in Bytes
  PROVE  EvenPad(u \o p) = u \o EvenPad(p)
<1>1. u \o p \in Bytes /\ Len(u \o p) = Len(u) + Len(p) /\ Len(u) \in Nat /\ Len(p) \in Nat
  BY ConcatProperties DEF Bytes
<1>2. Len(u \o p) % 2 = Len(p) % 2
  BY <1>1, HalfFacts DEF Even
<1>3. CASE Len(p) % 2 = 1
  <2> DEFINE z == <<0>>
  <2>1. 0 \in U8 /\ z \in Bytes
    BY DEF U8, Bytes
  <2>2. Append(p, 0) = p \o z
    BY <2>1, AppendIsConcat DEF Bytes
  <2>3. Append(u \o p, 0) = (u \o p) \o z
    BY <1>1, <2>1, AppendIsConcat DEF Bytes
  <2>4. u \in Seq(U8) /\ p \in Seq(U8) /\ z \in Seq(U8)
    BY <2>1 DEF Bytes
  <2> HIDE DEF z
  <2>5. (u \o p) \o z = u \o (p \o z)
    BY <2>4, BytesAssociative
  <2> QED BY <1>2, <1>3, <2>2, <2>3, <2>5 DEF EvenPad
<1>4. CASE ~ (Len(p) % 2 = 1)
  BY <1>2, <1>4 DEF EvenPad
<1> QED BY <1>3, <1>4

\* The sum of the pseudo header.
PseudoSum(ip, len) == ByteSum(ip.cSA) + ByteSum(ip.cDA) + (PROTO_TYPE_UDP + len)

\* The sum of the datagram is that of the pseudo header and the bytes behind the header.
LEMMA UdpWordsSum ==
  ASSUME NEW w, NEW r \in Bytes, SubSeq(w, 4 * sent.ip.IHL + 1, Len(w)) = r,
         sent.ip.cSA \in Addrs, sent.ip.cDA \in Addrs, sent.udp.len \in U16
  PROVE  SumOf(UdpWords(w)) = PseudoSum(sent.ip, sent.udp.len) + ByteSum(EvenPad(r))
<1> DEFINE ip == sent.ip
           len == sent.udp.len
           s == WordsOf(ip.cSA)
           d == WordsOf(ip.cDA)
           two == <<PROTO_TYPE_UDP, len>>
           b == WordsOf(EvenPad(r))
<1>1. ip.cSA \in Bytes /\ ip.cDA \in Bytes /\ EvenPad(r) \in Bytes
  BY AddrFacts, EvenPadFacts
<1>2. UdpWords(w) = ((s \o d) \o two) \o b
  BY DEF UdpWords, EvenPad
<1>3. two \in Seq(Int) /\ SumOf(two) = PROTO_TYPE_UDP + len
  <2> DEFINE x == PROTO_TYPE_UDP
  <2>1. x \in Int /\ len \in Int
    BY U16Is DEF PROTO_TYPE_UDP
  <2> HIDE DEF x, len
  <2>2. <<x, len>> \in Seq(Int) /\ SumOf(<<x, len>>) = x + len
    BY <2>1, SumTwo
  <2> QED BY <2>2 DEF x
<1>4. /\ s \in Seq(Int) /\ d \in Seq(Int) /\ b \in Seq(Int)
      /\ SumOf(s) = ByteSum(ip.cSA) /\ SumOf(d) = ByteSum(ip.cDA) /\ SumOf(b) = ByteSum(EvenPad(r))
  BY <1>1, WordsInt
<1>5. ByteSum(ip.cSA) \in Int /\ ByteSum(ip.cDA) \in Int /\ ByteSum(EvenPad(r)) \in Int
  BY <1>1, WordsInt
<1> HIDE DEF s, d, two, b
<1>6. SumOf(((s \o d) \o two) \o b) = SumOf(s) + SumOf(d) + SumOf(two) + SumOf(b)
  <2> DEFINE v == s \o d
             x == v \o two
  <2>1. SumOf(v) = SumOf(s) + SumOf(d) /\ v \in Seq(Int)
    BY <1>4, SumAdds, ConcatProperties
  <2> HIDE DEF v
  <2>2. SumOf(x) = SumOf(v) + SumOf(two) /\ x \in Seq(Int)
    BY <1>3, <2>1, SumAdds, ConcatProperties
  <2> HIDE DEF x
  <2>3. SumOf(x \o b) = SumOf(x) + SumOf(b)
    BY <1>4, <2>2, SumAdds
  <2> QED BY <2>1, <2>2, <2>3 DEF v, x
<1> QED BY <1>2, <1>3, <1>4, <1>6 DEF PseudoSum

\* With a checksum in it, the datagram's sum is that of CHKSUM_UDP and the checksum.
LEMMA DatagramSumOf ==
  ASSUME NEW ip, NEW udp, NEW p \in Bytes, ip.cSA \in Addrs, ip.cDA \in Addrs, Ports(udp),
         NEW u \in Bytes, Even(u), NEW c \in U16, ByteSum(u) = udp.src + udp.dst + udp.len + c
  PROVE  PseudoSum(ip, udp.len) + ByteSum(EvenPad(u \o p)) = UdpSum(ip, udp, p) + c
<1> DEFINE q == EvenPad(p)
<1>1. q \in Bytes
  BY EvenPadFacts
<1> HIDE DEF q
<1>2. EvenPad(u \o p) = u \o q /\ ByteSum(u \o q) = ByteSum(u) + ByteSum(q)
  BY <1>1, BodyPadded, ByteSumAdds DEF q
<1>3. ip.cSA \in Bytes /\ ip.cDA \in Bytes
  BY AddrFacts
<1> DEFINE x == ByteSum(ip.cSA)
           y == ByteSum(ip.cDA)
           z == ByteSum(q)
           e1 == udp.src
           e2 == udp.dst
           e3 == udp.len
           e4 == PROTO_TYPE_UDP
           sum == UdpSum(ip, udp, p)
<1>4. x \in Int /\ y \in Int /\ z \in Int /\ c \in Int
  BY <1>1, <1>3, WordsInt, U16Is
<1>5. e1 \in Int /\ e2 \in Int /\ e3 \in Int /\ e4 \in Int
  BY U16Is DEF Ports, PROTO_TYPE_UDP
<1>6. sum = x + y + (e4 + e3 + e1 + e2 + e3) + z
  BY DEF UdpSum, q
<1>7. PseudoSum(ip, e3) = x + y + (e4 + e3)
  BY DEF PseudoSum
<1>8. ByteSum(EvenPad(u \o p)) = (e1 + e2 + e3 + c) + z
  BY <1>2
<1> HIDE DEF x, y, z, e1, e2, e3, e4, sum
<1>9. PseudoSum(ip, e3) + ByteSum(EvenPad(u \o p)) = sum + c
  BY <1>4, <1>5, <1>6, <1>7, <1>8
<1> QED BY <1>9 DEF e3, sum

\* With its checksum in it, the datagram's sum is that of CHKSUM_UDP and the checksum.
LEMMA DatagramSum ==
  ASSUME NEW ip, NEW udp, NEW p \in Bytes, ip.cSA \in Addrs, ip.cDA \in Addrs, Ports(udp),
         UdpSum(ip, udp, p) \in Nat
  PROVE  PseudoSum(ip, udp.len) + ByteSum(EvenPad(UdpBytes(ip, udp, p) \o p))
           = UdpSum(ip, udp, p) + CHECK_SUM(UdpSum(ip, udp, p))
<1> DEFINE u == UdpBytes(ip, udp, p)
           c == CHECK_SUM(UdpSum(ip, udp, p))
<1>1. u \in Bytes /\ Even(u) /\ ByteSum(u) = udp.src + udp.dst + udp.len + c /\ c \in U16
  BY EncodedUdp
<1> HIDE DEF u, c
<1>2. PseudoSum(ip, udp.len) + ByteSum(EvenPad(u \o p)) = UdpSum(ip, udp, p) + c
  BY <1>1, DatagramSumOf
<1> QED BY <1>2 DEF u, c

\* If the carry of the whole sum fits, so does that of the sum without the checksum.
LEMMA CarryOfPart ==
  ASSUME CarryFits, NEW n \in Nat, n = SumOf(UdpWords(wire)), NEW m \in Nat, m <= n
  PROVE  Fits(m)
BY FitsBelow, SMTT(30) DEF CarryFits

\* The datagram as it is sent satisfies StandardChecksums.
LEMMA IntactStandard ==
  ASSUME Intact
  PROVE  /\ OnesSum(IpHeaderWords) = 65535
         /\ CHKSUM_IP_HDR2(sent.ip, sent.ip.opt_pad # <<>>, sent.ip.opt_pad) = DECODE_U16(wire, 11)
         /\ CarryFits => OnesSum(UdpWords(wire)) = 65535
<1> DEFINE ip == sent.ip
           udp == sent.udp
           p == sent.payload
           h == ENCODE_IP_PKT(ip)
           u == UdpBytes(ip, udp, p)
           ck == CHKSUM_IP_HDR(ip)
           sum == UdpSum(ip, udp, p)
           q == EvenPad(p)
<1>1. Given(ip, udp, p) /\ wire = Message(ip, udp, p)
  BY DEF Intact
<1> HIDE DEF ip, udp, p
<1>2. /\ h \in Bytes /\ Len(h) = 4 * ip.IHL /\ Wire(ip, h) /\ ck \in U16
      /\ u \in Bytes /\ Len(u) = 8 /\ u \o p \in Bytes /\ Len(u \o p) = 8 + Len(p)
      /\ wire = h \o (u \o p) /\ Len(wire) = 4 * ip.IHL + (8 + Len(p)) /\ sum \in Nat
  BY <1>1, MessageFacts, SMTT(60)
<1>3. Fits16(ip) /\ FieldsFit(ip) /\ Ports(udp) /\ p \in Bytes /\ ip.cSA \in Addrs /\ ip.cDA \in Addrs
      /\ ip.IHL \in 5..15 /\ ip.opt_pad \in Bytes
  BY <1>1, GivenFacts
<1>4. /\ Even(u) /\ ByteSum(u) = udp.src + udp.dst + udp.len + CHECK_SUM(sum)
      /\ CHECK_SUM(sum) \in U16
  BY <1>2, <1>3, EncodedUdp
<1> HIDE DEF h, u, ck, sum, q
<1>5. SubSeq(wire, 1, 4 * ip.IHL) = h /\ SubSeq(wire, 4 * ip.IHL + 1, Len(wire)) = u \o p
  <2> DEFINE v == u \o p
  <2>1. v \in Bytes /\ wire = h \o v
    BY <1>2
  <2> HIDE DEF v
  <2>2. SubSeq(h \o v, 1, Len(h)) = h /\ SubSeq(h \o v, Len(h) + 1, Len(h \o v)) = v
    BY <1>2, <2>1, Split
  <2> QED BY <1>2, <2>1, <2>2 DEF v
<1>6. OnesSum(IpHeaderWords) = 65535
  <2>1. IpHeaderWords = WordsOf(h)
    BY <1>5 DEF IpHeaderWords, ip
  <2>2. PICK k \in Nat \ {0} : SumOf(WordsOf(h)) = 65535 * k
    BY <1>3, HeaderComplete DEF ByteSum, h
  <2> QED BY <2>1, <2>2, OnesSumOfMultiple
<1>7. CHKSUM_IP_HDR2(ip, ip.opt_pad # <<>>, ip.opt_pad) = ck
  <2>1. WordsOf(<<>>) = <<>>
    BY DEF WordsOf
  <2>2. (IF ip.opt_pad # <<>> THEN WordsOf(ip.opt_pad) ELSE <<>>) = WordsOf(ip.opt_pad)
    BY <2>1
  <2> QED BY <2>2 DEF CHKSUM_IP_HDR2, CHKSUM_IP_HDR, ck
<1>8. DECODE_U16(wire, 11) = ck
  <2>1. \A i \in 1..Len(h) : wire[i] = h[i]
    <3> DEFINE v == u \o p
    <3>1. v \in Bytes /\ wire = h \o v
      BY <1>2
    <3> HIDE DEF v
    <3>2. \A i \in 1..Len(h) : (h \o v)[i] = h[i]
      BY <1>2, <3>1, ConcatProperties DEF Bytes
    <3> QED BY <3>1, <3>2
  <2>2. 11 \in 1..Len(h) /\ 12 \in 1..Len(h) /\ 11 + 1 = 12
    BY <1>2, <1>3, SMTT(60)
  <2>3. wire[11] = ck \div 256 /\ wire[12] = ck % 256
    BY <1>2, <2>1, <2>2, ZenonT(60) DEF Wire, ck
  <2>4. 256 * (ck \div 256) + (ck % 256) = ck
    BY <1>2, U16Facts
  <2> QED BY <2>2, <2>3, <2>4 DEF DECODE_U16
<1>9. ASSUME CarryFits PROVE OnesSum(UdpWords(wire)) = 65535
  <2>1. SumOf(UdpWords(wire)) = PseudoSum(ip, udp.len) + ByteSum(EvenPad(u \o p))
    <3> DEFINE r == u \o p
    <3>1. SubSeq(wire, 4 * sent.ip.IHL + 1, Len(wire)) = r /\ r \in Bytes
      BY <1>2, <1>5 DEF ip
    <3>2. sent.ip.cSA \in Addrs /\ sent.ip.cDA \in Addrs /\ sent.udp.len \in U16
      BY <1>3 DEF ip, udp, Ports
    <3> HIDE DEF r
    <3>3. SumOf(UdpWords(wire)) = PseudoSum(sent.ip, sent.udp.len) + ByteSum(EvenPad(r))
      BY <3>1, <3>2, UdpWordsSum
    <3> QED BY <3>3 DEF r, ip, udp
  <2>2. PseudoSum(ip, udp.len) + ByteSum(EvenPad(u \o p)) = sum + CHECK_SUM(sum)
    BY <1>2, <1>3, DatagramSum DEF u, sum
  <2>3. Fits(sum)
    <3>1. CHECK_SUM(sum) \in Nat
      BY <1>4, U16Is
    <3> DEFINE n == SumOf(UdpWords(wire))
    <3>2. n \in Nat /\ sum <= n /\ n = SumOf(UdpWords(wire))
      BY <1>2, <2>1, <2>2, <3>1
    <3> HIDE DEF n
    <3> QED BY <1>2, <1>9, <3>2, CarryOfPart
  <2>4. PICK k \in Nat \ {0} : sum + CHECK_SUM(sum) = 65535 * k
    BY <1>2, <2>3, CheckSumCompletes
  <2> QED BY <2>1, <2>2, <2>4, OnesSumOfMultiple
<1> QED BY <1>6, <1>7, <1>8, <1>9 DEF ip

-----------------------------------------------------------------------------
(*****************************************************************************)
(* The encoders send it                                                    *)
(*****************************************************************************)

\* The encoders, given the payload in a longer buffer, yield the message.
LEMMA EncodesMessage ==
  ASSUME NEW ip, NEW udp, NEW p, Given(ip, udp, p), NEW data \in Bytes,
         Len(data) >= Len(p) + (Len(p) % 2), \A i \in 1..Len(p) : data[i] = p[i]
  PROVE  ENCODE_IP_PKT(ip) \o ENCODE_UDP_PKT(ip, udp, data) \o p = Message(ip, udp, p)
<1>1. /\ p \in Bytes /\ ip.cSA \in Addrs /\ ip.cDA \in Addrs /\ Ports(udp)
      /\ udp.len = UDP_HDR_LEN + Len(p)
  BY GivenFacts
<1>2. CHKSUM_UDP(ip, udp, data) = CHECK_SUM(UdpSum(ip, udp, p))
  BY <1>1, UdpChecksum
<1> QED BY <1>2 DEF Message, UdpBytes, ENCODE_UDP_PKT

\* What lies behind the payload in the sender's buffer.
LEMMA InBuffer ==
  ASSUME NEW p \in Bytes, NEW x \in U8
  PROVE  /\ Append(p, x) \in Bytes /\ Len(Append(p, x)) = Len(p) + 1
         /\ Len(Append(p, x)) >= Len(p) + (Len(p) % 2)
         /\ \A i \in 1..Len(p) : Append(p, x)[i] = p[i]
<1>1. /\ Append(p, x) \in Bytes /\ Len(Append(p, x)) = Len(p) + 1
      /\ \A i \in 1..Len(p) : Append(p, x)[i] = p[i]
  BY AppendProperties DEF Bytes
<1>2. Len(p) \in Nat
  BY DEF Bytes
<1>3. Len(p) + 1 >= Len(p) + (Len(p) % 2)
  BY <1>2
<1> QED BY <1>1, <1>3

\* Send puts the message on the wire, for a datagram or for the answer to a host.
LEMMA SendsIntact ==
  ASSUME Send
  PROVE  Intact'
<1>1. CASE SendDatagram
  <2>1. PICK h \in IpHeaders, pt \in UdpPorts, p \in Payloads :
          LET ip == WithLength(h, Len(p))
              udp == [src |-> pt[1], dst |-> pt[2], len |-> UDP_HDR_LEN + Len(p)]
          IN  sent' = Sent(ip, udp, p) /\ wire' = Encode(ip, udp, p)
    BY <1>1 DEF SendDatagram
  <2> DEFINE ip == WithLength(h, Len(p))
             udp == [src |-> pt[1], dst |-> pt[2], len |-> UDP_HDR_LEN + Len(p)]
  <2>2. sent' = Sent(ip, udp, p) /\ wire' = Encode(ip, udp, p)
    BY <2>1
  <2>3. /\ FieldsFit(h) /\ p \in Bytes /\ 4 * h.IHL + UDP_HDR_LEN + Len(p) \in U16
        /\ pt[1] \in U16 /\ pt[2] \in U16
    BY HeadersAssumption, PortsAssumption, PayloadsAssumption DEF Bytes
  <2>4. h.IHL \in Nat /\ Len(p) \in Nat /\ UDP_HDR_LEN = 8
    BY <2>3, SMTT(60) DEF FieldsFit, Bytes, UDP_HDR_LEN
  <2>5. DOMAIN ip = HeaderFields
    BY DEF WithLength, HeaderFields
  <2>6. /\ ip.ver = h.ver /\ ip.IHL = h.IHL /\ ip.tos = h.tos /\ ip.id = h.id /\ ip.flag = h.flag
        /\ ip.frag_off = h.frag_off /\ ip.ttl = h.ttl /\ ip.proto = h.proto /\ ip.cSA = h.cSA
        /\ ip.cDA = h.cDA /\ ip.opt_pad = h.opt_pad
        /\ ip.total_len = 4 * h.IHL + UDP_HDR_LEN + Len(p)
    BY DEF WithLength
  <2>7. DOMAIN udp = {"src", "dst", "len"} /\ udp.src = pt[1] /\ udp.dst = pt[2]
        /\ udp.len = UDP_HDR_LEN + Len(p)
    OBVIOUS
  <2> HIDE DEF ip, udp
  <2>8. Fits16(ip)
    BY <2>3, <2>6 DEF Fits16, FieldsFit
  <2>9. Ports(udp)
    <3>1. UDP_HDR_LEN + Len(p) \in U16
      <4> DEFINE x == UDP_HDR_LEN + Len(p)
                 y == 4 * h.IHL + UDP_HDR_LEN + Len(p)
      <4>1. y \in U16 /\ x \in Nat /\ x <= y
        BY <2>3, <2>4
      <4> HIDE DEF x, y
      <4>2. y \in Nat /\ y <= 65535
        BY <4>1, U16Is
      <4>3. x <= 65535
        BY <4>1, <4>2, SMTT(30)
      <4> QED BY <4>1, <4>3, U16Is DEF x
    <3> QED BY <2>3, <2>7, <3>1 DEF Ports
  <2>10. ip.total_len = 4 * ip.IHL + udp.len
    BY <2>4, <2>6, <2>7
  <2>11. Given(ip, udp, p)
    BY <2>3, <2>5, <2>7, <2>8, <2>9, <2>10 DEF Given
  <2>12. Encode(ip, udp, p) = Message(ip, udp, p)
    <3> DEFINE data == Append(p, 170)
    <3>1. 170 \in U8
      BY DEF U8
    <3>2. data \in Bytes /\ Len(data) >= Len(p) + (Len(p) % 2) /\ \A i \in 1..Len(p) : data[i] = p[i]
      BY <2>3, <3>1, InBuffer
    <3>3. Encode(ip, udp, p) = ENCODE_IP_PKT(ip) \o ENCODE_UDP_PKT(ip, udp, data) \o p
      BY DEF Encode
    <3> HIDE DEF data
    <3> QED BY <2>11, <3>2, <3>3, EncodesMessage
  <2>13. sent'.ip = ip /\ sent'.udp = udp /\ sent'.payload = p
    BY <2>2 DEF Sent
  <2> QED BY <2>2, <2>11, <2>12, <2>13 DEF Intact
<1>2. CASE SendHostReply
  <2>1. PICK src \in ReplyAddrs, dst \in ReplyAddrs, a \in ReplyAddrs, b \in ReplyAddrs :
          /\ sent' = Sent(ip_hdr_init(src, dst), udp_hdr_init, a \o b)
          /\ wire' = HostReply(src, dst, a \o b)
    BY <1>2 DEF SendHostReply
  <2> DEFINE ip == ip_hdr_init(src, dst)
             udp == udp_hdr_init
             p == a \o b
  <2>2. src \in Addrs /\ dst \in Addrs /\ a \in Addrs /\ b \in Addrs
    BY ReplyAddrsAssumption
  <2>3. a \in Bytes /\ b \in Bytes /\ Len(a) = 4 /\ Len(b) = 4
    BY <2>2, AddrFacts
  <2>4. p \in Bytes /\ Len(p) = 8
    <3>1. a \o b \in Bytes /\ Len(a \o b) = Len(a) + Len(b)
      BY <2>3, ConcatProperties DEF Bytes
    <3> QED BY <2>3, <3>1
  <2>5. DOMAIN ip = HeaderFields
    BY DEF ip_hdr_init, HeaderFields
  <2>6. /\ ip.ver = 4 /\ ip.IHL = 5 /\ ip.tos = 0 /\ ip.id = 1 /\ ip.flag = 2
        /\ ip.frag_off = 0 /\ ip.ttl = 64 /\ ip.proto = 17 /\ ip.cSA = dst
        /\ ip.cDA = src /\ ip.opt_pad = <<>> /\ ip.total_len = 36
    BY DEF ip_hdr_init, PROTO_TYPE_UDP
  <2>7. DOMAIN udp = {"src", "dst", "len"} /\ udp.src = 6655 /\ udp.dst = 8000 /\ udp.len = 16
    BY DEF udp_hdr_init
  <2> HIDE DEF ip, udp, p
  <2>8. Fits16(ip)
    <3>1. \A x \in Nat : x <= 65535 => x \in U16
      BY U16Is
    <3>2. 36 \in U16 /\ 1 \in U16
      <4>1. 36 \in Nat /\ 36 <= 65535 /\ 1 \in Nat /\ 1 <= 65535
        BY SMTT(30)
      <4> QED BY <3>1, <4>1
    <3>3. 0 \in U8 /\ 64 \in U8 /\ 17 \in U8 /\ 5 \in 5..15 /\ 2 \in 0..7 /\ 0 \in 0..8191
          /\ <<>> \in Seq(U8) /\ Len(<<>>) = 4 * 5 - 20
      BY SMTT(30) DEF U8
    <3> QED BY <2>2, <2>6, <3>2, <3>3 DEF Fits16, FieldsFit, IP_VERSION
  <2>9. Ports(udp)
    <3>1. 6655 \in U16 /\ 8000 \in U16 /\ 16 \in U16
      <4>1. 6655 \in Nat /\ 6655 <= 65535 /\ 8000 \in Nat /\ 8000 <= 65535 /\ 16 \in Nat /\ 16 <= 65535
        BY SMTT(30)
      <4> QED BY <4>1, U16Is
    <3> QED BY <2>7, <3>1 DEF Ports
  <2>10. ip.total_len = 4 * ip.IHL + udp.len /\ udp.len = UDP_HDR_LEN + Len(p)
    BY <2>4, <2>6, <2>7 DEF UDP_HDR_LEN
  <2>11. Given(ip, udp, p)
    BY <2>4, <2>5, <2>7, <2>8, <2>9, <2>10 DEF Given
  <2>12. HostReply(src, dst, p) = Message(ip, udp, p)
    <3>1. HostReply(src, dst, p) = ENCODE_IP_PKT(ip) \o ENCODE_UDP_PKT(ip, udp, p) \o p
      BY DEF HostReply, ip, udp
    <3>2. Len(p) >= Len(p) + (Len(p) % 2)
      BY <2>4
    <3> QED BY <2>4, <2>11, <3>1, <3>2, EncodesMessage
  <2>13. sent'.ip = ip /\ sent'.udp = udp /\ sent'.payload = p
    BY <2>1 DEF Sent, ip, udp, p
  <2> QED BY <2>1, <2>11, <2>12, <2>13 DEF Intact, p
<1> QED BY <1>1, <1>2 DEF Send

-----------------------------------------------------------------------------
(*****************************************************************************)
(* The decoders read what was sent                                         *)
(*****************************************************************************)

\* The flags and the offset share a word.
LEMMA FlagsDecode ==
  ASSUME NEW f \in 0..7, NEW o \in 0..8191
  PROVE  ((8192 * f + o) \div 256) \div 32 = f /\ (8192 * f + o) % 8192 = o
<1> DEFINE ff == 8192 * f + o
           a == o \div 256
           b == o % 256
<1>1. a \in 0..31 /\ b \in 0..255 /\ o = 256 * a + b
  BY SMTT(30)
<1>2. ff = 256 * (32 * f + a) + b
  BY <1>1, SMTT(30)
<1> HIDE DEF a, b
<1>3. ff \div 256 = 32 * f + a
  BY <1>1, <1>2, SMTT(30)
<1>4. (32 * f + a) \div 32 = f
  BY <1>1, SMTT(30)
<1>5. ff % 8192 = o
  BY SMTT(30)
<1> QED BY <1>3, <1>4, <1>5

\* What the decoder sees: the datagram, and whatever lies behind it.
LEMMA DecodesHeader ==
  ASSUME NEW ip, Fits16(ip), NEW h \in Bytes, Wire(ip, h), NEW r \in Bytes
  PROVE  /\ Header(h \o r).ver = ip.ver /\ Header(h \o r).IHL = ip.IHL
         /\ Header(h \o r).tos = ip.tos /\ Header(h \o r).total_len = ip.total_len
         /\ Header(h \o r).id = ip.id /\ Header(h \o r).flag = ip.flag
         /\ Header(h \o r).frag_off = ip.frag_off /\ Header(h \o r).ttl = ip.ttl
         /\ Header(h \o r).proto = ip.proto
         /\ Header(h \o r).head_chksum = CHKSUM_IP_HDR(ip)
         /\ Header(h \o r).cSA = ip.cSA /\ Header(h \o r).cDA = ip.cDA
         /\ Header(h \o r).opt_pad = ip.opt_pad
         /\ (h \o r)[1] % 16 = ip.IHL
<1> DEFINE d == h \o r
           n == 4 * ip.IHL
           ck == CHKSUM_IP_HDR(ip)
           ff == flag_frag(ip)
<1>1. /\ ip.ver = 4 /\ ip.IHL \in 5..15 /\ ip.total_len \in U16 /\ ip.id \in U16
      /\ ip.cSA \in Bytes /\ Len(ip.cSA) = 4 /\ ip.cDA \in Bytes /\ Len(ip.cDA) = 4
      /\ ip.opt_pad \in Bytes /\ Len(ip.opt_pad) = n - 20
  <2>1. FieldsFit(ip) /\ ip.total_len \in U16
    BY DEF Fits16
  <2>2. ip.ver = 4 /\ ip.IHL \in 5..15 /\ ip.id \in U16
    BY <2>1 DEF FieldsFit, IP_VERSION
  <2>3. /\ ip.cSA \in Addrs /\ ip.cDA \in Addrs /\ ip.opt_pad \in Bytes /\ Len(ip.opt_pad) = n - 20
    BY <2>1 DEF FieldsFit, Bytes
  <2>4. ip.cSA \in Bytes /\ Len(ip.cSA) = 4 /\ ip.cDA \in Bytes /\ Len(ip.cDA) = 4
    BY <2>3, AddrFacts
  <2> QED BY <2>1, <2>2, <2>3, <2>4
<1>2. n \in Nat /\ n >= 20 /\ Len(h) = n
  BY <1>1, SMTT(60) DEF Wire
<1>3. ck \in U16
  BY EncodedHeader
<1>4. /\ d \in Bytes /\ Len(d) >= n /\ \A i \in 1..n : d[i] = h[i]
  <2>1. /\ d \in Bytes /\ Len(d) = Len(h) + Len(r)
        /\ \A i \in 1..Len(h) + Len(r) : d[i] = IF i <= Len(h) THEN h[i] ELSE r[i - Len(h)]
    BY ConcatProperties DEF Bytes
  <2>2. Len(r) \in Nat
    BY DEF Bytes
  <2> HIDE DEF d
  <2>3. \A i \in 1..n : i \in 1..Len(h) + Len(r) /\ i <= Len(h)
    BY <1>2, <2>2
  <2>4. Len(d) >= n
    BY <1>2, <2>1, <2>2
  <2> QED BY <2>1, <2>3, <2>4
<1> HIDE DEF d
<1>5. /\ d[1] = 16 * ip.ver + ip.IHL /\ d[2] = ip.tos
      /\ d[3] = ip.total_len \div 256 /\ d[4] = ip.total_len % 256
      /\ d[5] = ip.id \div 256 /\ d[6] = ip.id % 256
      /\ d[7] = ff \div 256 /\ d[8] = ff % 256
      /\ d[9] = ip.ttl /\ d[10] = ip.proto /\ d[11] = ck \div 256 /\ d[12] = ck % 256
  <2>1. \A i \in 1..12 : d[i] = h[i]
    BY <1>2, <1>4
  <2>2. /\ h[1] = 16 * ip.ver + ip.IHL /\ h[2] = ip.tos
        /\ h[3] = ip.total_len \div 256 /\ h[4] = ip.total_len % 256
        /\ h[5] = ip.id \div 256 /\ h[6] = ip.id % 256
        /\ h[7] = ff \div 256 /\ h[8] = ff % 256
        /\ h[9] = ip.ttl /\ h[10] = ip.proto /\ h[11] = ck \div 256 /\ h[12] = ck % 256
    BY DEF Wire
  <2> HIDE DEF ff, ck
  <2> QED BY <2>1, <2>2
<1>6. \A v \in U16 : 256 * (v \div 256) + (v % 256) = v
  BY U16Facts
<1>7. ff \in U16 /\ (ff \div 256) \div 32 = ip.flag /\ ff % 8192 = ip.frag_off
  <2>1. ff = 8192 * ip.flag + ip.frag_off
    BY DEF flag_frag
  <2> HIDE DEF ff
  <2>2. (ff \div 256) \div 32 = ip.flag /\ ff % 8192 = ip.frag_off
    <3> DEFINE f == ip.flag
               o == ip.frag_off
    <3>a. ip.flag \in 0..7 /\ ip.frag_off \in 0..8191
      BY SMTT(30) DEF Fits16, FieldsFit
    <3>b. ff = 8192 * f + o
      BY <2>1
    <3> HIDE DEF f, o
    <3>1. f \in 0..7 /\ o \in 0..8191 /\ ff = 8192 * f + o
      BY <3>a, <3>b DEF f, o
    <3>2. ((8192 * f + o) \div 256) \div 32 = f /\ (8192 * f + o) % 8192 = o
      BY <3>1, FlagsDecode
    <3> QED BY <3>1, <3>2 DEF f, o
  <2> QED BY <2>2, FieldFacts DEF ff
<1> HIDE DEF ff, ck
<1>8. d[1] \div 16 = 4 /\ d[1] % 16 = ip.IHL
  BY <1>1, <1>5, SMTT(60)
<1>9. /\ DECODE_U16(d, 3) = ip.total_len /\ DECODE_U16(d, 5) = ip.id /\ DECODE_U16(d, 7) = ff
      /\ DECODE_U16(d, 11) = ck
  <2>1. 3 + 1 = 4 /\ 5 + 1 = 6 /\ 7 + 1 = 8 /\ 11 + 1 = 12
    OBVIOUS
  <2> QED BY <1>1, <1>3, <1>5, <1>6, <1>7, <2>1 DEF DECODE_U16
<1>10. At(d, 13, 4) = ip.cSA /\ At(d, 17, 4) = ip.cDA
  <2>1. \A j \in 1..4 : h[12 + j] = ip.cSA[j] /\ h[16 + j] = ip.cDA[j]
    BY DEF Wire
  <2>2. \A j \in 1..4 : 12 + j \in 1..n /\ 16 + j \in 1..n
    BY <1>2
  <2>3. \A j \in 1..4 : d[12 + j] = ip.cSA[j] /\ d[16 + j] = ip.cDA[j]
    BY <1>4, <2>1, <2>2
  <2>4. 12 \in Nat /\ 12 + Len(ip.cSA) <= Len(d) /\ 16 \in Nat /\ 16 + Len(ip.cDA) <= Len(d)
    <3>1. Len(d) \in Nat
      BY <1>4 DEF Bytes
    <3> QED BY <1>1, <1>2, <1>4, <3>1
  <2>5. SubSeq(d, 12 + 1, 12 + Len(ip.cSA)) = ip.cSA
    <3> DEFINE a == ip.cSA
               m == 12
    <3>1. a \in Bytes /\ m \in Nat /\ m + Len(a) <= Len(d) /\ \A j \in 1..Len(a) : d[m + j] = a[j]
      BY <1>1, <2>3, <2>4
    <3> HIDE DEF a, m
    <3>2. SubSeq(d, m + 1, m + Len(a)) = a
      BY <1>4, <3>1, Part
    <3> QED BY <3>2 DEF a, m
  <2>6. SubSeq(d, 16 + 1, 16 + Len(ip.cDA)) = ip.cDA
    <3> DEFINE a == ip.cDA
               m == 16
    <3>1. a \in Bytes /\ m \in Nat /\ m + Len(a) <= Len(d) /\ \A j \in 1..Len(a) : d[m + j] = a[j]
      BY <1>1, <2>3, <2>4
    <3> HIDE DEF a, m
    <3>2. SubSeq(d, m + 1, m + Len(a)) = a
      BY <1>4, <3>1, Part
    <3> QED BY <3>2 DEF a, m
  <2>7. 12 + 1 = 13 /\ 12 + 4 = 16 /\ 16 + 1 = 17 /\ 16 + 4 = 20 /\ 13 + 4 - 1 = 16 /\ 17 + 4 - 1 = 20
    OBVIOUS
  <2>8. SubSeq(d, 13, 16) = ip.cSA /\ SubSeq(d, 17, 20) = ip.cDA
    BY <1>1, <2>5, <2>6, <2>7
  <2>9. At(d, 13, 4) = SubSeq(d, 13, 13 + 4 - 1) /\ At(d, 17, 4) = SubSeq(d, 17, 17 + 4 - 1)
    BY DEF At
  <2> QED BY <2>7, <2>8, <2>9
<1>11. SubSeq(d, 21, 4 * (d[1] % 16)) = ip.opt_pad
  <2>1. \A j \in 1..n - 20 : h[20 + j] = ip.opt_pad[j]
    BY DEF Wire
  <2>2. \A j \in 1..n - 20 : 20 + j \in 1..n
    BY <1>2
  <2>3. \A j \in 1..n - 20 : d[20 + j] = ip.opt_pad[j]
    BY <1>4, <2>1, <2>2
  <2> DEFINE a == ip.opt_pad
             m == 20
  <2>4. a \in Bytes /\ m \in Nat /\ m + Len(a) <= Len(d) /\ m + Len(a) = n /\ m + 1 = 21
        /\ \A j \in 1..Len(a) : d[m + j] = a[j]
    <3>1. Len(d) \in Nat
      BY <1>4 DEF Bytes
    <3> QED BY <1>1, <1>2, <1>4, <2>3, <3>1
  <2> HIDE DEF a, m
  <2>5. SubSeq(d, m + 1, m + Len(a)) = a
    BY <1>4, <2>4, Part
  <2>6. SubSeq(d, 21, n) = a
    BY <2>4, <2>5, SMTT(60)
  <2>7. 4 * (d[1] % 16) = n
    BY <1>8
  <2> HIDE DEF n
  <2> QED BY <2>6, <2>7 DEF a
<1>12. /\ Header(d).ver = d[1] \div 16 /\ Header(d).IHL = d[1] % 16 /\ Header(d).tos = d[2]
       /\ Header(d).total_len = DECODE_U16(d, 3) /\ Header(d).id = DECODE_U16(d, 5)
       /\ Header(d).flag = d[7] \div 32 /\ Header(d).frag_off = DECODE_U16(d, 7) % 8192
       /\ Header(d).ttl = d[9] /\ Header(d).proto = d[10]
       /\ Header(d).head_chksum = DECODE_U16(d, 11)
       /\ Header(d).cSA = At(d, 13, 4) /\ Header(d).cDA = At(d, 17, 4)
       /\ Header(d).opt_pad = SubSeq(d, 21, 4 * (d[1] % 16))
  <2> DEFINE x1 == d[1] \div 16
             x2 == d[1] % 16
             x3 == d[2]
             x4 == DECODE_U16(d, 3)
             x5 == DECODE_U16(d, 5)
             x6 == d[7] \div 32
             x7 == DECODE_U16(d, 7) % 8192
             x8 == d[9]
             x9 == d[10]
             x10 == DECODE_U16(d, 11)
             x11 == At(d, 13, 4)
             x12 == At(d, 17, 4)
             x13 == SubSeq(d, 21, 4 * (d[1] % 16))
             x == Header(d)
  <2>1. x = [ver |-> x1, IHL |-> x2, tos |-> x3, total_len |-> x4, id |-> x5, flag |-> x6,
             frag_off |-> x7, ttl |-> x8, proto |-> x9, head_chksum |-> x10, cSA |-> x11,
             cDA |-> x12, opt_pad |-> x13]
    BY Zenon DEF Header
  <2> HIDE DEF x1, x2, x3, x4, x5, x6, x7, x8, x9, x10, x11, x12, x13, x
  <2>2. /\ x.ver = x1 /\ x.IHL = x2 /\ x.tos = x3 /\ x.total_len = x4 /\ x.id = x5
        /\ x.flag = x6 /\ x.frag_off = x7 /\ x.ttl = x8 /\ x.proto = x9 /\ x.head_chksum = x10
        /\ x.cSA = x11 /\ x.cDA = x12 /\ x.opt_pad = x13
    BY <2>1
  <2> QED BY <2>2 DEF x1, x2, x3, x4, x5, x6, x7, x8, x9, x10, x11, x12, x13, x
<1> DEFINE y == Header(d)
<1>13. /\ y.ver = ip.ver /\ y.IHL = ip.IHL /\ y.tos = ip.tos /\ y.total_len = ip.total_len
       /\ y.id = ip.id /\ y.flag = ip.flag /\ y.frag_off = ip.frag_off /\ y.ttl = ip.ttl
       /\ y.proto = ip.proto /\ y.head_chksum = ck /\ y.cSA = ip.cSA /\ y.cDA = ip.cDA
       /\ y.opt_pad = ip.opt_pad
  BY <1>1, <1>5, <1>7, <1>8, <1>9, <1>10, <1>11, <1>12
<1> QED BY <1>8, <1>13 DEF d, ck

\* The checksum of a header depends on its fields but not on the checksum in it.
LEMMA SameSums ==
  ASSUME NEW ip, NEW x, x.ver = ip.ver, x.IHL = ip.IHL, x.tos = ip.tos,
         x.total_len = ip.total_len, x.id = ip.id, x.flag = ip.flag, x.frag_off = ip.frag_off,
         x.ttl = ip.ttl, x.proto = ip.proto, x.cSA = ip.cSA, x.cDA = ip.cDA,
         x.opt_pad = ip.opt_pad
  PROVE  CHKSUM_IP_HDR(x) = CHKSUM_IP_HDR(ip)
<1>1. flag_frag(x) = flag_frag(ip)
  BY DEF flag_frag
<1>2. HeaderWords(x) = HeaderWords(ip)
  BY <1>1, ZenonT(60) DEF HeaderWords
<1> QED BY <1>2 DEF CHKSUM_IP_HDR

\* A datagram behind a header that has been decoded, and a byte behind it.
LEMMA DecodesUdp ==
  ASSUME NEW ip, NEW udp, NEW p, Given(ip, udp, p), NEW x,
         x.total_len = ip.total_len, x.IHL = ip.IHL, x.cSA = ip.cSA, x.cDA = ip.cDA,
         NEW z \in U8, NEW r, UdpBytes(ip, udp, p) \o Append(p, z) = r
  PROVE  /\ DECODE_UDP_PKT(x, r).verdict = "TRUE"
         /\ DECODE_UDP_PKT(x, r).header.src = udp.src
         /\ DECODE_UDP_PKT(x, r).header.dst = udp.dst
         /\ DECODE_UDP_PKT(x, r).header.len = udp.len
         /\ SubSeq(DECODE_UDP_PKT(x, r).rest, 1, Len(p)) = p
<1> DEFINE u == UdpBytes(ip, udp, p)
           w == Append(p, z)
           c == CHECK_SUM(UdpSum(ip, udp, p))
           y == UdpHeader(r)
           n == Len(p)
<1>1. /\ p \in Bytes /\ n \in Nat /\ Fits16(ip) /\ Ports(udp) /\ udp.len = UDP_HDR_LEN + n
      /\ ip.total_len = 4 * ip.IHL + udp.len /\ ip.cSA \in Addrs /\ ip.cDA \in Addrs
      /\ ip.IHL \in 5..15
  BY GivenFacts
<1>2. /\ w \in Bytes /\ Len(w) = n + 1 /\ Len(w) >= n + (n % 2) /\ \A i \in 1..n : w[i] = p[i]
  BY <1>1, InBuffer
<1>3. UdpSum(ip, udp, p) \in Nat
  BY MessageFacts
<1>4. /\ u \in Bytes /\ Len(u) = 8 /\ c \in U16
      /\ 256 * u[1] + u[2] = udp.src /\ 256 * u[3] + u[4] = udp.dst
      /\ 256 * u[5] + u[6] = udp.len /\ 256 * u[7] + u[8] = c
  BY <1>1, <1>3, EncodedUdp
<1>5. r = u \o w
  OBVIOUS
<1> HIDE DEF u, w
<1>6. \A i \in 1..8 : r[i] = u[i]
  <2>1. u \in Seq(U8) /\ w \in Seq(U8)
    BY <1>2, <1>4 DEF Bytes
  <2>2. \A i \in 1..Len(u) + Len(w) :
          (u \o w)[i] = IF i <= Len(u) THEN u[i] ELSE w[i - Len(u)]
    BY <2>1, ConcatProperties, Zenon
  <2>3. \A i \in 1..8 : i \in 1..Len(u) + Len(w) /\ i <= Len(u)
    BY <1>1, <1>2, <1>4
  <2> QED BY <1>5, <2>2, <2>3
<1>7. SubSeq(r, UDP_HDR_LEN + 1, Len(r)) = w
  <2>1. SubSeq(u \o w, Len(u) + 1, Len(u \o w)) = w
    BY <1>2, <1>4, Split
  <2> QED BY <1>4, <1>5, <2>1 DEF UDP_HDR_LEN
<1>8. DECODE_U16(r, 1) = udp.src /\ DECODE_U16(r, 3) = udp.dst /\ DECODE_U16(r, 5) = udp.len
      /\ DECODE_U16(r, 7) = c
  <2>1. r[1] = u[1] /\ r[2] = u[2] /\ r[3] = u[3] /\ r[4] = u[4] /\ r[5] = u[5] /\ r[6] = u[6]
        /\ r[7] = u[7] /\ r[8] = u[8]
    <3>1. 1 \in 1..8 /\ 2 \in 1..8 /\ 3 \in 1..8 /\ 4 \in 1..8 /\ 5 \in 1..8 /\ 6 \in 1..8
          /\ 7 \in 1..8 /\ 8 \in 1..8
      OBVIOUS
    <3> QED BY <1>6, <3>1, Zenon
  <2>2. 1 + 1 = 2 /\ 3 + 1 = 4 /\ 5 + 1 = 6 /\ 7 + 1 = 8
    OBVIOUS
  <2> HIDE DEF c
  <2>3. /\ DECODE_U16(r, 1) = 256 * r[1] + r[2] /\ DECODE_U16(r, 3) = 256 * r[3] + r[4]
        /\ DECODE_U16(r, 5) = 256 * r[5] + r[6] /\ DECODE_U16(r, 7) = 256 * r[7] + r[8]
    BY <2>2, ZenonT(60) DEF DECODE_U16
  <2>4. DECODE_U16(r, 1) = udp.src
    BY <1>4, <2>1, <2>3
  <2>5. DECODE_U16(r, 3) = udp.dst
    BY <1>4, <2>1, <2>3
  <2>6. DECODE_U16(r, 5) = udp.len
    BY <1>4, <2>1, <2>3
  <2>7. DECODE_U16(r, 7) = c
    BY <1>4, <2>1, <2>3
  <2> QED BY <2>4, <2>5, <2>6, <2>7
<1>9. y.src = udp.src /\ y.dst = udp.dst /\ y.len = udp.len /\ y.chksum = c
  <2> HIDE DEF c
  <2> QED BY <1>8 DEF UdpHeader
<1> HIDE DEF y
<1>10. CHKSUM_UDP(x, y, w) = c
  <2>1. Ports(y) /\ y.len = UDP_HDR_LEN + Len(p) /\ x.cSA \in Addrs /\ x.cDA \in Addrs
    BY <1>1, <1>9 DEF Ports
  <2>2. CHKSUM_UDP(x, y, w) = CHECK_SUM(UdpSum(x, y, p))
    BY <1>1, <1>2, <2>1, UdpChecksum
  <2>3. UdpSum(x, y, p) = UdpSum(ip, udp, p)
    BY <1>9 DEF UdpSum
  <2> QED BY <2>2, <2>3
<1>11. y.len = x.total_len - 4 * x.IHL
  <2>1. udp.len \in Int /\ ip.IHL \in Int
    BY <1>1 DEF UDP_HDR_LEN
  <2> QED BY <1>1, <1>9, <2>1
<1> DEFINE rest == IF y.chksum = 0 THEN w ELSE Padded(w, y.len - UDP_HDR_LEN)
<1>12. DECODE_UDP_PKT(x, r) = Decoded("TRUE", y, rest)
  BY <1>7, <1>9, <1>10, <1>11 DEF DECODE_UDP_PKT, y
<1>13. rest \in Bytes /\ Len(rest) = n + 1 /\ \A i \in 1..n : rest[i] = p[i]
  <2>1. y.len - UDP_HDR_LEN = n
    BY <1>1, <1>9 DEF UDP_HDR_LEN
  <2>2. /\ Padded(w, n) \in Bytes /\ Len(Padded(w, n)) = n + 1
        /\ \A i \in 1..n : Padded(w, n)[i] = p[i]
    BY <1>1, <1>2, PaddedBody
  <2> QED BY <1>2, <2>1, <2>2
<1> HIDE DEF rest
<1>14. SubSeq(rest, 1, n) = p
  <2>1. 0 \in Nat /\ 0 + Len(p) <= Len(rest) /\ 0 + 1 = 1 /\ 0 + Len(p) = n
    BY <1>1, <1>13
  <2>2. \A i \in 1..Len(p) : rest[0 + i] = p[i]
    <3>1. \A i \in 1..n : 0 + i = i
      OBVIOUS
    <3> QED BY <1>13, <3>1
  <2>3. SubSeq(rest, 0 + 1, 0 + Len(p)) = p
    BY <1>1, <1>13, <2>1, <2>2, Part
  <2> QED BY <2>1, <2>3
<1>15. /\ Decoded("TRUE", y, rest).verdict = "TRUE" /\ Decoded("TRUE", y, rest).header = y
       /\ Decoded("TRUE", y, rest).rest = rest
  BY DEF Decoded
<1> QED BY <1>9, <1>12, <1>14, <1>15

\* The decoders have returned what was given to the encoders.
ReceivedAsSent ==
  /\ got.ip = "TRUE" /\ got.udp = "TRUE"
  /\ \A f \in DOMAIN sent.ip : got.header[f] = sent.ip[f]
  /\ \A f \in DOMAIN sent.udp : got.udpHeader[f] = sent.udp[f]
  /\ got.payload = sent.payload

\* Receive, given the datagram as it was sent, returns what was sent.
LEMMA ReceivesAsSent ==
  ASSUME Intact, Receive
  PROVE  ReceivedAsSent'
<1> DEFINE ip == sent.ip
           udp == sent.udp
           p == sent.payload
           h == ENCODE_IP_PKT(ip)
           u == UdpBytes(ip, udp, p)
           v == u \o p
           r == u \o Append(p, 85)
           d == Append(wire, 85)
           x == Header(d)
           n == Len(p)
<1>1. Given(ip, udp, p) /\ wire = Message(ip, udp, p)
  BY DEF Intact
<1> HIDE DEF ip, udp, p
<1>2. /\ h \in Bytes /\ Len(h) = 4 * ip.IHL /\ Wire(ip, h)
      /\ u \in Bytes /\ Len(u) = 8 /\ v \in Bytes
      /\ wire = h \o v /\ wire \in Bytes /\ Len(wire) = 4 * ip.IHL + (8 + n)
  BY <1>1, MessageFacts, SMTT(60)
<1>3. Fits16(ip) /\ p \in Bytes /\ ip.ver = IP_VERSION /\ ip.IHL \in 5..15 /\ n \in Nat
      /\ DOMAIN ip = HeaderFields /\ DOMAIN udp = {"src", "dst", "len"}
  BY <1>1, GivenFacts
<1>4. 85 \in U8 /\ <<85>> \in Seq(U8)
  BY DEF U8
<1>5. d = h \o r /\ r \in Bytes
  <2> DEFINE z == <<85>>
             y == Append(p, 85)
  <2>0. wire \in Seq(U8) /\ p \in Seq(U8) /\ z \in Seq(U8)
    BY <1>2, <1>3, <1>4 DEF Bytes
  <2>a. d = wire \o z /\ y = p \o z
    BY <2>0, <1>4, AppendIsConcat
  <2>b. y \in Seq(U8)
    BY <2>0, <1>4, AppendProperties
  <2>1. z \in Seq(U8) /\ d = wire \o z /\ y = p \o z /\ y \in Seq(U8)
    BY <2>0, <2>a, <2>b
  <2>2. v = u \o p /\ r = u \o y
    OBVIOUS
  <2> HIDE DEF z, y, v, h, u, d, r
  <2>3. h \in Seq(U8) /\ u \in Seq(U8) /\ v \in Seq(U8) /\ p \in Seq(U8)
    BY <1>2, <1>3 DEF Bytes
  <2>4. (h \o v) \o z = h \o (v \o z)
    BY <2>0, <2>3, BytesAssociative, SMTT(30)
  <2>5. (u \o p) \o z = u \o (p \o z)
    BY <2>0, <2>3, BytesAssociative, SMTT(30)
  <2>6. r \in Bytes
    BY <2>1, <2>2, <2>3, ConcatProperties DEF Bytes
  <2> QED BY <1>2, <2>1, <2>2, <2>4, <2>5, <2>6
<1> HIDE DEF h, d, r
<1>6. /\ x.ver = ip.ver /\ x.IHL = ip.IHL /\ x.tos = ip.tos /\ x.total_len = ip.total_len
      /\ x.id = ip.id /\ x.flag = ip.flag /\ x.frag_off = ip.frag_off /\ x.ttl = ip.ttl
      /\ x.proto = ip.proto /\ x.head_chksum = CHKSUM_IP_HDR(ip) /\ x.cSA = ip.cSA
      /\ x.cDA = ip.cDA /\ x.opt_pad = ip.opt_pad
  BY <1>2, <1>3, <1>5, DecodesHeader
<1> HIDE DEF x, u, v
<1>7. CHKSUM_IP_HDR(x) = x.head_chksum
  BY <1>6, SameSums
<1>8. SubSeq(d, 4 * x.IHL + 1, Len(d)) = r
  <2>1. SubSeq(h \o r, Len(h) + 1, Len(h \o r)) = r
    BY <1>2, <1>5, Split
  <2> QED BY <1>2, <1>5, <1>6, <2>1
<1>9. DECODE_IP_PKT(d) = Decoded("TRUE", x, r)
  BY <1>3, <1>6, <1>7, <1>8 DEF DECODE_IP_PKT, x
<1>10. /\ DECODE_IP_PKT(d).verdict = "TRUE" /\ DECODE_IP_PKT(d).header = x
       /\ DECODE_IP_PKT(d).rest = r
  BY <1>9 DEF Decoded
<1> DEFINE e == DECODE_UDP_PKT(x, r)
<1>11. /\ e.verdict = "TRUE" /\ e.header.src = udp.src /\ e.header.dst = udp.dst
       /\ e.header.len = udp.len /\ SubSeq(e.rest, 1, n) = p
  <2> DEFINE z == 85
  <2>1. UdpBytes(ip, udp, p) \o Append(p, z) = r
    BY DEF r, u
  <2>2. z \in U8
    BY <1>4
  <2> HIDE DEF z, e
  <2>3. Given(ip, udp, p) /\ x.total_len = ip.total_len /\ x.IHL = ip.IHL /\ x.cSA = ip.cSA
        /\ x.cDA = ip.cDA
    BY <1>1, <1>6
  <2>4. /\ DECODE_UDP_PKT(x, r).verdict = "TRUE"
        /\ DECODE_UDP_PKT(x, r).header.src = udp.src
        /\ DECODE_UDP_PKT(x, r).header.dst = udp.dst
        /\ DECODE_UDP_PKT(x, r).header.len = udp.len
        /\ SubSeq(DECODE_UDP_PKT(x, r).rest, 1, Len(p)) = p
    BY <2>1, <2>2, <2>3, DecodesUdp
  <2> QED BY <2>4 DEF e
<1> HIDE DEF e
<1>12. got' = [ip |-> "TRUE", udp |-> "TRUE", header |-> x, udpHeader |-> e.header, payload |-> p]
  <2>1. Len(wire) - 4 * x.IHL - UDP_HDR_LEN = n
    BY <1>2, <1>3, <1>6 DEF UDP_HDR_LEN
  <2> QED BY <1>10, <1>11, <2>1, ZenonT(60) DEF Receive, d, e
<1>13. sent' = sent
  BY DEF Receive
<1>14. /\ got'.ip = "TRUE" /\ got'.udp = "TRUE" /\ got'.header = x /\ got'.udpHeader = e.header
       /\ got'.payload = p
  BY <1>12
<1>15. \A f \in DOMAIN ip : x[f] = ip[f]
  BY <1>3, <1>6 DEF HeaderFields
<1>16. \A f \in DOMAIN udp : e.header[f] = udp[f]
  BY <1>3, <1>11
<1> QED BY <1>13, <1>14, <1>15, <1>16 DEF ReceivedAsSent, ip, udp, p

-----------------------------------------------------------------------------
(*****************************************************************************)
(* A word of a byte string becomes another                                 *)
(*****************************************************************************)

\* One number of a sequence becomes another.
LEMMA SumChanged ==
  ASSUME NEW w \in Seq(Int), NEW x \in Seq(Int), Len(x) = Len(w), NEW k \in 1..Len(w),
         \A i \in 1..Len(w) : i # k => x[i] = w[i]
  PROVE  SumOf(x) = SumOf(w) + (x[k] - w[k])
<1> DEFINE n == Len(w)
           c == x[k] - w[k]
<1>1. PICK P : Prefixes(w, P)
  BY PrefixesExist
<1>2. n \in Nat /\ Len(x) = n /\ k \in 1..n /\ w[k] \in Int /\ x[k] \in Int
  BY ElementOfSeq
<1> DEFINE Q == [i \in 0..n |-> IF i < k THEN P[i] ELSE P[i] + c]
<1>3. /\ \A i \in 0..n : P[i] \in Int
      /\ \A i \in 1..n : P[i] = P[i - 1] + w[i] /\ w[i] \in Int
      /\ P[0] = 0
  BY <1>1, PrefixFacts
<1>4. c \in Int /\ x[k] = w[k] + c
  BY <1>2
<1> HIDE DEF c
<1>5. Q \in [0..n -> Int] /\ Q[0] = 0
  <2>1. \A i \in 0..n : (IF i < k THEN P[i] ELSE P[i] + c) \in Int
    BY <1>3, <1>4, SMTT(60)
  <2>2. 0 \in 0..n /\ 0 < k
    BY <1>2
  <2> QED BY <1>3, <2>1, <2>2
<1>6. \A i \in 1..n : Q[i] = Q[i - 1] + x[i]
  <2> TAKE i \in 1..n
  <2>1. i \in 0..n /\ i - 1 \in 0..n /\ i \in Int
    BY <1>2
  <2>2. Q[i] = (IF i < k THEN P[i] ELSE P[i] + c)
        /\ Q[i - 1] = (IF i - 1 < k THEN P[i - 1] ELSE P[i - 1] + c)
    BY <2>1
  <2>3. P[i] = P[i - 1] + w[i] /\ w[i] \in Int /\ P[i - 1] \in Int
    BY <1>3, <2>1
  <2> HIDE DEF Q
  <2>4. CASE i < k
    <3>1. i # k /\ i - 1 < k
      BY <1>2, <2>1, <2>4
    <3>2. x[i] = w[i]
      BY <3>1
    <3> QED BY <2>2, <2>3, <2>4, <3>1, <3>2
  <2>5. CASE i = k
    <3>1. i - 1 < k /\ ~ (i < k)
      BY <1>2, <2>1, <2>5
    <3> QED BY <1>4, <2>2, <2>3, <2>5, <3>1
  <2>6. CASE i > k
    <3>1. i # k /\ ~ (i - 1 < k) /\ ~ (i < k)
      BY <1>2, <2>1, <2>6
    <3>2. x[i] = w[i]
      BY <3>1
    <3> QED BY <1>4, <2>2, <2>3, <3>1, <3>2, SMTT(60)
  <2> QED BY <1>2, <2>1, <2>4, <2>5, <2>6
<1>7. Prefixes(x, Q)
  BY <1>2, <1>5, <1>6 DEF Prefixes
<1>8. Q[n] = P[n] + c
  <2>1. n \in 0..n /\ ~ (n < k)
    BY <1>2
  <2> QED BY <2>1
<1> QED BY <1>1, <1>2, <1>7, <1>8, SumIsPrefix DEF c

\* What a damage does: word k of a byte string becomes e.
Replaced(b, k, e) ==
  [i \in DOMAIN b |-> CASE i = 2 * k - 1 -> e \div 256
                        [] i = 2 * k     -> e % 256
                        [] OTHER         -> b[i]]

\* Word k lies in b.
WordIn(b, k) == k \in Nat \ {0} /\ 2 * k <= Len(b)

\* All bytes but two stay, and the two make up the new word.
LEMMA ReplacedFacts ==
  ASSUME NEW b \in Bytes, NEW k, WordIn(b, k), NEW e \in U16
  PROVE  /\ Replaced(b, k, e) \in Bytes /\ Len(Replaced(b, k, e)) = Len(b)
         /\ 2 * k - 1 \in 1..Len(b) /\ 2 * k \in 1..Len(b)
         /\ \A i \in 1..Len(b) : i # 2 * k - 1 /\ i # 2 * k => Replaced(b, k, e)[i] = b[i]
         /\ Replaced(b, k, e)[2 * k - 1] = e \div 256
         /\ Replaced(b, k, e)[2 * k] = e % 256
         /\ DECODE_U16(Replaced(b, k, e), 2 * k - 1) = e
         /\ DECODE_U16(b, 2 * k - 1) \in U16
<1> DEFINE n == Len(b)
           c == Replaced(b, k, e)
           f == 2 * k - 1
           g == 2 * k
<1>1. n \in Nat /\ DOMAIN b = 1..n /\ \A i \in 1..n : b[i] \in U8
  BY ByteAt DEF Bytes
<1>2. f \in 1..n /\ g \in 1..n /\ f # g /\ f + 1 = g
  BY <1>1 DEF WordIn
<1>3. e \div 256 \in U8 /\ e % 256 \in U8 /\ 256 * (e \div 256) + (e % 256) = e
  <2>1. e \in Nat /\ e <= 65535
    BY U16Is
  <2>2. e \div 256 \in U8
    BY <2>1, SMTT(30) DEF U8
  <2>3. e % 256 \in U8
    BY <2>1, SMTT(30) DEF U8
  <2> QED BY <2>2, <2>3, U16Facts
<1>4. c = [i \in 1..n |-> CASE i = f -> e \div 256 [] i = g -> e % 256 [] OTHER -> b[i]]
  BY <1>1 DEF Replaced
<1> HIDE DEF n, c, f, g
<1>5. /\ \A i \in 1..n : i # f /\ i # g => c[i] = b[i]
      /\ c[f] = e \div 256 /\ c[g] = e % 256
  BY <1>2, <1>4
<1>6. c \in [1..n -> U8]
  <2>1. \A i \in 1..n : c[i] \in U8
    BY <1>1, <1>3, <1>5
  <2> QED BY <1>4, <2>1
<1>7. c \in Bytes /\ Len(c) = n
  BY <1>1, <1>6 DEF Bytes
<1>8. DECODE_U16(c, f) = e
  BY <1>2, <1>3, <1>5 DEF DECODE_U16
<1>9. DECODE_U16(b, f) \in U16
  <2>1. b[f] \in 0..255 /\ b[g] \in 0..255
    BY <1>2, ByteAt DEF n
  <2> QED BY <1>2, <2>1, WordOfBytes, ZenonT(60) DEF DECODE_U16
<1> QED BY <1>2, <1>5, <1>7, <1>8, <1>9 DEF n, c, f, g

\* The sum changes by what the word does.
LEMMA ReplacedSum ==
  ASSUME NEW b \in Bytes, NEW k, WordIn(b, k), NEW e \in U16
  PROVE  ByteSum(Replaced(b, k, e)) = ByteSum(b) + (e - DECODE_U16(b, 2 * k - 1))
<1> DEFINE c == Replaced(b, k, e)
           n == Len(b) \div 2
           w == WordsOf(b)
           x == WordsOf(c)
           old == DECODE_U16(b, 2 * k - 1)
<1>1. /\ c \in Bytes /\ Len(c) = Len(b)
      /\ \A i \in 1..Len(b) : i # 2 * k - 1 /\ i # 2 * k => c[i] = b[i]
      /\ DECODE_U16(c, 2 * k - 1) = e
  BY ReplacedFacts
<1> HIDE DEF c
<1>2. n \in Nat /\ 2 * n <= Len(b) /\ k \in 1..n /\ Len(b) \in Nat
  BY DEF WordIn, Bytes
<1>3. w = [i \in 1..n |-> DECODE_U16(b, 2 * i - 1)] /\ x = [i \in 1..n |-> DECODE_U16(c, 2 * i - 1)]
  BY <1>1 DEF WordsOf
<1>4. w \in Seq(Int) /\ x \in Seq(Int) /\ SumOf(w) = ByteSum(b) /\ SumOf(x) = ByteSum(c)
  BY <1>1, WordsInt
<1>5. Len(w) = n /\ Len(x) = n
  BY <1>1, WordsFacts
<1>6. x[k] = e /\ w[k] = old
  BY <1>1, <1>2, <1>3
<1>7. \A i \in 1..n : i # k => x[i] = w[i]
  <2> TAKE i \in 1..n
  <2> HAVE i # k
  <2>1. /\ 2 * i - 1 \in 1..Len(b) /\ 2 * i \in 1..Len(b) /\ (2 * i - 1) + 1 = 2 * i
        /\ 2 * i - 1 # 2 * k - 1 /\ 2 * i - 1 # 2 * k /\ 2 * i # 2 * k - 1 /\ 2 * i # 2 * k
    BY <1>2
  <2>2. c[2 * i - 1] = b[2 * i - 1] /\ c[2 * i] = b[2 * i]
    BY <1>1, <2>1
  <2>3. DECODE_U16(c, 2 * i - 1) = DECODE_U16(b, 2 * i - 1)
    BY <2>1, <2>2 DEF DECODE_U16
  <2> QED BY <1>3, <2>3
<1> HIDE DEF w, x, n
<1>8. SumOf(x) = SumOf(w) + (x[k] - w[k])
  BY <1>2, <1>4, <1>5, <1>7, SumChanged, ZenonT(60)
<1> QED BY <1>4, <1>6, <1>8 DEF c

\* A word of the front of a byte string.
LEMMA ReplacedInFront ==
  ASSUME NEW a \in Bytes, NEW b \in Bytes, NEW k, WordIn(a, k), NEW e \in U16
  PROVE  /\ WordIn(a \o b, k) /\ Replaced(a \o b, k, e) = Replaced(a, k, e) \o b
         /\ DECODE_U16(a \o b, 2 * k - 1) = DECODE_U16(a, 2 * k - 1)
<1> DEFINE c == a \o b
           d == Replaced(a, k, e)
           m == Len(a)
           n == Len(b)
           l == Replaced(c, k, e)
           r == d \o b
           f == 2 * k - 1
           g == 2 * k
<1>1. /\ m \in Nat /\ n \in Nat /\ c \in Bytes /\ Len(c) = m + n
      /\ \A i \in 1..m + n : c[i] = IF i <= m THEN a[i] ELSE b[i - m]
  BY ConcatProperties DEF Bytes
<1>2. /\ d \in Bytes /\ Len(d) = m /\ f \in 1..m /\ g \in 1..m
      /\ \A i \in 1..m : i # f /\ i # g => d[i] = a[i]
      /\ d[f] = e \div 256 /\ d[g] = e % 256
  BY ReplacedFacts
<1> HIDE DEF d
<1>3. /\ r \in Bytes /\ Len(r) = m + n
      /\ \A i \in 1..m + n : r[i] = IF i <= m THEN d[i] ELSE b[i - m]
  <2>1. /\ r \in Bytes /\ Len(r) = Len(d) + Len(b)
        /\ \A i \in 1..Len(d) + Len(b) : r[i] = IF i <= Len(d) THEN d[i] ELSE b[i - Len(d)]
    <3>1. d \in Seq(U8) /\ b \in Seq(U8)
      BY <1>2 DEF Bytes
    <3> HIDE DEF m, n
    <3>2. /\ d \o b \in Seq(U8) /\ Len(d \o b) = Len(d) + Len(b)
          /\ \A i \in 1..Len(d) + Len(b) : (d \o b)[i] = IF i <= Len(d) THEN d[i] ELSE b[i - Len(d)]
      BY <3>1, ConcatProperties
    <3> QED BY <3>2 DEF Bytes
  <2> QED BY <1>2, <2>1
<1>4. WordIn(c, k)
  BY <1>1 DEF WordIn
<1> HIDE DEF c, r
<1>5. /\ l \in Bytes /\ Len(l) = m + n
      /\ \A i \in 1..m + n : i # f /\ i # g => l[i] = c[i]
      /\ l[f] = e \div 256 /\ l[g] = e % 256
  <2>1. /\ l \in Bytes /\ Len(l) = Len(c)
        /\ \A i \in 1..Len(c) : i # f /\ i # g => l[i] = c[i]
        /\ l[f] = e \div 256 /\ l[g] = e % 256
    BY <1>1, <1>4, ReplacedFacts, SMTT(60)
  <2> QED BY <1>1, <2>1
<1> HIDE DEF l, m, n, f, g
<1>6. \A i \in 1..m + n : l[i] = r[i]
  <2> TAKE i \in 1..m + n
  <2>1. CASE i = f
    BY <1>1, <1>2, <1>3, <1>5, <2>1
  <2>2. CASE i = g
    BY <1>1, <1>2, <1>3, <1>5, <2>2
  <2>3. CASE i # f /\ i # g
    <3>1. l[i] = c[i]
      BY <1>5, <2>3
    <3>2. i <= m => i \in 1..m
      BY <1>1
    <3> QED BY <1>1, <1>2, <1>3, <2>3, <3>1, <3>2
  <2> QED BY <2>1, <2>2, <2>3
<1>7. l = r
  BY <1>3, <1>5, <1>6, SeqEqual DEF Bytes
<1>8. DECODE_U16(c, f) = DECODE_U16(a, f)
  <2>1. f + 1 = g /\ f \in 1..m + n /\ g \in 1..m + n /\ f <= m /\ g <= m
    <3>1. f + 1 = g
      BY DEF f, g, WordIn
    <3> QED BY <1>1, <1>2, <3>1
  <2>2. c[f] = a[f] /\ c[g] = a[g]
    BY <1>1, <2>1
  <2> QED BY <2>1, <2>2 DEF DECODE_U16
<1> QED BY <1>4, <1>7, <1>8 DEF c, l, r, d, f

\* A word behind an even number of bytes.
LEMMA ReplacedBehind ==
  ASSUME NEW a \in Bytes, Even(a), NEW b \in Bytes, NEW k, WordIn(a \o b, k), 2 * k > Len(a),
         NEW e \in U16
  PROVE  \E j : /\ WordIn(b, j) /\ Replaced(a \o b, k, e) = a \o Replaced(b, j, e)
                /\ DECODE_U16(a \o b, 2 * k - 1) = DECODE_U16(b, 2 * j - 1)
<1> DEFINE c == a \o b
           m == Len(a)
           n == Len(b)
           j == k - (m \div 2)
           d == Replaced(b, j, e)
           l == Replaced(c, k, e)
           r == a \o d
           f == 2 * k - 1
           g == 2 * k
           s == 2 * j - 1
           t == 2 * j
<1>1. /\ m \in Nat /\ n \in Nat /\ c \in Bytes /\ Len(c) = m + n
      /\ \A i \in 1..m + n : c[i] = IF i <= m THEN a[i] ELSE b[i - m]
  BY ConcatProperties DEF Bytes
<1>2. /\ j \in Nat \ {0} /\ 2 * j <= n /\ f = m + s /\ g = m + t
      /\ s + 1 = t /\ f + 1 = g /\ t \in Int
  <2>1. m = 2 * (m \div 2) /\ m \div 2 \in Nat
    BY <1>1, HalfFacts DEF Even
  <2>2. k \in Nat /\ 2 * k <= m + n /\ 2 * k > m
    BY <1>1 DEF WordIn
  <2> DEFINE i == m \div 2
  <2>3. m = 2 * i /\ i \in Nat /\ j = k - i
    BY <2>1
  <2> HIDE DEF i, m, n, j
  <2>4. j \in Nat \ {0} /\ 2 * j <= n
    BY <1>1, <2>2, <2>3
  <2> QED BY <1>1, <2>2, <2>3, <2>4
<1>3. WordIn(b, j)
  BY <1>2 DEF WordIn
<1> HIDE DEF j, c
<1>4. /\ d \in Bytes /\ Len(d) = n /\ s \in 1..n /\ t \in 1..n
      /\ \A i \in 1..n : i # s /\ i # t => d[i] = b[i]
      /\ d[s] = e \div 256 /\ d[t] = e % 256
  BY <1>3, ReplacedFacts
<1> HIDE DEF d
<1>5. /\ r \in Bytes /\ Len(r) = m + n
      /\ \A i \in 1..m + n : r[i] = IF i <= m THEN a[i] ELSE d[i - m]
  BY <1>4, ConcatProperties DEF Bytes
<1> HIDE DEF r
<1>6. /\ l \in Bytes /\ Len(l) = m + n
      /\ \A i \in 1..m + n : i # f /\ i # g => l[i] = c[i]
      /\ l[f] = e \div 256 /\ l[g] = e % 256
  <2>1. WordIn(c, k)
    BY DEF c
  <2>2. /\ l \in Bytes /\ Len(l) = Len(c)
        /\ \A i \in 1..Len(c) : i # f /\ i # g => l[i] = c[i]
        /\ l[f] = e \div 256 /\ l[g] = e % 256
    BY <1>1, <2>1, ReplacedFacts, SMTT(60)
  <2> QED BY <1>1, <2>2
<1> HIDE DEF l, m, n, f, g, s, t
<1>7. \A i \in 1..m + n : l[i] = r[i]
  <2> TAKE i \in 1..m + n
  <2>1. CASE i <= m
    <3>1. i # f /\ i # g
      BY <1>1, <1>2, <1>4, <2>1
    <3> QED BY <1>1, <1>5, <1>6, <2>1, <3>1
  <2>2. CASE ~ (i <= m)
    <3>1. i - m \in 1..n /\ (i = f <=> i - m = s) /\ (i = g <=> i - m = t)
      BY <1>1, <1>2, <1>4, <2>2
    <3>2. r[i] = d[i - m] /\ c[i] = b[i - m]
      BY <1>1, <1>5, <2>2
    <3> QED BY <1>4, <1>6, <3>1, <3>2
  <2> QED BY <2>1, <2>2
<1>8. l = r
  BY <1>5, <1>6, <1>7, SeqEqual DEF Bytes
<1>9. DECODE_U16(c, f) = DECODE_U16(b, s)
  <2>1. f \in 1..m + n /\ g \in 1..m + n /\ ~ (f <= m) /\ ~ (g <= m) /\ f - m = s /\ g - m = t
    BY <1>1, <1>2, <1>4
  <2>2. c[f] = b[s] /\ c[g] = b[t]
    BY <1>1, <2>1
  <2> QED BY <1>2, <2>2 DEF DECODE_U16
<1>10. WordIn(b, j) /\ c = a \o b /\ l = Replaced(c, k, e) /\ r = a \o Replaced(b, j, e)
       /\ f = 2 * k - 1 /\ s = 2 * j - 1
  BY <1>3 DEF c, l, r, d, f, s
<1> QED BY <1>8, <1>9, <1>10

\* A word of a byte string that is made even for the sum.
LEMMA ReplacedPadded ==
  ASSUME NEW b \in Bytes, NEW k, WordIn(b, k), NEW e \in U16
  PROVE  ByteSum(EvenPad(Replaced(b, k, e)))
           = ByteSum(EvenPad(b)) + (e - DECODE_U16(b, 2 * k - 1))
<1>1. Replaced(b, k, e) \in Bytes /\ Len(Replaced(b, k, e)) = Len(b)
  BY ReplacedFacts
<1>2. CASE Len(b) % 2 = 1
  <2> DEFINE z == <<0>>
             d == Replaced(b, k, e)
  <2>1. 0 \in U8 /\ z \in Bytes
    BY DEF U8, Bytes
  <2>2. EvenPad(b) = b \o z /\ EvenPad(d) = d \o z
    BY <1>1, <1>2, <2>1, AppendIsConcat DEF EvenPad, Bytes
  <2> HIDE DEF z
  <2>3. /\ WordIn(b \o z, k) /\ Replaced(b \o z, k, e) = d \o z
        /\ DECODE_U16(b \o z, 2 * k - 1) = DECODE_U16(b, 2 * k - 1)
    BY <2>1, ReplacedInFront
  <2>4. b \o z \in Bytes
    BY <2>1, ConcatProperties DEF Bytes
  <2>5. ByteSum(Replaced(b \o z, k, e)) = ByteSum(b \o z) + (e - DECODE_U16(b \o z, 2 * k - 1))
    BY <2>3, <2>4, ReplacedSum
  <2> QED BY <2>2, <2>3, <2>5
<1>3. CASE ~ (Len(b) % 2 = 1)
  BY <1>1, <1>3, ReplacedSum DEF EvenPad
<1> QED BY <1>2, <1>3

\* Put back, the word leaves no trace.
LEMMA ReplacedBack ==
  ASSUME NEW b \in Bytes, NEW k, WordIn(b, k), NEW e \in U16
  PROVE  Replaced(Replaced(b, k, e), k, DECODE_U16(b, 2 * k - 1)) = b
<1> DEFINE c == Replaced(b, k, e)
           old == DECODE_U16(b, 2 * k - 1)
           d == Replaced(c, k, old)
           f == 2 * k - 1
           g == 2 * k
           n == Len(b)
<1>1. /\ c \in Bytes /\ Len(c) = n /\ f \in 1..n /\ g \in 1..n /\ old \in U16
      /\ \A i \in 1..n : i # f /\ i # g => c[i] = b[i]
  BY ReplacedFacts
<1>2. WordIn(c, k)
  BY <1>1 DEF WordIn
<1> HIDE DEF c
<1>3. /\ d \in Bytes /\ Len(d) = n
      /\ \A i \in 1..n : i # f /\ i # g => d[i] = c[i]
      /\ d[f] = old \div 256 /\ d[g] = old % 256
  <2> HIDE DEF old
  <2>1. /\ d \in Bytes /\ Len(d) = Len(c)
        /\ \A i \in 1..Len(c) : i # f /\ i # g => d[i] = c[i]
        /\ d[f] = old \div 256 /\ d[g] = old % 256
    BY <1>1, <1>2, ReplacedFacts
  <2> QED BY <1>1, <2>1
<1>4. old \div 256 = b[f] /\ old % 256 = b[g]
  <2>1. f + 1 = g
    BY DEF WordIn
  <2>2. old = 256 * b[f] + b[g]
    BY <2>1 DEF DECODE_U16
  <2>3. b[f] \in 0..255 /\ b[g] \in 0..255
    BY <1>1, ByteAt
  <2>4. \A x, y \in 0..255 : (256 * x + y) \div 256 = x /\ (256 * x + y) % 256 = y
    BY SMTT(30)
  <2> HIDE DEF old
  <2> QED BY <2>2, <2>3, <2>4, ZenonT(60)
<1> HIDE DEF d, old
<1>5. \A i \in 1..n : d[i] = b[i]
  BY <1>1, <1>3, <1>4
<1> HIDE DEF n
<1>6. d = b
  <2>1. Len(b) = n
    BY DEF n
  <2> QED BY <1>3, <1>5, <2>1, SeqEqual DEF Bytes
<1> QED BY <1>6 DEF c, d, old

-----------------------------------------------------------------------------
\* What a carry of 8 bits does not hold is a multiple of this.
CarryRange == 16777216

\* With its checksum added, any sum becomes a multiple of 65535 but for what the
\* carry does not hold.
LEMMA CheckSumLoses ==
  ASSUME NEW sum \in Nat, NEW q, sum \div CarryRange = q
  PROVE  q \in Int /\ \E k \in Int : sum + CHECK_SUM(sum) = 65535 * k + CarryRange * q
<1> DEFINE s == sum % 16777216
<1>1. q \in Int /\ s \in Nat /\ s < 16777216 /\ sum = 16777216 * q + s
  <2>1. q = sum \div 16777216
    BY DEF CarryRange
  <2>2. q \in Int /\ s \in Int /\ 0 <= s /\ s < 16777216 /\ sum = 16777216 * q + s
    BY <2>1, SMTT(30)
  <2> HIDE DEF s
  <2> QED BY <2>2
<1> HIDE DEF s
<1>2. sum \div 65536 = 256 * q + (s \div 65536) /\ sum % 65536 = s % 65536
  BY <1>1, SMTT(30)
<1>3. Carry(sum) = Carry(s)
  <2> DEFINE a == s \div 65536
  <2>1. a \in Int /\ sum \div 65536 = 256 * q + a
    BY <1>1, <1>2, SMTT(30)
  <2> HIDE DEF a
  <2>2. (256 * q + a) % 256 = a % 256
    BY <1>1, <2>1, SMTT(30)
  <2> QED BY <2>1, <2>2 DEF Carry, a
<1>4. CHECK_SUM(sum) = CHECK_SUM(s)
  <2>1. AddOnce(sum) = AddOnce(s)
    BY <1>2, <1>3 DEF AddOnce
  <2> QED BY <2>1 DEF CHECK_SUM, ADD_CARRY_FOR_CHKSUM
<1>5. Fits(s)
  BY <1>1, SMTT(30) DEF Fits
<1>6. PICK k \in Nat \ {0} : s + CHECK_SUM(s) = 65535 * k
  BY <1>1, <1>5, CheckSumCompletes
<1> DEFINE c == CHECK_SUM(s)
<1>7. c \in Int
  BY <1>1, CheckSumFits, U16Is
<1> HIDE DEF c
<1>8. sum + c = 65535 * k + 16777216 * q
  BY <1>1, <1>6, <1>7, SMTT(30) DEF c
<1>9. sum + c = 65535 * k + CarryRange * q
  BY <1>8 DEF CarryRange
<1>10. k \in Int /\ sum + CHECK_SUM(sum) = 65535 * k + CarryRange * q
  BY <1>4, <1>9 DEF c
<1> QED BY <1>1, <1>10

\* Two words that no checksum tells apart.
Complements(x, y) == {x, y} = {0, 65535}

\* Two words that differ by a multiple of 65535 are the same, or 0 and 65535.
LEMMA WordsApart ==
  ASSUME NEW x \in U16, NEW y \in U16, x # y, NEW j \in Int, y - x = 65535 * j
  PROVE  Complements(x, y)
<1>1. x \in Nat /\ x <= 65535 /\ y \in Nat /\ y <= 65535
  BY U16Is
<1>2. j = 1 \/ j = -1
  BY <1>1, SMTT(30)
<1>3. (x = 0 /\ y = 65535) \/ (x = 65535 /\ y = 0)
  BY <1>1, <1>2, SMTT(30)
<1> QED BY <1>3 DEF Complements

-----------------------------------------------------------------------------
(*****************************************************************************)
(* What an accepted header says                                            *)
(*****************************************************************************)

\* A part of a byte string, byte by byte.
LEMMA PartBytes ==
  ASSUME NEW c \in Bytes, NEW m \in Nat, NEW n \in Nat, m + n <= Len(c)
  PROVE  /\ SubSeq(c, m + 1, m + n) \in Bytes /\ Len(SubSeq(c, m + 1, m + n)) = n
         /\ \A i \in 1..n : SubSeq(c, m + 1, m + n)[i] = c[m + i]
<1> DEFINE e == m + 1
           f == m + n
           s == SubSeq(c, e, f)
<1>1. e \in Int /\ f \in Int
  OBVIOUS
<1>2. \A i \in e..f : c[i] \in U8
  <2>1. \A i \in e..f : i \in 1..Len(c)
    BY DEF Bytes
  <2> HIDE DEF e, f
  <2> QED BY <2>1, ByteAt
<1>3. /\ s \in Seq(U8) /\ Len(s) = IF e <= f THEN f - e + 1 ELSE 0
      /\ \A i \in 1..f - e + 1 : s[i] = c[e + i - 1]
  <2> HIDE DEF e, f
  <2> QED BY <1>1, <1>2, SubSeqProperties
<1>4. f - e + 1 = n /\ (e <= f <=> n # 0) /\ \A i \in 1..n : e + i - 1 = m + i
  OBVIOUS
<1> HIDE DEF s, e, f
<1>5. Len(s) = n /\ \A i \in 1..n : s[i] = c[m + i]
  BY <1>3, <1>4
<1> QED BY <1>3, <1>5 DEF s, e, f, Bytes

\* Four bytes are an address.
LEMMA AddrOf ==
  ASSUME NEW a \in Bytes, Len(a) = 4
  PROVE  a \in Addrs
<1>1. \A f \in Seq(U8) : f \in [1..Len(f) -> U8]
  OBVIOUS
<1> QED BY <1>1 DEF Bytes, Addrs

\* What the fields of a decoded header are.
LEMMA HeaderParts ==
  ASSUME NEW d
  PROVE  /\ Header(d).ver = d[1] \div 16 /\ Header(d).IHL = d[1] % 16 /\ Header(d).tos = d[2]
         /\ Header(d).total_len = DECODE_U16(d, 3) /\ Header(d).id = DECODE_U16(d, 5)
         /\ Header(d).flag = d[7] \div 32 /\ Header(d).frag_off = DECODE_U16(d, 7) % 8192
         /\ Header(d).ttl = d[9] /\ Header(d).proto = d[10]
         /\ Header(d).head_chksum = DECODE_U16(d, 11)
         /\ Header(d).cSA = At(d, 13, 4) /\ Header(d).cDA = At(d, 17, 4)
         /\ Header(d).opt_pad = SubSeq(d, 21, 4 * (d[1] % 16))
<1> DEFINE x1 == d[1] \div 16
           x2 == d[1] % 16
           x3 == d[2]
           x4 == DECODE_U16(d, 3)
           x5 == DECODE_U16(d, 5)
           x6 == d[7] \div 32
           x7 == DECODE_U16(d, 7) % 8192
           x8 == d[9]
           x9 == d[10]
           x10 == DECODE_U16(d, 11)
           x11 == At(d, 13, 4)
           x12 == At(d, 17, 4)
           x13 == SubSeq(d, 21, 4 * (d[1] % 16))
           x == Header(d)
<1>1. x = [ver |-> x1, IHL |-> x2, tos |-> x3, total_len |-> x4, id |-> x5, flag |-> x6,
           frag_off |-> x7, ttl |-> x8, proto |-> x9, head_chksum |-> x10, cSA |-> x11,
           cDA |-> x12, opt_pad |-> x13]
  BY Zenon DEF Header
<1> HIDE DEF x1, x2, x3, x4, x5, x6, x7, x8, x9, x10, x11, x12, x13, x
<1>2. /\ x.ver = x1 /\ x.IHL = x2 /\ x.tos = x3 /\ x.total_len = x4 /\ x.id = x5
      /\ x.flag = x6 /\ x.frag_off = x7 /\ x.ttl = x8 /\ x.proto = x9 /\ x.head_chksum = x10
      /\ x.cSA = x11 /\ x.cDA = x12 /\ x.opt_pad = x13
  BY <1>1
<1> QED BY <1>2 DEF x1, x2, x3, x4, x5, x6, x7, x8, x9, x10, x11, x12, x13, x

\* A decoded word, and its bytes again.
LEMMA DecodeWord ==
  ASSUME NEW d, NEW i, NEW j, i + 1 = j, d[i] \in U8, d[j] \in U8
  PROVE  /\ DECODE_U16(d, i) \in U16
         /\ DECODE_U16(d, i) \div 256 = d[i] /\ DECODE_U16(d, i) % 256 = d[j]
<1> DEFINE a == d[i]
           b == d[j]
<1>1. a \in 0..255 /\ b \in 0..255
  BY DEF U8
<1>2. DECODE_U16(d, i) = 256 * a + b
  BY DEF DECODE_U16
<1> HIDE DEF a, b
<1>3. 256 * a + b \in U16
  BY <1>1, WordOfBytes
<1>4. (256 * a + b) \div 256 = a /\ (256 * a + b) % 256 = b
  BY <1>1, SMTT(30)
<1> QED BY <1>2, <1>3, <1>4 DEF a, b

\* The widths one by one.
LEMMA FieldsOf ==
  ASSUME NEW x, x.ver = IP_VERSION, x.IHL \in 5..15, x.tos \in U8, x.ttl \in U8, x.proto \in U8,
         x.id \in U16, x.flag \in 0..7, x.frag_off \in 0..8191, x.cSA \in Addrs, x.cDA \in Addrs,
         x.opt_pad \in Seq(U8), Len(x.opt_pad) = 4 * x.IHL - 20
  PROVE  FieldsFit(x)
BY DEF FieldsFit

\* The first n words of 32 bits of d are h.
Front(d, h, n) ==
  /\ n \in 5..15 /\ Len(h) = 4 * n /\ Len(d) >= 4 * n
  /\ \A i \in 1..4 * n : d[i] = h[i]

\* A header whose checksum is right is what ENCODE_IP_PKT makes of its fields.
LEMMA EncodesDecoded ==
  ASSUME NEW h \in Bytes, NEW d \in Bytes, NEW n, Front(d, h, n),
         Header(d).ver = 4, Header(d).IHL = n,
         CHKSUM_IP_HDR(Header(d)) = Header(d).head_chksum
  PROVE  Fits16(Header(d)) /\ ENCODE_IP_PKT(Header(d)) = h
<1> DEFINE x == Header(d)
           k == 4 * n
           ck == CHKSUM_IP_HDR(x)
           ff == flag_frag(x)
           e == ENCODE_IP_PKT(x)
<1>1. /\ x.ver = d[1] \div 16 /\ x.IHL = d[1] % 16 /\ x.tos = d[2]
      /\ x.total_len = DECODE_U16(d, 3) /\ x.id = DECODE_U16(d, 5)
      /\ x.flag = d[7] \div 32 /\ x.frag_off = DECODE_U16(d, 7) % 8192
      /\ x.ttl = d[9] /\ x.proto = d[10] /\ x.head_chksum = DECODE_U16(d, 11)
      /\ x.cSA = At(d, 13, 4) /\ x.cDA = At(d, 17, 4)
      /\ x.opt_pad = SubSeq(d, 21, 4 * (d[1] % 16))
  BY HeaderParts
<1>2. x.ver = 4 /\ x.IHL = n /\ ck = x.head_chksum
  OBVIOUS
<1> HIDE DEF x
<1>3. k \in Nat /\ k >= 20 /\ Len(h) = k /\ Len(d) \in Nat /\ Len(d) >= k
      /\ \A i \in 1..k : d[i] = h[i]
  BY DEF Bytes, Front
<1> HIDE DEF k
<1>4. \A i \in 1..k : d[i] \in 0..255 /\ d[i] \in U8
  <2>1. \A i \in 1..k : i \in 1..Len(d)
    BY <1>3
  <2> QED BY <2>1, ByteAt
<1>5. \A i \in 1..12 : i \in 1..k /\ d[i] \in 0..255 /\ d[i] \in U8 /\ d[i] = h[i]
  <2>1. \A i \in 1..12 : i \in 1..k
    BY <1>3
  <2> QED BY <1>3, <1>4, <2>1
<1>6. /\ DECODE_U16(d, 3) \in U16
      /\ DECODE_U16(d, 3) \div 256 = d[3] /\ DECODE_U16(d, 3) % 256 = d[4]
      /\ DECODE_U16(d, 5) \in U16
      /\ DECODE_U16(d, 5) \div 256 = d[5] /\ DECODE_U16(d, 5) % 256 = d[6]
      /\ DECODE_U16(d, 7) \div 256 = d[7] /\ DECODE_U16(d, 7) % 256 = d[8]
      /\ DECODE_U16(d, 11) \div 256 = d[11] /\ DECODE_U16(d, 11) % 256 = d[12]
  <2>1. 3 + 1 = 4 /\ 5 + 1 = 6 /\ 7 + 1 = 8 /\ 11 + 1 = 12
    OBVIOUS
  <2>2. /\ d[3] \in U8 /\ d[4] \in U8 /\ d[5] \in U8 /\ d[6] \in U8 /\ d[7] \in U8
        /\ d[8] \in U8 /\ d[11] \in U8 /\ d[12] \in U8
    BY <1>5
  <2>3. /\ DECODE_U16(d, 3) \in U16
        /\ DECODE_U16(d, 3) \div 256 = d[3] /\ DECODE_U16(d, 3) % 256 = d[4]
    BY <2>1, <2>2, DecodeWord
  <2>4. /\ DECODE_U16(d, 5) \in U16
        /\ DECODE_U16(d, 5) \div 256 = d[5] /\ DECODE_U16(d, 5) % 256 = d[6]
    BY <2>1, <2>2, DecodeWord
  <2>5. DECODE_U16(d, 7) \div 256 = d[7] /\ DECODE_U16(d, 7) % 256 = d[8]
    BY <2>1, <2>2, DecodeWord
  <2>6. DECODE_U16(d, 11) \div 256 = d[11] /\ DECODE_U16(d, 11) % 256 = d[12]
    BY <2>1, <2>2, DecodeWord, SMTT(60)
  <2> QED BY <2>3, <2>4, <2>5, <2>6, Zenon
<1> DEFINE word == DECODE_U16(d, 7)
<1>7. x.flag \in 0..7 /\ x.frag_off \in 0..8191 /\ ff = word
  <2> DEFINE a == d[7]
             b == d[8]
             f == x.flag
             o == x.frag_off
  <2>1. a \in U8 /\ b \in U8
    BY <1>5
  <2>2. word = 256 * a + b
    BY DEF DECODE_U16
  <2>3. a \div 32 = f
    BY <1>1
  <2>4. word % 8192 = o
    BY <1>1
  <2>5. ff = 8192 * f + o
    BY DEF flag_frag
  <2> HIDE DEF a, b, f, o, word, ff
  <2>6. a \in 0..255 /\ b \in 0..255
    BY <2>1 DEF U8
  <2>7. f \in 0..7
    BY <2>3, <2>6, SMTT(30)
  <2>8. word \in Nat
    BY <2>2, <2>6
  <2>9. o \in 0..8191
    <3>1. o \in Int /\ 0 <= o /\ o <= 8191
      BY <2>4, <2>8, SMTT(30)
    <3> QED BY <3>1, SMTT(30)
  <2>10. 8192 * f + o = word
    BY <2>2, <2>3, <2>4, <2>6, SMTT(30)
  <2> QED BY <2>5, <2>7, <2>9, <2>10, SMTT(30) DEF f, o
<1>8. x.total_len \in U16 /\ x.id \in U16
  BY <1>1, <1>6
<1>9. /\ x.cSA \in Addrs /\ x.cDA \in Addrs
      /\ \A j \in 1..4 : x.cSA[j] = d[12 + j] /\ x.cDA[j] = d[16 + j]
  <2> DEFINE m1 == 12
             m2 == 16
             l == 4
  <2>1. /\ m1 \in Nat /\ m2 \in Nat /\ l \in Nat /\ m1 + l <= Len(d) /\ m2 + l <= Len(d)
        /\ At(d, 13, 4) = SubSeq(d, m1 + 1, m1 + l) /\ At(d, 17, 4) = SubSeq(d, m2 + 1, m2 + l)
    <3>1. 13 + 4 - 1 = m1 + l /\ 17 + 4 - 1 = m2 + l /\ 13 = m1 + 1 /\ 17 = m2 + 1
      OBVIOUS
    <3>2. At(d, 13, 4) = SubSeq(d, 13, 13 + 4 - 1) /\ At(d, 17, 4) = SubSeq(d, 17, 17 + 4 - 1)
      BY DEF At
    <3>3. m1 \in Nat /\ m2 \in Nat /\ l \in Nat /\ m1 + l <= Len(d) /\ m2 + l <= Len(d)
      BY <1>3
    <3> QED BY <3>1, <3>2, <3>3
  <2> HIDE DEF m1, m2, l
  <2>2. /\ SubSeq(d, m1 + 1, m1 + l) \in Bytes /\ Len(SubSeq(d, m1 + 1, m1 + l)) = l
        /\ \A i \in 1..l : SubSeq(d, m1 + 1, m1 + l)[i] = d[m1 + i]
    BY <2>1, PartBytes
  <2>3. /\ SubSeq(d, m2 + 1, m2 + l) \in Bytes /\ Len(SubSeq(d, m2 + 1, m2 + l)) = l
        /\ \A i \in 1..l : SubSeq(d, m2 + 1, m2 + l)[i] = d[m2 + i]
    BY <2>1, PartBytes
  <2>4. l = 4 /\ m1 = 12 /\ m2 = 16
    BY DEF l, m1, m2
  <2> DEFINE a == SubSeq(d, m1 + 1, m1 + l)
             b == SubSeq(d, m2 + 1, m2 + l)
  <2>5. x.cSA = a /\ x.cDA = b
    BY <1>1, <2>1, <2>4
  <2>6. a \in Bytes /\ Len(a) = 4 /\ b \in Bytes /\ Len(b) = 4
    BY <2>2, <2>3, <2>4
  <2>7. \A j \in 1..4 : a[j] = d[12 + j] /\ b[j] = d[16 + j]
    BY <2>2, <2>3, <2>4
  <2> HIDE DEF a, b
  <2>8. a \in Addrs /\ b \in Addrs
    BY <2>6, AddrOf
  <2> QED BY <2>5, <2>7, <2>8
<1>10. /\ x.opt_pad \in Bytes /\ Len(x.opt_pad) = k - 20
       /\ \A j \in 1..k - 20 : x.opt_pad[j] = d[20 + j]
  <2> DEFINE m == 20
             l == k - 20
  <2>1. m \in Nat /\ l \in Nat /\ m + l <= Len(d) /\ m + 1 = 21 /\ m + l = k
    BY <1>3
  <2>2. x.opt_pad = SubSeq(d, m + 1, m + l)
    <3> DEFINE q == 4 * (d[1] % 16)
    <3>1. q = k
      BY <1>1, <1>2 DEF k
    <3>2. x.opt_pad = SubSeq(d, 21, q)
      BY <1>1
    <3> HIDE DEF m, l, q
    <3> QED BY <2>1, <3>1, <3>2
  <2> HIDE DEF m, l
  <2>3. /\ SubSeq(d, m + 1, m + l) \in Bytes /\ Len(SubSeq(d, m + 1, m + l)) = l
        /\ \A i \in 1..l : SubSeq(d, m + 1, m + l)[i] = d[m + i]
    BY <2>1, PartBytes
  <2>4. m = 20 /\ l = k - 20
    BY DEF m, l
  <2> QED BY <2>2, <2>3, <2>4
<1>11. Fits16(x)
  <2>1. x.tos \in U8 /\ x.ttl \in U8 /\ x.proto \in U8
    BY <1>1, <1>5
  <2>2. x.opt_pad \in Seq(U8) /\ Len(x.opt_pad) = 4 * x.IHL - 20
    BY <1>2, <1>10 DEF Bytes, k
  <2>3. x.IHL \in 5..15 /\ x.ver = IP_VERSION
    BY <1>2, SMTT(60) DEF IP_VERSION, Front
  <2>4. x.id \in U16 /\ x.flag \in 0..7 /\ x.frag_off \in 0..8191
    BY <1>7, <1>8, SMTT(60)
  <2>5. FieldsFit(x)
    BY <1>9, <2>1, <2>2, <2>3, <2>4, FieldsOf
  <2> QED BY <1>8, <2>5 DEF Fits16
<1>12. Wire(x, e)
  BY <1>11, EncodedHeader
<1> HIDE DEF e
<1>13. e \in Bytes /\ Len(e) = k
  BY <1>2, <1>12 DEF Wire, k
<1>14. /\ e[1] = d[1] /\ e[2] = d[2] /\ e[3] = d[3] /\ e[4] = d[4] /\ e[5] = d[5] /\ e[6] = d[6]
       /\ e[7] = d[7] /\ e[8] = d[8] /\ e[9] = d[9] /\ e[10] = d[10] /\ e[11] = d[11]
       /\ e[12] = d[12]
  <2>2. /\ e[1] = 16 * x.ver + x.IHL /\ e[2] = x.tos
        /\ e[3] = x.total_len \div 256 /\ e[4] = x.total_len % 256
        /\ e[5] = x.id \div 256 /\ e[6] = x.id % 256
        /\ e[7] = ff \div 256 /\ e[8] = ff % 256
        /\ e[9] = x.ttl /\ e[10] = x.proto /\ e[11] = ck \div 256 /\ e[12] = ck % 256
    BY <1>12 DEF Wire
  <2> HIDE DEF ff, ck
  <2>3. e[1] = d[1]
    <3>1. d[1] \in Nat
      <4>1. \A b \in U8 : b \in Nat
        BY DEF U8
      <4>2. 1 \in 1..12
        OBVIOUS
      <4> QED BY <1>5, <4>1, <4>2
    <3>2. \A a \in Nat : 16 * (a \div 16) + (a % 16) = a
      BY SMTT(30)
    <3> QED BY <1>1, <2>2, <3>1, <3>2
  <2>4. e[3] = d[3] /\ e[4] = d[4]
    BY <1>1, <1>6, <2>2
  <2>5. e[5] = d[5] /\ e[6] = d[6]
    BY <1>1, <1>6, <2>2
  <2>6. e[7] = d[7] /\ e[8] = d[8]
    BY <1>6, <1>7, <2>2
  <2>7. e[11] = d[11] /\ e[12] = d[12]
    BY <1>1, <1>2, <1>6, <2>2
  <2> QED BY <1>1, <2>2, <2>3, <2>4, <2>5, <2>6, <2>7
<1>15. \A j \in 1..4 : e[12 + j] = d[12 + j] /\ e[16 + j] = d[16 + j]
  <2>1. \A j \in 1..4 : e[12 + j] = x.cSA[j] /\ e[16 + j] = x.cDA[j]
    BY <1>12 DEF Wire
  <2> QED BY <1>9, <2>1
<1>16. \A j \in 1..k - 20 : e[20 + j] = d[20 + j]
  <2>1. \A j \in 1..4 * x.IHL - 20 : e[20 + j] = x.opt_pad[j]
    BY <1>12 DEF Wire
  <2>2. 4 * x.IHL = k
    BY <1>2 DEF k
  <2> QED BY <1>10, <2>1, <2>2
<1> HIDE DEF ff, ck
<1>17. \A i \in 1..k : e[i] = d[i]
  <2> TAKE i \in 1..k
  <2>1. CASE i <= 12
    <3>1. i = 1 \/ i = 2 \/ i = 3 \/ i = 4 \/ i = 5 \/ i = 6 \/ i = 7 \/ i = 8 \/ i = 9 \/ i = 10
          \/ i = 11 \/ i = 12
      BY <1>3, <2>1
    <3> QED BY <1>14, <3>1
  <2>2. CASE i > 12 /\ i <= 16
    <3>1. i - 12 \in 1..4 /\ 12 + (i - 12) = i
      BY <1>3, <2>2
    <3> QED BY <1>15, <3>1
  <2>3. CASE i > 16 /\ i <= 20
    <3>1. i - 16 \in 1..4 /\ 16 + (i - 16) = i
      BY <1>3, <2>3
    <3> QED BY <1>15, <3>1
  <2>4. CASE i > 20
    <3>1. i - 20 \in 1..k - 20 /\ 20 + (i - 20) = i
      BY <1>3, <2>4
    <3> QED BY <1>16, <3>1
  <2> QED BY <1>3, <2>1, <2>2, <2>3, <2>4
<1>18. e = h
  <2>1. \A i \in 1..k : e[i] = h[i]
    BY <1>3, <1>17
  <2> QED BY <1>3, <1>13, <2>1, SeqEqual DEF Bytes
<1> QED BY <1>11, <1>18 DEF x, e

\* The header of an accepted datagram sums to a multiple of 65535; if a word of it
\* has been replaced, the two words are 0 and 65535.
LEMMA HeaderHit ==
  ASSUME NEW h \in Bytes, NEW k, WordIn(h, k), NEW e \in U16, e # DECODE_U16(h, 2 * k - 1),
         NEW ip, Fits16(ip), ENCODE_IP_PKT(ip) = h,
         NEW x, Fits16(x), ENCODE_IP_PKT(x) = Replaced(h, k, e)
  PROVE  Complements(DECODE_U16(h, 2 * k - 1), e)
<1> DEFINE old == DECODE_U16(h, 2 * k - 1)
           g == Replaced(h, k, e)
<1>1. PICK a \in Nat \ {0} : ByteSum(h) = 65535 * a
  BY HeaderComplete
<1>2. PICK b \in Nat \ {0} : ByteSum(g) = 65535 * b
  BY HeaderComplete
<1>3. ByteSum(g) = ByteSum(h) + (e - old)
  BY ReplacedSum
<1>4. old \in U16 /\ old # e
  BY ReplacedFacts
<1> HIDE DEF old, g
<1>5. b - a \in Int /\ e - old = 65535 * (b - a)
  <2>1. old \in Int /\ e \in Int
    BY <1>4, U16Is
  <2> QED BY <1>1, <1>2, <1>3, <2>1, SMTT(30)
<1> DEFINE j == b - a
<1>6. j \in Int /\ e - old = 65535 * j
  BY <1>5
<1> HIDE DEF j
<1>7. Complements(old, e)
  BY <1>4, <1>6, WordsApart
<1> QED BY <1>7 DEF old

-----------------------------------------------------------------------------
(*****************************************************************************)
(* What an accepted datagram says behind its header                        *)
(*****************************************************************************)

\* Eight bytes are four words.
LEMMA EightBytes ==
  ASSUME NEW u \in Bytes, Len(u) = 8
  PROVE  /\ Even(u)
         /\ DECODE_U16(u, 1) \in U16 /\ DECODE_U16(u, 3) \in U16 /\ DECODE_U16(u, 5) \in U16
         /\ DECODE_U16(u, 7) \in U16
         /\ ByteSum(u) = DECODE_U16(u, 1) + DECODE_U16(u, 3) + DECODE_U16(u, 5) + DECODE_U16(u, 7)
<1> DEFINE a == DECODE_U16(u, 1)
           b == DECODE_U16(u, 3)
           c == DECODE_U16(u, 5)
           d == DECODE_U16(u, 7)
           w == WordsOf(u)
           P == [i \in 0..4 |-> CASE i = 0 -> 0 [] i = 1 -> a [] i = 2 -> a + b
                                  [] i = 3 -> a + b + c [] i = 4 -> a + b + c + d]
<1>1. Even(u)
  BY DEF Even
<1>2. a \in U16 /\ b \in U16 /\ c \in U16 /\ d \in U16
  <2>1. 1 + 1 = 2 /\ 3 + 1 = 4 /\ 5 + 1 = 6 /\ 7 + 1 = 8
    OBVIOUS
  <2>2. /\ u[1] \in U8 /\ u[2] \in U8 /\ u[3] \in U8 /\ u[4] \in U8 /\ u[5] \in U8 /\ u[6] \in U8
        /\ u[7] \in U8 /\ u[8] \in U8
    <3>1. \A i \in 1..8 : u[i] \in U8
      BY ByteAt
    <3> QED BY <3>1
  <2> QED BY <2>1, <2>2, DecodeWord
<1>3. w \in Seq(Int) /\ Len(w) = 4 /\ SumOf(w) = ByteSum(u)
  <2>1. Len(u) \div 2 = 4
    OBVIOUS
  <2> QED BY <2>1, WordsFacts, WordsInt
<1>4. w[1] = a /\ w[2] = b /\ w[3] = c /\ w[4] = d
  <2>1. \A i \in 1..4 : w[i] = DECODE_U16(u, 2 * i - 1)
    <3>1. Len(u) \div 2 = 4
      OBVIOUS
    <3> QED BY <3>1 DEF WordsOf
  <2>2. 2 * 1 - 1 = 1 /\ 2 * 2 - 1 = 3 /\ 2 * 3 - 1 = 5 /\ 2 * 4 - 1 = 7
    OBVIOUS
  <2> QED BY <2>1, <2>2
<1>5. a \in Int /\ b \in Int /\ c \in Int /\ d \in Int
  BY <1>2, U16Is
<1> HIDE DEF a, b, c, d, w
<1>6. P \in [0..4 -> Int] /\ P[0] = 0 /\ P[1] = a /\ P[2] = a + b /\ P[3] = a + b + c
      /\ P[4] = a + b + c + d
  BY <1>5
<1> HIDE DEF P
<1>7. \A i \in 1..4 : P[i] = P[i - 1] + w[i]
  <2>1. P[1] = P[0] + w[1] /\ P[2] = P[1] + w[2] /\ P[3] = P[2] + w[3] /\ P[4] = P[3] + w[4]
    BY <1>4, <1>5, <1>6
  <2>2. 1 - 1 = 0 /\ 2 - 1 = 1 /\ 3 - 1 = 2 /\ 4 - 1 = 3
        /\ \A i \in 1..4 : i = 1 \/ i = 2 \/ i = 3 \/ i = 4
    OBVIOUS
  <2> QED BY <2>1, <2>2
<1>8. Prefixes(w, P)
  BY <1>3, <1>6, <1>7 DEF Prefixes
<1>9. ByteSum(u) = a + b + c + d
  BY <1>3, <1>6, <1>8, SumIsPrefix
<1> QED BY <1>1, <1>2, <1>9 DEF a, b, c, d

\* The checksum in v, the bytes behind the header, is right for the pseudo header that was sent.
Agrees(v) ==
  \E sum \in Nat : /\ PseudoSum(sent.ip, sent.udp.len) + ByteSum(EvenPad(v)) = sum + CHECK_SUM(sum)
                   /\ DECODE_U16(v, 7) = CHECK_SUM(sum)

\* What lies behind the header of the datagram as it is sent.
LEMMA SentAgrees ==
  ASSUME Given(sent.ip, sent.udp, sent.payload)
  PROVE  Agrees(UdpBytes(sent.ip, sent.udp, sent.payload) \o sent.payload)
<1> DEFINE ip == sent.ip
           udp == sent.udp
           p == sent.payload
           u == UdpBytes(ip, udp, p)
           sum == UdpSum(ip, udp, p)
           c == CHECK_SUM(sum)
           v == u \o p
<1>1. p \in Bytes /\ ip.cSA \in Addrs /\ ip.cDA \in Addrs /\ Ports(udp)
  BY GivenFacts
<1>2. sum \in Nat
  BY MessageFacts
<1>3. /\ u \in Bytes /\ Len(u) = 8 /\ Even(u) /\ c \in U16
      /\ ByteSum(u) = udp.src + udp.dst + udp.len + c /\ 256 * u[7] + u[8] = c
  BY <1>1, <1>2, EncodedUdp
<1> HIDE DEF ip, udp, p, u, sum
<1>4. PseudoSum(ip, udp.len) + ByteSum(EvenPad(v)) = sum + c
  <2> HIDE DEF c
  <2>1. PseudoSum(ip, udp.len) + ByteSum(EvenPad(v)) = UdpSum(ip, udp, p) + c
    BY <1>1, <1>3, DatagramSumOf
  <2> QED BY <2>1 DEF sum
<1>5. DECODE_U16(v, 7) = c
  <2>1. v[7] = u[7] /\ v[8] = u[8]
    <3>1. \A i \in 1..Len(u) : v[i] = u[i]
      BY <1>1, <1>3, Behind
    <3> HIDE DEF v
    <3> QED BY <1>3, <3>1
  <2>2. 7 + 1 = 8
    OBVIOUS
  <2> HIDE DEF c, v
  <2> QED BY <1>3, <2>1, <2>2 DEF DECODE_U16
<1> HIDE DEF v
<1>6. /\ PseudoSum(ip, udp.len) + ByteSum(EvenPad(v)) = sum + CHECK_SUM(sum)
      /\ DECODE_U16(v, 7) = CHECK_SUM(sum)
  BY <1>4, <1>5
<1> HIDE DEF c
<1>7. Agrees(v)
  BY <1>2, <1>6 DEF Agrees, ip, udp
<1> QED BY <1>7 DEF v, u, ip, udp, p

\* What lies behind the header of a datagram that DECODE_UDP_PKT accepts.
LEMMA AcceptedAgrees ==
  ASSUME NEW v \in Bytes, NEW n \in Nat, Len(v) = 8 + n, NEW z \in U8, NEW r, v \o <<z>> = r,
         NEW x, x.cSA \in Addrs, x.cDA \in Addrs, x.cSA = sent.ip.cSA, x.cDA = sent.ip.cDA,
         sent.udp.len = 8 + n, x.total_len - 4 * x.IHL = 8 + n,
         DECODE_UDP_PKT(x, r).verdict = "TRUE", DECODE_UDP_PKT(x, r).header.chksum # 0
  PROVE  Agrees(v)
<1> DEFINE u == SubSeq(v, 1, 8)
           p == SubSeq(v, 9, 8 + n)
           w == Append(p, z)
           y == UdpHeader(r)
           c == y.chksum
           t == <<z>>
<1>1. /\ u \in Bytes /\ Len(u) = 8 /\ p \in Bytes /\ Len(p) = n
      /\ \A i \in 1..8 : u[i] = v[i]
      /\ \A j \in 1..n : p[j] = v[8 + j]
  <2> DEFINE m == 0
             e == 8
  <2>1. m \in Nat /\ e \in Nat /\ m + e <= Len(v) /\ e + n <= Len(v)
    OBVIOUS
  <2> HIDE DEF m, e
  <2>2. /\ SubSeq(v, m + 1, m + e) \in Bytes /\ Len(SubSeq(v, m + 1, m + e)) = e
        /\ \A i \in 1..e : SubSeq(v, m + 1, m + e)[i] = v[m + i]
    BY <2>1, PartBytes
  <2>3. /\ SubSeq(v, e + 1, e + n) \in Bytes /\ Len(SubSeq(v, e + 1, e + n)) = n
        /\ \A i \in 1..n : SubSeq(v, e + 1, e + n)[i] = v[e + i]
    BY <2>1, PartBytes
  <2>4. m = 0 /\ e = 8 /\ m + 1 = 1 /\ m + e = 8 /\ e + 1 = 9 /\ \A i \in 1..8 : m + i = i
    BY DEF m, e
  <2> QED BY <2>2, <2>3, <2>4
<1> HIDE DEF u, p
<1>2. v = u \o p
  <2> DEFINE s == u \o p
  <2>1. /\ s \in Bytes /\ Len(s) = 8 + n
        /\ \A i \in 1..8 : s[i] = u[i]
        /\ \A j \in 1..n : s[8 + j] = p[j]
    <3>1. Even(u)
      BY <1>1, EightBytes
    <3>2. /\ s \in Bytes /\ Len(s) = Len(u) + Len(p)
          /\ \A i \in 1..Len(u) : s[i] = u[i]
          /\ \A j \in 1..Len(p) : s[Len(u) + j] = p[j]
      BY <1>1, <3>1, Behind
    <3> HIDE DEF s
    <3> QED BY <1>1, <3>2
  <2> HIDE DEF s
  <2>2. \A i \in 1..8 + n : s[i] = v[i]
    <3> TAKE i \in 1..8 + n
    <3>1. CASE i <= 8
      BY <1>1, <2>1, <3>1
    <3>2. CASE i > 8
      <4>1. i - 8 \in 1..n /\ 8 + (i - 8) = i
        BY <3>2
      <4> QED BY <1>1, <2>1, <4>1, ZenonT(60)
    <3> QED BY <3>1, <3>2
  <2>3. s = v
    BY <2>1, <2>2, SeqEqual DEF Bytes
  <2> QED BY <2>3 DEF s
<1>3. /\ w \in Bytes /\ Len(w) = n + 1 /\ Len(w) >= n + (n % 2) /\ \A i \in 1..n : w[i] = p[i]
  BY <1>1, InBuffer
<1>4. r = u \o w
  <2>1. t \in Seq(U8) /\ p \in Seq(U8) /\ u \in Seq(U8)
    BY <1>1 DEF Bytes
  <2>2. w = p \o t
    BY <2>1, AppendIsConcat
  <2>3. r = (u \o p) \o t
    BY <1>2
  <2> HIDE DEF t, w
  <2>4. (u \o p) \o t = u \o (p \o t)
    BY <2>1, BytesAssociative
  <2> QED BY <2>2, <2>3, <2>4
<1> HIDE DEF w
<1>5. SubSeq(r, UDP_HDR_LEN + 1, Len(r)) = w
  <2>1. SubSeq(u \o w, Len(u) + 1, Len(u \o w)) = w
    BY <1>1, <1>3, Split
  <2> QED BY <1>1, <1>4, <2>1 DEF UDP_HDR_LEN
<1>6. \A i \in 1..8 : r[i] = u[i]
  <2>1. \A i \in 1..Len(u) : (u \o w)[i] = u[i]
    BY <1>1, <1>3, EightBytes, Behind
  <2> QED BY <1>1, <1>4, <2>1
<1>7. y.src = DECODE_U16(u, 1) /\ y.dst = DECODE_U16(u, 3) /\ y.len = DECODE_U16(u, 5)
      /\ c = DECODE_U16(u, 7)
  <2>1. /\ y.src = DECODE_U16(r, 1) /\ y.dst = DECODE_U16(r, 3) /\ y.len = DECODE_U16(r, 5)
        /\ c = DECODE_U16(r, 7)
    BY DEF UdpHeader
  <2>2. 1 + 1 = 2 /\ 3 + 1 = 4 /\ 5 + 1 = 6 /\ 7 + 1 = 8
    OBVIOUS
  <2>3. r[1] = u[1] /\ r[2] = u[2] /\ r[3] = u[3] /\ r[4] = u[4] /\ r[5] = u[5] /\ r[6] = u[6]
        /\ r[7] = u[7] /\ r[8] = u[8]
    BY <1>6
  <2>4. /\ DECODE_U16(r, 1) = DECODE_U16(u, 1) /\ DECODE_U16(r, 3) = DECODE_U16(u, 3)
        /\ DECODE_U16(r, 5) = DECODE_U16(u, 5) /\ DECODE_U16(r, 7) = DECODE_U16(u, 7)
    BY <2>2, <2>3 DEF DECODE_U16
  <2> HIDE DEF y, c
  <2> QED BY <2>1, <2>4
<1>8. /\ Even(u) /\ y.src \in U16 /\ y.dst \in U16 /\ y.len \in U16 /\ c \in U16
      /\ ByteSum(u) = y.src + y.dst + y.len + c
  <2> HIDE DEF y, c
  <2> QED BY <1>1, <1>7, EightBytes
<1>9. /\ y.len = x.total_len - 4 * x.IHL /\ c # 0 /\ CHKSUM_UDP(x, y, w) = c
  <2> DEFINE good == /\ y.len = x.total_len - 4 * x.IHL
                     /\ c = 0 \/ CHKSUM_UDP(x, y, w) = c
             rest == IF c = 0 THEN w ELSE Padded(w, y.len - UDP_HDR_LEN)
  <2>1. DECODE_UDP_PKT(x, r) = IF good THEN Decoded("TRUE", y, rest) ELSE Decoded("ERROR", y, w)
    BY <1>5 DEF DECODE_UDP_PKT
  <2>2. Decoded("ERROR", y, w).verdict = "ERROR" /\ Decoded("TRUE", y, rest).header = y
    BY DEF Decoded
  <2> HIDE DEF rest, y
  <2>3. good
    BY <2>1, <2>2
  <2>4. DECODE_UDP_PKT(x, r).header = y
    BY <2>1, <2>2, <2>3
  <2> QED BY <2>3, <2>4
<1> HIDE DEF y
<1> DEFINE sum == UdpSum(x, y, p)
<1>10. c = CHECK_SUM(sum) /\ sum \in Nat
  <2>1. Ports(y)
    BY <1>8 DEF Ports
  <2>2. y.len = UDP_HDR_LEN + Len(p)
    BY <1>1, <1>9 DEF UDP_HDR_LEN
  <2>3. /\ Len(w) >= Len(p) + (Len(p) % 2) /\ \A i \in 1..Len(p) : w[i] = p[i]
    BY <1>1, <1>3
  <2>4. CHKSUM_UDP(x, y, w) = CHECK_SUM(UdpSum(x, y, p)) /\ UdpSum(x, y, p) \in Nat
    BY <1>1, <1>3, <2>1, <2>2, <2>3, UdpChecksum
  <2> QED BY <1>9, <2>4
<1>11. PseudoSum(x, y.len) + ByteSum(EvenPad(u \o p)) = sum + c
  <2>1. Ports(y)
    BY <1>8 DEF Ports
  <2> HIDE DEF c
  <2> QED BY <1>1, <1>8, <2>1, DatagramSumOf
<1>12. PseudoSum(sent.ip, sent.udp.len) = PseudoSum(x, y.len)
  BY <1>9 DEF PseudoSum
<1>13. DECODE_U16(v, 7) = c
  <2>1. v[7] = u[7] /\ v[8] = u[8] /\ 7 + 1 = 8
    BY <1>1
  <2> QED BY <1>7, <2>1 DEF DECODE_U16
<1> HIDE DEF c, sum
<1>14. /\ PseudoSum(sent.ip, sent.udp.len) + ByteSum(EvenPad(v)) = sum + CHECK_SUM(sum)
       /\ DECODE_U16(v, 7) = CHECK_SUM(sum)
  BY <1>2, <1>10, <1>11, <1>12, <1>13
<1> QED BY <1>10, <1>14 DEF Agrees

\* What agrees sums to a multiple of 65535, but for what the carry does not hold.
LEMMA AgreedSum ==
  ASSUME NEW h \in Bytes, Len(h) = 4 * sent.ip.IHL, sent.ip.IHL \in 5..15, NEW v \in Bytes,
         Len(v) >= 8, Agrees(v),
         sent.ip.cSA \in Addrs, sent.ip.cDA \in Addrs, sent.udp.len \in U16
  PROVE  /\ CarryLost(h \o v) \in Int
         /\ \E k \in Int : PseudoSum(sent.ip, sent.udp.len) + ByteSum(EvenPad(v))
                             = 65535 * k + CarryRange * CarryLost(h \o v)
<1> DEFINE w == h \o v
           l == 4 * sent.ip.IHL
           all == PseudoSum(sent.ip, sent.udp.len) + ByteSum(EvenPad(v))
<1>1. PICK sum \in Nat : all = sum + CHECK_SUM(sum) /\ DECODE_U16(v, 7) = CHECK_SUM(sum)
  BY DEF Agrees
<1>2. l \in Nat /\ l % 2 = 0 /\ l >= 20 /\ Len(v) \in Nat
  <2> DEFINE i == sent.ip.IHL
  <2>1. i \in 5..15
    OBVIOUS
  <2> HIDE DEF i
  <2>2. 4 * i \in Nat /\ (4 * i) % 2 = 0 /\ 4 * i >= 20
    BY <2>1, SMTT(30)
  <2>3. Len(v) \in Nat
    BY DEF Bytes
  <2>4. l = 4 * i
    BY DEF i
  <2> HIDE DEF l
  <2> QED BY <2>2, <2>3, <2>4
<1>3. Even(h)
  BY <1>2 DEF Even
<1>4. SubSeq(w, l + 1, Len(w)) = v
  BY Split
<1>5. SumOf(UdpWords(w)) = all
  <2> HIDE DEF w, l
  <2>1. SubSeq(w, 4 * sent.ip.IHL + 1, Len(w)) = v
    BY <1>4 DEF l
  <2>2. SumOf(UdpWords(w)) = PseudoSum(sent.ip, sent.udp.len) + ByteSum(EvenPad(v))
    BY <2>1, UdpWordsSum
  <2> QED BY <2>2
<1> HIDE DEF all
<1>6. DECODE_U16(w, l + 7) = CHECK_SUM(sum)
  <2>1. \A j \in 1..Len(v) : w[Len(h) + j] = v[j]
    BY <1>3, Behind
  <2>2. 7 \in 1..Len(v) /\ 8 \in 1..Len(v) /\ (l + 7) + 1 = l + 8 /\ 7 + 1 = 8
    BY <1>2
  <2> HIDE DEF w
  <2>3. w[l + 7] = v[7] /\ w[l + 8] = v[8]
    BY <2>1, <2>2
  <2> HIDE DEF l
  <2>4. DECODE_U16(w, l + 7) = DECODE_U16(v, 7)
    BY <2>2, <2>3 DEF DECODE_U16
  <2> QED BY <1>1, <2>4
<1> DEFINE c == CHECK_SUM(sum)
<1>7. c \in Int
  BY CheckSumFits, U16Is
<1> DEFINE q == CarryLost(w)
<1>8. sum \div CarryRange = q
  <2> HIDE DEF c
  <2>1. all - c = sum
    BY <1>1, <1>7 DEF c
  <2>2. q = (SumOf(UdpWords(w)) - DECODE_U16(w, l + 7)) \div CarryRange
    BY DEF CarryLost, CarryRange
  <2> HIDE DEF w, l, q
  <2> QED BY <1>5, <1>6, <2>1, <2>2 DEF c
<1> HIDE DEF q, w
<1>9. q \in Int /\ \E k \in Int : sum + CHECK_SUM(sum) = 65535 * k + CarryRange * q
  BY <1>8, CheckSumLoses
<1>10. \E k \in Int : all = 65535 * k + CarryRange * q
  BY <1>1, <1>9
<1> QED BY <1>9, <1>10 DEF all, q, w

\* A word behind the header has been replaced, and the checksum agrees both ways.
LEMMA BodyHit ==
  ASSUME NEW h \in Bytes, Len(h) = 4 * sent.ip.IHL, sent.ip.IHL \in 5..15, NEW v \in Bytes,
         Len(v) >= 8, sent.ip.cSA \in Addrs, sent.ip.cDA \in Addrs, sent.udp.len \in U16,
         NEW j, WordIn(v, j), NEW e \in U16, e # DECODE_U16(v, 2 * j - 1),
         Agrees(v), Agrees(Replaced(v, j, e)),
         CarryLost(h \o v) = CarryLost(h \o Replaced(v, j, e))
  PROVE  Complements(DECODE_U16(v, 2 * j - 1), e)
<1> DEFINE g == Replaced(v, j, e)
           old == DECODE_U16(v, 2 * j - 1)
           s == PseudoSum(sent.ip, sent.udp.len)
           x == ByteSum(EvenPad(v))
           y == ByteSum(EvenPad(g))
           q == CarryLost(h \o v)
<1>1. g \in Bytes /\ Len(g) = Len(v) /\ old \in U16
  BY ReplacedFacts
<1>2. y = x + (e - old)
  BY ReplacedPadded
<1>3. PICK a \in Int : s + x = 65535 * a + CarryRange * q
  BY AgreedSum
<1> HIDE DEF g, old
<1>4. Len(g) >= 8 /\ Agrees(g) /\ CarryLost(h \o g) = q
  BY <1>1 DEF g
<1>5. PICK b \in Int : s + y = 65535 * b + CarryRange * q
  <2> HIDE DEF q
  <2>1. g \in Bytes /\ Len(g) >= 8 /\ Agrees(g)
    BY <1>1, <1>4
  <2>2. /\ CarryLost(h \o g) \in Int
        /\ \E b \in Int : PseudoSum(sent.ip, sent.udp.len) + ByteSum(EvenPad(g))
                             = 65535 * b + CarryRange * CarryLost(h \o g)
    BY <2>1, AgreedSum
  <2> QED BY <1>4, <2>2
<1>6. x \in Int /\ y \in Int /\ s \in Int /\ old \in Int /\ e \in Int
  <2>1. x \in Int /\ y \in Int
    BY <1>1, EvenPadFacts, WordsInt
  <2>2. s \in Int
    <3>1. sent.ip.cSA \in Bytes /\ sent.ip.cDA \in Bytes
      BY AddrFacts
    <3>2. ByteSum(sent.ip.cSA) \in Nat /\ ByteSum(sent.ip.cDA) \in Nat
      BY <3>1, WordsInt
    <3>3. sent.udp.len \in Nat
      BY U16Is
    <3> QED BY <3>2, <3>3 DEF PseudoSum, PROTO_TYPE_UDP
  <2> QED BY <1>1, <2>1, <2>2, U16Is
<1>7. s + y = (s + x) + (e - old)
  <2> HIDE DEF s, x, y
  <2> QED BY <1>2, <1>6
<1> DEFINE k == b - a
           t == CarryRange * q
           f == s + x
           f2 == s + y
<1>8. f \in Int /\ f2 \in Int /\ f = 65535 * a + t /\ f2 = 65535 * b + t /\ f2 = f + (e - old)
  <2>1. f = 65535 * a + t /\ f2 = 65535 * b + t
    BY <1>3, <1>5
  <2>2. f \in Int /\ f2 \in Int
    BY <1>6
  <2> QED BY <1>7, <2>1, <2>2
<1> HIDE DEF f, f2
<1>9. q \in Int
  <2> HIDE DEF q
  <2>1. CarryLost(h \o v) \in Int
    BY AgreedSum
  <2> QED BY <2>1 DEF q
<1>10. t \in Int
  BY <1>9 DEF CarryRange
<1> HIDE DEF t
<1>11. k \in Int /\ e - old = 65535 * k
  BY <1>6, <1>8, <1>10, SMTT(30)
<1> HIDE DEF k
<1>12. Complements(old, e)
  <2>1. old # e
    BY DEF old
  <2> QED BY <1>1, <1>11, <2>1, WordsApart
<1> QED BY <1>12 DEF old

-----------------------------------------------------------------------------
(*****************************************************************************)
(* The damage                                                              *)
(*****************************************************************************)

\* What was sent, but for one word.
Original == Message(sent.ip, sent.udp, sent.payload)

Hurt ==
  /\ Given(sent.ip, sent.udp, sent.payload)
  /\ WordIn(Original, hit.word)
  /\ hit.was = DECODE_U16(Original, 2 * hit.word - 1)
  /\ \E e \in U16 \ {hit.was} : wire = Replaced(Original, hit.word, e)

\* Damage changes one word, into another.
LEMMA DamageHurts ==
  ASSUME Intact, Damage
  PROVE  Hurt'
<1> DEFINE m == Original
<1>1. Given(sent.ip, sent.udp, sent.payload) /\ wire = m
  BY DEF Intact, Original
<1>2. m \in Bytes
  BY <1>1, MessageFacts DEF Original
<1> HIDE DEF m
<1>3. PICK k \in Hits, d \in Damages :
        /\ 2 * k <= Len(wire)
        /\ hit' = Hit(k, WordAt(k))
        /\ wire' = Replace(k, (WordAt(k) + d) % 65536)
  BY DEF Damage
<1>4. k \in Nat \ {0} /\ d \in U16 \ {0}
  <2>1. Hits \subseteq Nat \ {0} /\ Damages \subseteq U16 \ {0}
    BY DamagesAssumption
  <2> QED BY <1>3, <2>1
<1> DEFINE old == DECODE_U16(m, 2 * k - 1)
           e == (old + d) % 65536
<1>5. WordIn(m, k)
  BY <1>1, <1>3, <1>4 DEF WordIn
<1>6. /\ hit' = Hit(k, old) /\ wire' = Replaced(m, k, e)
  BY <1>1, <1>3 DEF WordAt, Replace, Replaced
<1>7. old \in U16
  <2>1. 0 \in U16
    BY U16Is
  <2> QED BY <1>2, <1>5, <2>1, ReplacedFacts
<1> HIDE DEF old
<1>8. e \in U16 /\ e # old
  <2>1. old \in Nat /\ old <= 65535 /\ d \in Nat /\ d <= 65535 /\ d # 0
    BY <1>4, <1>7, U16Is
  <2>2. e \in Nat /\ e <= 65535
    BY <2>1, SMTT(30)
  <2>3. e # old
    <3>1. CASE old + d < 65536
      BY <2>1, <3>1, SMTT(30)
    <3>2. CASE ~ (old + d < 65536)
      <4>1. (old + d) % 65536 = old + d - 65536
        BY <2>1, <3>2, SMTT(30)
      <4> QED BY <2>1, <4>1, SMTT(30)
    <3> QED BY <3>1, <3>2
  <2> QED BY <2>2, <2>3, U16Is
<1> HIDE DEF e
<1>9. hit'.word = k /\ hit'.was = old
  BY <1>6 DEF Hit
<1>10. sent' = sent /\ Original' = m
  BY DEF Damage, Original, m
<1> QED BY <1>1, <1>5, <1>6, <1>8, <1>9, <1>10 DEF Hurt, old

\* Damage in front: the header DECODE_IP_PKT accepts is what ENCODE_IP_PKT makes of it.
LEMMA FrontComplements ==
  ASSUME NEW ip, Fits16(ip), NEW h \in Bytes, ENCODE_IP_PKT(ip) = h, Even(h), NEW n \in 5..15,
         Len(h) = 4 * n, NEW k, WordIn(h, k), NEW e \in U16, e # DECODE_U16(h, 2 * k - 1),
         NEW s \in Bytes, NEW d, Replaced(h, k, e) \o s = d, Header(d).ver = 4,
         Header(d).IHL = n, CHKSUM_IP_HDR(Header(d)) = Header(d).head_chksum
  PROVE  Complements(DECODE_U16(h, 2 * k - 1), e)
<1> DEFINE g == Replaced(h, k, e)
           x == Header(d)
<1>1. g \in Bytes /\ Len(g) = Len(h)
  BY ReplacedFacts
<1>2. g \o s = d
  OBVIOUS
<1> HIDE DEF g, x
<1>3. Even(g)
  BY <1>1 DEF Even
<1>4. d \in Bytes /\ Len(d) = Len(g) + Len(s) /\ \A i \in 1..Len(g) : d[i] = g[i]
  <2>1. g \o s \in Bytes /\ Len(g \o s) = Len(g) + Len(s) /\ \A i \in 1..Len(g) : (g \o s)[i] = g[i]
    BY <1>1, <1>3, Behind
  <2> QED BY <1>2, <2>1
<1>5. Len(s) \in Nat
  BY DEF Bytes
<1>6. Len(g) = 4 * n /\ Len(d) >= 4 * n /\ \A i \in 1..4 * n : d[i] = g[i]
  BY <1>1, <1>4, <1>5
<1>7. Fits16(Header(d)) /\ ENCODE_IP_PKT(Header(d)) = g
  BY <1>1, <1>4, <1>6, EncodesDecoded DEF Front
<1>8. Fits16(x) /\ ENCODE_IP_PKT(x) = Replaced(h, k, e)
  BY <1>7 DEF x, g
<1> QED BY <1>8, HeaderHit

\* The decoders take it.
Passed(x, r) ==
  /\ x.ver = IP_VERSION /\ CHKSUM_IP_HDR(x) = x.head_chksum /\ x.IHL = sent.ip.IHL
  /\ DECODE_UDP_PKT(x, r).verdict = "TRUE" /\ DECODE_UDP_PKT(x, r).header.chksum # 0

\* What Receive leaves behind the datagram in its buffer.
Leftover == <<85>>

\* What is sent is a header and what its checksum agrees with.
SentParts(h, v) ==
  /\ h \in Bytes /\ ENCODE_IP_PKT(sent.ip) = h /\ Wire(sent.ip, h) /\ Len(h) = 4 * sent.ip.IHL
  /\ v \in Bytes /\ Len(v) = 8 + Len(sent.payload) /\ Agrees(v)
  /\ Original = h \o v

\* There are such parts.
LEMMA SentInParts ==
  ASSUME Given(sent.ip, sent.udp, sent.payload)
  PROVE  \E h, v : SentParts(h, v)
<1> DEFINE ip == sent.ip
           udp == sent.udp
           p == sent.payload
           u == UdpBytes(ip, udp, p)
           v == u \o p
           h == ENCODE_IP_PKT(ip)
           n == Len(p)
<1>1. Given(ip, udp, p) /\ Original = Message(ip, udp, p)
  BY DEF Original
<1>2. Agrees(v)
  BY SentAgrees
<1> HIDE DEF ip, udp, p
<1>3. /\ h \in Bytes /\ Len(h) = 4 * ip.IHL /\ Wire(ip, h)
      /\ v \in Bytes /\ Len(v) = 8 + n /\ Message(ip, udp, p) = h \o v
  <2>1. h \in Bytes /\ Len(h) = 4 * ip.IHL /\ Wire(ip, h)
    BY <1>1, MessageFacts, SMTT(30)
  <2>2. v \in Bytes /\ Len(v) = 8 + n
    BY <1>1, MessageFacts, SMTT(30)
  <2>3. Message(ip, udp, p) = h \o v
    BY <1>1, MessageFacts, SMTT(30)
  <2> QED BY <2>1, <2>2, <2>3
<1>4. h = ENCODE_IP_PKT(sent.ip) /\ n = Len(sent.payload) /\ ip = sent.ip
  BY DEF ip, p
<1> HIDE DEF h, v, n, u
<1>5. SentParts(h, v)
  BY <1>1, <1>2, <1>3, <1>4 DEF SentParts
<1> QED BY <1>5

\* Damage behind the header: the header decodes to what was sent, and
\* DECODE_UDP_PKT takes the checksum over the damaged rest.
LEMMA BackComplements ==
  ASSUME Given(sent.ip, sent.udp, sent.payload), NEW h, NEW v, SentParts(h, v),
         NEW j, WordIn(v, j), NEW e \in U16, e # DECODE_U16(v, 2 * j - 1),
         NEW d, h \o (Replaced(v, j, e) \o Leftover) = d, NEW x, Header(d) = x,
         NEW r, SubSeq(d, 4 * x.IHL + 1, Len(d)) = r, Passed(x, r),
         CarryLost(h \o v) = CarryLost(h \o Replaced(v, j, e))
  PROVE  Complements(DECODE_U16(v, 2 * j - 1), e)
<1> DEFINE n == Len(sent.payload)
<1>a. /\ Fits16(sent.ip) /\ sent.ip.IHL \in 5..15 /\ sent.ip.cSA \in Addrs
      /\ sent.ip.cDA \in Addrs /\ sent.udp.len = UDP_HDR_LEN + n /\ n \in Nat
      /\ Ports(sent.udp) /\ sent.ip.total_len = 4 * sent.ip.IHL + sent.udp.len
  BY GivenFacts
<1>b. sent.udp.len \in U16 /\ sent.udp.len = 8 + n
  BY <1>a DEF Ports, UDP_HDR_LEN
<1>c. /\ h \in Bytes /\ Wire(sent.ip, h) /\ Len(h) = 4 * sent.ip.IHL
      /\ v \in Bytes /\ Len(v) = 8 + n /\ Agrees(v)
  BY DEF SentParts
<1>d. /\ x.IHL = sent.ip.IHL /\ DECODE_UDP_PKT(x, r).verdict = "TRUE"
      /\ DECODE_UDP_PKT(x, r).header.chksum # 0
  BY DEF Passed
<1> HIDE DEF n
<1> DEFINE g == Replaced(v, j, e)
           y == 85
           s == g \o <<y>>
<1>1. g \in Bytes /\ Len(g) = 8 + n
  BY <1>c, ReplacedFacts
<1> HIDE DEF g
<1>2. y \in U8
  BY DEF U8
<1>3. s \in Bytes
  BY <1>1, <1>2, ConcatProperties DEF Bytes
<1>4. d = h \o s
  BY DEF g, Leftover
<1>5. g \o <<y>> = s
  OBVIOUS
<1> HIDE DEF s, y
<1>6. x.total_len = sent.ip.total_len /\ x.cSA = sent.ip.cSA /\ x.cDA = sent.ip.cDA
  <2>1. /\ Header(h \o s).total_len = sent.ip.total_len /\ Header(h \o s).cSA = sent.ip.cSA
        /\ Header(h \o s).cDA = sent.ip.cDA
    BY <1>a, <1>c, <1>3, DecodesHeader
  <2> QED BY <1>4, <2>1
<1>7. g \o <<y>> = r
  <2>1. SubSeq(h \o s, Len(h) + 1, Len(h \o s)) = s
    BY <1>c, <1>3, Split
  <2> QED BY <1>c, <1>d, <1>4, <1>5, <2>1
<1>8. x.total_len - 4 * x.IHL = 8 + n
  <2> DEFINE i == sent.ip.IHL
             l == x.total_len
             w == x.IHL
             q == sent.udp.len
  <2>1. i \in 5..15 /\ w = i
    BY <1>a, <1>d
  <2>2. l = 4 * i + q
    BY <1>a, <1>6
  <2>3. q = 8 + n /\ n \in Nat
    BY <1>a, <1>b
  <2> HIDE DEF i, l, w, q
  <2>4. l - 4 * w = 8 + n
    BY <2>1, <2>2, <2>3
  <2> QED BY <2>4 DEF l, w
<1>9. Agrees(g)
  <2>1. x.cSA \in Addrs /\ x.cDA \in Addrs /\ x.cSA = sent.ip.cSA /\ x.cDA = sent.ip.cDA
    BY <1>a, <1>6
  <2> QED BY <1>a, <1>b, <1>d, <1>1, <1>2, <1>7, <1>8, <2>1, AcceptedAgrees
<1>10. Agrees(Replaced(v, j, e))
  BY <1>9 DEF g
<1>11. Len(v) >= 8
  BY <1>a, <1>c
<1> QED BY <1>a, <1>b, <1>c, <1>10, <1>11, BodyHit

\* A damage that neither decoder notices, and that does not hide in the carry,
\* has made FFFF of 0000 or the other way round.
LEMMA OnlyComplements ==
  ASSUME Given(sent.ip, sent.udp, sent.payload), NEW k, WordIn(Original, k), NEW e \in U16,
         e # DECODE_U16(Original, 2 * k - 1), wire = Replaced(Original, k, e),
         CarryLost(wire) = CarryLost(Original),
         NEW d, wire \o Leftover = d, NEW x, Header(d) = x, NEW r, SubSeq(d, 4 * x.IHL + 1, Len(d)) = r,
         Passed(x, r)
  PROVE  Complements(DECODE_U16(Original, 2 * k - 1), e)
<1> DEFINE n == sent.ip.IHL
           z == Leftover
<1>1. Fits16(sent.ip) /\ n \in 5..15
  BY GivenFacts
<1>2. PICK h, v : SentParts(h, v)
  BY SentInParts
<1>3. /\ h \in Bytes /\ ENCODE_IP_PKT(sent.ip) = h /\ Wire(sent.ip, h) /\ Len(h) = 4 * n
      /\ v \in Bytes /\ Original = h \o v
  BY <1>2 DEF SentParts
<1> HIDE DEF n
<1>4. z \in Seq(U8)
  BY DEF U8, Leftover
<1> HIDE DEF z
<1>5. Even(h)
  BY <1>3 DEF Wire
<1>6. /\ WordIn(h \o v, k) /\ wire = Replaced(h \o v, k, e) /\ wire \o z = d
      /\ e # DECODE_U16(h \o v, 2 * k - 1) /\ CarryLost(h \o v) = CarryLost(wire) /\ x.ver = 4
  BY <1>3 DEF z, IP_VERSION, Passed
<1>7. CASE 2 * k <= Len(h)
  <2> DEFINE g == Replaced(h, k, e)
  <2>1. WordIn(h, k)
    BY <1>6, <1>7 DEF WordIn
  <2>2. wire = Replaced(h, k, e) \o v /\ DECODE_U16(h \o v, 2 * k - 1) = DECODE_U16(h, 2 * k - 1)
    BY <1>3, <1>6, <2>1, ReplacedInFront, SMTT(60)
  <2>3. g \in Seq(U8) /\ v \in Seq(U8)
    BY <1>3, <2>1, ReplacedFacts DEF Bytes
  <2> HIDE DEF g
  <2>4. (g \o v) \o z = g \o (v \o z)
    BY <1>4, <2>3, BytesAssociative, SMTT(30)
  <2>5. v \o z \in Bytes
    BY <1>3, <1>4, <2>3, ConcatProperties DEF Bytes
  <2>6. Replaced(h, k, e) \o (v \o z) = d
    BY <1>6, <2>2, <2>4 DEF g
  <2> DEFINE s == v \o z
  <2>7. s \in Bytes /\ Replaced(h, k, e) \o s = d
    BY <2>5, <2>6
  <2> HIDE DEF s
  <2>8. /\ Header(d).ver = 4 /\ Header(d).IHL = n /\ CHKSUM_IP_HDR(Header(d)) = Header(d).head_chksum
        /\ e # DECODE_U16(h, 2 * k - 1)
    BY <1>6, <2>2 DEF n, Passed
  <2>9. Complements(DECODE_U16(h, 2 * k - 1), e)
    BY <1>1, <1>3, <1>5, <2>1, <2>7, <2>8, FrontComplements
  <2> QED BY <1>3, <2>2, <2>9
<1>8. CASE 2 * k > Len(h)
  <2>1. PICK j : /\ WordIn(v, j) /\ Replaced(h \o v, k, e) = h \o Replaced(v, j, e)
                 /\ DECODE_U16(h \o v, 2 * k - 1) = DECODE_U16(v, 2 * j - 1)
    <3>1. h \in Bytes /\ v \in Bytes /\ Even(h) /\ WordIn(h \o v, k) /\ 2 * k > Len(h) /\ e \in U16
      BY <1>3, <1>5, <1>6, <1>8
    <3> QED BY <3>1, ReplacedBehind, SMTT(30)
  <2> DEFINE g == Replaced(v, j, e)
  <2>2. g \in Seq(U8) /\ h \in Seq(U8)
    BY <1>3, <2>1, ReplacedFacts DEF Bytes
  <2> HIDE DEF g
  <2>3. (h \o g) \o z = h \o (g \o z)
    BY <1>4, <2>2, BytesAssociative, SMTT(30)
  <2>4. h \o (Replaced(v, j, e) \o Leftover) = d
    BY <1>6, <2>1, <2>3 DEF g, z
  <2>5. /\ e # DECODE_U16(v, 2 * j - 1)
        /\ CarryLost(h \o v) = CarryLost(h \o Replaced(v, j, e))
    BY <1>6, <2>1
  <2>8. Complements(DECODE_U16(v, 2 * j - 1), e)
    BY <1>2, <2>1, <2>4, <2>5, BackComplements
  <2> QED BY <1>3, <2>1, <2>8
<1>9. 2 * k <= Len(h) \/ 2 * k > Len(h)
  BY <1>3, <1>6 DEF WordIn, Bytes
<1> QED BY <1>7, <1>8, <1>9

\* Receive, given a damaged datagram, refuses it, unless the damage is invisible.
LEMMA HurtNoticed ==
  ASSUME Hurt, Receive
  PROVE  DamageNoticed'
<1> DEFINE m == Original
           k == hit.word
           old == hit.was
           d == Append(wire, 85)
           x == Header(d)
           r == SubSeq(d, 4 * x.IHL + 1, Len(d))
           y == DECODE_UDP_PKT(x, r)
<1>1. Given(sent.ip, sent.udp, sent.payload) /\ WordIn(m, k) /\ old = DECODE_U16(m, 2 * k - 1)
  BY DEF Hurt
<1>2. PICK e \in U16 \ {old} : wire = Replaced(m, k, e)
  BY DEF Hurt
<1>3. m \in Bytes
  BY <1>1, MessageFacts DEF Original
<1>4. sent' = sent /\ wire' = wire /\ hit' = hit
  BY DEF Receive
<1>5. CarryLost(wire)' = CarryLost(wire)
  BY <1>4 DEF CarryLost, UdpWords
<1>6. wire \in Bytes /\ DECODE_U16(wire, 2 * k - 1) = e /\ Replaced(wire, k, old) = m
  <2>1. Replaced(m, k, e) \in Bytes /\ DECODE_U16(Replaced(m, k, e), 2 * k - 1) = e
    BY <1>1, <1>2, <1>3, ReplacedFacts
  <2>2. Replaced(Replaced(m, k, e), k, DECODE_U16(m, 2 * k - 1)) = m
    BY <1>1, <1>2, <1>3, ReplacedBack
  <2> QED BY <1>1, <1>2, <2>1, <2>2
<1>7. CarryLost(Replace(hit.word, hit.was))' = CarryLost(m)
  <2>1. Replace(hit.word, hit.was)' = Replaced(wire, k, old)
    BY <1>4 DEF Replace, Replaced
  <2>2. Replace(hit.word, hit.was)' = m
    BY <1>6, <2>1
  <2> QED BY <1>4, <2>2 DEF CarryLost, UdpWords
<1>8. WordAt(hit.word)' = e
  BY <1>4, <1>6 DEF WordAt
<1> SUFFICES ASSUME got'.ip = "TRUE", got'.udp = "TRUE", ~ Invisible' PROVE FALSE
  BY DEF DamageNoticed, Accepted
<1>9. /\ ~ Complements(old, e) /\ got'.udpHeader.chksum # 0
      /\ got'.header.IHL = sent.ip.IHL /\ CarryLost(wire) = CarryLost(m)
  BY <1>4, <1>5, <1>7, <1>8 DEF Invisible, Complements
<1> HIDE DEF m, k, old
<1>10. /\ DECODE_IP_PKT(d).header = x /\ DECODE_IP_PKT(d).rest = r
       /\ DECODE_IP_PKT(d).verdict # "ERROR"
            => x.ver = IP_VERSION /\ CHKSUM_IP_HDR(x) = x.head_chksum
  <2>1. DECODE_IP_PKT(d) = IF x.ver # IP_VERSION \/ CHKSUM_IP_HDR(x) # x.head_chksum
                           THEN Decoded("ERROR", x, r) ELSE Decoded("TRUE", x, r)
    BY DEF DECODE_IP_PKT
  <2> HIDE DEF d, x, r
  <2>2. /\ Decoded("ERROR", x, r).verdict = "ERROR"
        /\ Decoded("ERROR", x, r).header = x /\ Decoded("ERROR", x, r).rest = r
        /\ Decoded("TRUE", x, r).header = x /\ Decoded("TRUE", x, r).rest = r
    BY DEF Decoded
  <2> QED BY <2>1, <2>2
<1> HIDE DEF x, r
<1>11. /\ DECODE_IP_PKT(d).verdict # "ERROR" /\ y.verdict = "TRUE" /\ got'.header = x
       /\ got'.udpHeader = y.header
  <2> DEFINE body == IF y.verdict = "ERROR" THEN <<>>
                     ELSE SubSeq(y.rest, 1, Len(wire) - 4 * x.IHL - UDP_HDR_LEN)
             a == [NotYet EXCEPT !.ip = "ERROR", !.header = x]
             b == [ip |-> "TRUE", udp |-> y.verdict, header |-> x, udpHeader |-> y.header,
                   payload |-> body]
  <2>1. got' = IF DECODE_IP_PKT(d).verdict = "ERROR" THEN a ELSE b
    BY <1>10 DEF Receive
  <2>2. a.ip = "ERROR"
    BY DEF NotYet
  <2> HIDE DEF body, a
  <2>3. DECODE_IP_PKT(d).verdict # "ERROR"
    BY <2>1, <2>2
  <2>4. got' = b
    BY <2>1, <2>3
  <2> HIDE DEF y
  <2>5. got'.udp = y.verdict /\ got'.header = x /\ got'.udpHeader = y.header
    BY <2>4
  <2> QED BY <2>3, <2>5
<1>12. wire \o Leftover = d
  BY <1>6, AppendIsConcat DEF Bytes, U8, Leftover
<1> HIDE DEF d, y
<1>13. Complements(DECODE_U16(Original, 2 * k - 1), e)
  <2>1. WordIn(Original, k) /\ e \in U16 /\ e # DECODE_U16(Original, 2 * k - 1)
        /\ wire = Replaced(Original, k, e) /\ CarryLost(wire) = CarryLost(Original)
    BY <1>1, <1>2, <1>9 DEF m
  <2>2. Header(d) = x /\ SubSeq(d, 4 * x.IHL + 1, Len(d)) = r
    BY DEF x, r
  <2>3. x.ver = IP_VERSION /\ CHKSUM_IP_HDR(x) = x.head_chksum /\ x.IHL = sent.ip.IHL
    BY <1>9, <1>10, <1>11
  <2>4. DECODE_UDP_PKT(x, r).verdict = "TRUE" /\ DECODE_UDP_PKT(x, r).header.chksum # 0
    BY <1>9, <1>11 DEF y
  <2>5. Passed(x, r)
    BY <2>3, <2>4 DEF Passed
  <2> QED BY <1>1, <1>12, <2>1, <2>2, <2>5, OnlyComplements
<1> QED BY <1>1, <1>9, <1>13 DEF m

-----------------------------------------------------------------------------
\* What is on the link until it is received, and what was received: what the program
\* sent, or that but for one word.
DgramInv ==
  /\ stage \in {"idle", "sent", "damaged", "received"}
  /\ stage \in {"idle", "sent"} => hit = NoHit
  /\ stage = "damaged" => hit # NoHit /\ Hurt
  /\ stage = "sent" => Intact
  /\ Received /\ hit = NoHit => ReceivedAsSent
  /\ DamageNoticed

\* The steps keep the invariant.
LEMMA DgramSteps == DgramInv /\ [DgramNext]_dgramVars => DgramInv'
<1> SUFFICES ASSUME DgramInv, [DgramNext]_dgramVars PROVE DgramInv'
  OBVIOUS
<1>1. CASE Send
  <2>1. stage = "idle" /\ stage' = "sent" /\ hit' = hit
    BY <1>1 DEF Send
  <2>2. Intact'
    BY <1>1, SendsIntact
  <2> QED BY <2>1, <2>2 DEF DgramInv, Received, DamageNoticed
<1>2. CASE Damage
  <2>1. PICK k \in Hits : hit' = Hit(k, WordAt(k))
    BY <1>2 DEF Damage
  <2>2. hit'.word = k /\ NoHit.word = 0
    BY <2>1 DEF Hit, NoHit
  <2>3. k # 0
    <3>1. Hits \subseteq Nat \ {0}
      BY DamagesAssumption
    <3>2. k \in Nat \ {0}
      BY <2>1, <3>1
    <3> QED BY <3>2
  <2>4. stage = "sent" /\ stage' = "damaged"
    BY <1>2 DEF Damage
  <2>5. hit' # NoHit
    BY <2>2, <2>3
  <2>6. Hurt'
    BY <1>2, <2>4, DamageHurts DEF DgramInv
  <2> QED BY <2>4, <2>5, <2>6 DEF DgramInv, Received, DamageNoticed, NoHit, Hit
<1>3. CASE Receive
  <2>1. stage \in {"sent", "damaged"} /\ stage' = "received" /\ hit' = hit
    BY <1>3 DEF Receive
  <2>2. CASE hit = NoHit
    <3>1. Intact
      BY <2>1, <2>2 DEF DgramInv
    <3>2. ReceivedAsSent'
      BY <1>3, <3>1, ReceivesAsSent
    <3>3. DamageNoticed'
      BY <2>1, <2>2 DEF DamageNoticed, NoHit, Hit
    <3> QED BY <2>1, <3>2, <3>3 DEF DgramInv, Received
  <2>3. CASE hit # NoHit
    <3>1. Hurt
      BY <2>1, <2>3 DEF DgramInv
    <3>2. DamageNoticed'
      BY <1>3, <3>1, HurtNoticed
    <3> QED BY <2>1, <2>3, <3>2 DEF DgramInv, Received, NoHit, Hit
  <2> QED BY <2>2, <2>3
<1>4. CASE UNCHANGED dgramVars
  <2>1. stage' = stage /\ sent' = sent /\ wire' = wire /\ hit' = hit /\ got' = got
    BY <1>4 DEF dgramVars
  <2>2. DamageNoticed'
    <3>1. CarryLost(wire)' = CarryLost(wire)
      BY <2>1 DEF CarryLost, UdpWords
    <3>2. Replace(hit.word, hit.was)' = Replace(hit.word, hit.was)
      BY <2>1 DEF Replace
    <3>3. CarryLost(Replace(hit.word, hit.was))' = CarryLost(Replace(hit.word, hit.was))
      BY <2>1, <3>2 DEF CarryLost, UdpWords
    <3>4. WordAt(hit.word)' = WordAt(hit.word)
      BY <2>1 DEF WordAt
    <3>5. Invisible' = Invisible
      BY <2>1, <3>1, <3>3, <3>4 DEF Invisible
    <3>6. Received' = Received /\ Accepted' = Accepted /\ NoHit' = NoHit
      BY <2>1 DEF Received, Accepted, NoHit, Hit
    <3> QED BY <2>1, <3>5, <3>6 DEF DgramInv, DamageNoticed
  <2>3. (stage = "damaged" => Hurt)'
    BY <2>1 DEF DgramInv, Hurt, Original
  <2> QED BY <2>1, <2>2, <2>3 DEF DgramInv, Intact, Received, ReceivedAsSent, NoHit, Hit
<1> QED BY <1>1, <1>2, <1>3, <1>4 DEF DgramNext

\* What is sent stays on the link as it was encoded but for the word that is damaged,
\* is returned as it was sent if none is, and refused if one is that can be noticed.
THEOREM DgramInvariant == DgramSpec => []DgramInv
<1>1. DgramInit => DgramInv
  BY DEF DgramInit, DgramInv, Received, DamageNoticed
<1> QED BY <1>1, DgramSteps, PTL DEF DgramSpec

\* Whatever ENCODE_IP_PKT and ENCODE_UDP_PKT send has the checksums of RFC 1071,
\* unless the carry of the sum over the datagram needs more than 8 bits, and
\* CHKSUM_IP_HDR2 computes the checksum in the header.
THEOREM ChecksumsStandard == DgramSpec => []StandardChecksums
<1>1. DgramInv => StandardChecksums
  BY IntactStandard DEF DgramInv, StandardChecksums
<1> QED BY <1>1, DgramInvariant, PTL

\* What is not damaged is accepted by DECODE_IP_PKT and DECODE_UDP_PKT, every
\* field and byte as it was given to the encoders.
THEOREM ArrivesAsSent == DgramSpec => []RoundTrip
<1>1. DgramInv => RoundTrip
  BY DEF DgramInv, RoundTrip, Accepted, Received, ReceivedAsSent
<1> QED BY <1>1, DgramInvariant, PTL

\* DECODE_IP_PKT or DECODE_UDP_PKT refuses a datagram one word of which is not what
\* was sent, unless the damage is one that their checksums cannot show.
THEOREM DamageRefused == DgramSpec => []DamageNoticed
<1>1. DgramInv => DamageNoticed
  BY DEF DgramInv
<1> QED BY <1>1, DgramInvariant, PTL
=============================================================================
