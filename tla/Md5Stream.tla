----------------------------- MODULE Md5Stream -----------------------------
(***************************************************************************)
(* A caller of MD5: it opens a context, adds a message to it in pieces,    *)
(* and asks for the digest; the next caller's context lies elsewhere.      *)
(***************************************************************************)
EXTENDS Md5

CONSTANTS
  Stream(_),   \* the bytes of the message, one after the other
  MaxTotal,    \* bound on the length of the message
  Lengths,     \* of the pieces
  Memory       \* what may lie in the memory a caller's context is given

Byte == 0..255
ASSUME StreamAssumption == MaxTotal \in Nat /\ \A i \in 1..MaxTotal : Stream(i) \in Byte
ASSUME LengthsAssumption == Lengths \subseteq Nat /\ Memory \subseteq Byte

VARIABLES
  open,      \* the context is in use
  ctx,       \* the context
  message,   \* the bytes added to it (history)
  digest     \* the bytes the last digest was made of

md5Vars == <<open, ctx, message, digest>>

StreamInit ==
  /\ open = FALSE
  /\ ctx = Wiped
  /\ message = <<>>
  /\ digest = <<>>

Open ==
  /\ ~ open
  /\ open' = TRUE
  /\ \E byte \in Memory : ctx' = MD5Init([k \in 1..Block |-> byte])
  /\ message' = <<>>
  /\ digest' = <<>>

Piece(n) == [k \in 1..n |-> Stream(Len(message) + k)]

Update ==
  /\ open
  /\ \E n \in Lengths :
       /\ Len(message) + n <= MaxTotal
       /\ ctx' = MD5Update(ctx, Piece(n))
       /\ message' = message \o Piece(n)
  /\ UNCHANGED <<open, digest>>

Finish ==
  /\ open
  /\ open' = FALSE
  /\ digest' = MD5Final(ctx)
  /\ ctx' = Wiped
  /\ UNCHANGED message

StreamNext == Open \/ Update \/ Finish

StreamSpec == StreamInit /\ [][StreamNext]_md5Vars
-----------------------------------------------------------------------------
\* However the message is cut into pieces, what has been hashed and what waits
\* in the buffer are the message, and the two words of the count, which wrap,
\* are its length in bits.
StreamKept ==
  open => /\ ctx.state \o SubSeq(ctx.buffer, 1, Index(ctx)) = message
          /\ ctx.count[1] + (Word * ctx.count[2]) = (8 * Len(message)) % (Word * Word)

\* The padding by its definition (RFC 1321): a 128, as few zeros as possible,
\* and the length in bits.
LengthTag(n) ==
  LET bits == (8 * n) % (Word * Word)
  IN  MD5_encode(bits % Word, TagLen \div 2) \o MD5_encode(bits \div Word, TagLen \div 2)

PaddedMessage(m) ==
  LET z == CHOOSE z \in 0..Block - 1 : (Len(m) + 1 + z + TagLen) % Block = 0
  IN  m \o <<128>> \o Zeros(z) \o LengthTag(Len(m))

\* A digest is made of the padded message, whatever the pieces were, whatever
\* the buffer held, and however often the count has wrapped.
DigestPadded == digest # <<>> => digest = PaddedMessage(message)
=============================================================================
