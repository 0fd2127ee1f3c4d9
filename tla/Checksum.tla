------------------------------ MODULE Checksum ------------------------------
(***************************************************************************)
(* Big-endian integers in byte strings, and the Internet checksum          *)
(* (src/lib/com_util/util.c).  A byte string is a sequence of 0..255 and   *)
(* a cursor the position of the next byte.  The program is built for a     *)
(* little-endian machine (_BIG_ENDIAN is not defined).                     *)
(***************************************************************************)
EXTENDS Integers, Sequences

U8 == 0..255
U16 == 0..65535
-----------------------------------------------------------------------------
DECODE_U16(data, at) == 256 * data[at] + data[at + 1]

ENCODE_U16(val) == <<val \div 256, val % 256>>
-----------------------------------------------------------------------------
\* The sum of the words is a U32, its carry is kept in a U8.
Carry(sum) == (sum \div 65536) % 256

AddOnce(sum) == Carry(sum) + (sum % 65536)

ADD_CARRY_FOR_CHKSUM_Once(sum) == AddOnce(sum) % 65536

\* The carry goes in at the low end; that may carry once more.
ADD_CARRY_FOR_CHKSUM(sum) == (AddOnce(sum) + Carry(AddOnce(sum))) % 65536

CHECK_SUM(sum) == 65535 - ADD_CARRY_FOR_CHKSUM(sum)
=============================================================================
