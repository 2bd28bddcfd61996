------------------------------ MODULE Checksum ------------------------------
(***************************************************************************)
(* The IPv4 header checksum of network_service: compute_checksum adds the  *)
(* 16-bit words of a byte string in 32 bits and folds the carries at the   *)
(* end.                                                                    *)
(***************************************************************************)
EXTENDS Integers, Sequences, SequencesExt

CONSTANTS Bytes,     \* the bytes a header is made of
          MaxLength  \* bound: length of a byte string

Word == 2^16

VARIABLES bytes, pos, sum,  \* data, i and sum of the code
          csum              \* the result, NoSum before

sumVars == <<bytes, pos, sum, csum>>
NoSum == -1

SumInit ==
  bytes \in BoundedSeq(Bytes, MaxLength) /\ pos = 0 /\ sum = 0 /\ csum = NoSum

\* The word at index k (from 0); a last byte alone is the high byte.
WordAt(d, k) ==
  IF k + 1 < Len(d) THEN d[k + 1] * 256 + d[k + 2] ELSE d[k + 1] * 256

AddWord ==
  /\ pos < Len(bytes)
  /\ sum' = sum + WordAt(bytes, pos)
  /\ pos' = pos + 2
  /\ UNCHANGED <<bytes, csum>>

\* Mutant: the carry is dropped.
FoldedDropped(s) == s % Word

Folded(s) == (s % Word) + (s \div Word)

Fold ==
  /\ pos >= Len(bytes) /\ sum \div Word # 0
  /\ sum' = Folded(sum)
  /\ UNCHANGED <<bytes, pos, csum>>

Complement ==
  /\ pos >= Len(bytes) /\ sum \div Word = 0 /\ csum = NoSum
  /\ csum' = Word - 1 - sum
  /\ UNCHANGED <<bytes, pos, sum>>

SumNext == AddWord \/ Fold \/ Complement
SumSpec == SumInit /\ [][SumNext]_sumVars

-----------------------------------------------------------------------------
(* Reference: ones' complement arithmetic on 16-bit words.                 *)

Plus(a, b) == IF a + b >= Word THEN a + b - (Word - 1) ELSE a + b

Words(d) ==
  [k \in 1 .. (Len(d) + 1) \div 2 |->
     d[2 * k - 1] * 256 + (IF 2 * k <= Len(d) THEN d[2 * k] ELSE 0)]

OnesSum(d) == FoldLeft(Plus, 0, Words(d))

\* send_udp's use of it: a receiver that adds up the header with the checksum
\* in it gets all ones, and so accepts the packet; for byte strings of odd
\* length too, although the carries are added only once at the end.
ReceiverAccepts == csum # NoSum => Plus(OnesSum(bytes), csum) = Word - 1
=============================================================================
