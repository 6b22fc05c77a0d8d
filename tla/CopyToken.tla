----------------------------- MODULE CopyToken -----------------------------
(***************************************************************************)
(* The split of a CopyToken into offset and length bits, its packing and   *)
(* its unpacking (copyTokenHelp, packCopyToken in src/ovba/compress.go and *)
(* the token branch of decompressChunk in src/ovba/decompress.go).         *)
(***************************************************************************)
EXTENDS Integers, FiniteSetsExt

CONSTANTS
  TokenBits,   \* 16 in the code
  MinBits,     \* 4: the least number of offset bits
  ChunkMax     \* 4096 bytes in a decompressed chunk

\* At every position of a chunk a token has at least one length bit.
ASSUME CopyTokenAssumption ==
  /\ TokenBits \in Nat /\ MinBits \in Nat \ {0} /\ ChunkMax \in Nat \ {0}
  /\ MinBits < TokenBits
  /\ \E b \in 1 .. TokenBits - 1 : ChunkMax <= 2 ^ b

MinMatch == 3

\* bitCount = max(ceil(log2(pos)), MinBits)
BitCount(pos) == Min({b \in MinBits .. TokenBits : 2 ^ b >= pos})

MaxLength(pos) == (2 ^ TokenBits - 1) \div 2 ^ BitCount(pos) + MinMatch

\* The number of values of the length field at pos.
LengthUnit(pos) == 2 ^ (TokenBits - BitCount(pos))

\* The offset bits stand above the length bits (the code ors the two parts,
\* which share no bit when the length fits its field).
packCopyToken(pos, offset, length) ==
  ((offset - 1) * LengthUnit(pos) + (length - MinMatch)) % 2 ^ TokenBits

TokenLength(pos, token) == (token % LengthUnit(pos)) + MinMatch
TokenOffset(pos, token) == (token \div LengthUnit(pos)) + 1
=============================================================================
