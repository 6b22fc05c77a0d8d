-------------------------- MODULE OvbaCompression --------------------------
(***************************************************************************)
(* The MS-OVBA compression of a stream (src/ovba/compress.go) followed by  *)
(* its decompression (src/ovba/decompress.go), one step for each token of  *)
(* the encoder's and of the decoder's loop.  The decoder is also started   *)
(* on containers that the encoder did not write.                           *)
(*                                                                         *)
(* A byte is a number below 2^ByteBits: 8 bits and 8 tokens to a flag byte *)
(* in the code, a token being two bytes.  The chunk header is two cells,   *)
(* its size field and its flag.  Positions count from 0, as in the code.   *)
(***************************************************************************)
EXTENDS Integers, SequencesExt, FiniteSetsExt, CopyToken

CONSTANTS
  ByteBits,     \* 8
  Inputs,       \* byte strings to compress
  Containers,   \* cell strings to decompress as they are
  NoData        \* what such a container was compressed from

ASSUME OvbaCompressionAssumption ==
  ByteBits \in Nat \ {0} /\ TokenBits = 2 * ByteBits

\* What the provers do not know of powers; for small exponents it is decided by
\* evaluation.
ASSUME PowersAssumption ==
  /\ 2 ^ 1 = 2
  /\ \A n \in 0 .. TokenBits : 2 ^ n \in Nat \ {0}
  /\ \A m, n \in 0 .. TokenBits : m <= n => 2 ^ m <= 2 ^ n
  /\ \A m, n \in 0 .. TokenBits : m + n <= TokenBits => 2 ^ (m + n) = 2 ^ m * 2 ^ n

VARIABLES
  pc,        \* "encode", "signature", "decode", "done", "incompressible", "corrupt"
  data,      \* what is compressed
  container, \* the compressed container
  base, pos, \* encoder: start of the chunk in data, position in the chunk
  body, flagIndex, bit,   \* encoder: chunk body, its open flag byte, its next bit
  ip, end,   \* decoder: cell to read, end of the chunk body
  flag, dbit,\* decoder: the open flag byte, its next bit
  chunkOut,  \* decoder: output of the open chunk
  out        \* decoder: output of the chunks before it

encoder == << base, pos, body, flagIndex, bit >>
decoder == << ip, end, flag, dbit, chunkOut, out >>
vars == << pc, data, container, encoder, decoder >>

Group == ByteBits           \* tokens to a flag byte
Byte == 0 .. 2 ^ ByteBits - 1
Signature == 1

ASSUME InputsAssumption == Inputs \subseteq Seq(Byte) /\ Containers \subseteq Seq(Nat)

Chunk == SubSeq(data, base + 1, IF base + ChunkMax < Len(data) THEN base + ChunkMax ELSE Len(data))

-----------------------------------------------------------------------------
(***************************************************************************)
(* Compress.                                                               *)
(***************************************************************************)

\* How far the bytes from candidate on agree with those from p on; the two
\* runs may overlap.
MatchLength(chunk, p, candidate) ==
  Max({l \in 0 .. Min({MaxLength(p), Len(chunk) - p}) :
         \A k \in 1 .. l : chunk[candidate + k] = chunk[p + k]})

\* The nearest of the longest matches; length 0 if none is worth a token.
longestMatch(chunk, p) ==
  LET best == Max({0} \cup {MatchLength(chunk, p, c) : c \in 0 .. p - 1})
  IN  IF best < MinMatch THEN [offset |-> 0, length |-> 0]
      ELSE [offset |-> p - Max({c \in 0 .. p - 1 : MatchLength(chunk, p, c) = best}),
            length |-> best]

Match == longestMatch(Chunk, pos)

\* The body with room for the next token: a flag byte in front of a new group.
\* Mutant of Opened: a flag byte in front of every token.
OpenedAlways == Append(body, 0)
Opened == IF bit = 0 THEN Append(body, 0) ELSE body
OpenedAt == IF bit = 0 THEN Len(body) + 1 ELSE flagIndex

EncodeLiteral ==
  /\ pc = "encode" /\ pos < Len(Chunk)
  /\ Match.length < MinMatch
  /\ body' = Append(Opened, Chunk[pos + 1])
  /\ pos' = pos + 1
  /\ flagIndex' = OpenedAt
  /\ bit' = (bit + 1) % Group
  /\ UNCHANGED << pc, data, container, base, decoder >>

EncodeCopy ==
  /\ pc = "encode" /\ pos < Len(Chunk)
  /\ Match.length >= MinMatch
  /\ LET token == packCopyToken(pos, Match.offset, Match.length)
     IN  body' = [Opened EXCEPT ![OpenedAt] = @ + 2 ^ bit]
                   \o << token % 2 ^ ByteBits, token \div 2 ^ ByteBits >>
  /\ pos' = pos + Match.length
  /\ flagIndex' = OpenedAt
  /\ bit' = (bit + 1) % Group
  /\ UNCHANGED << pc, data, container, base, decoder >>

\* Header(size, compressed): the low 12 bits of size - 3, and the flag.
Header(size, compressed) == << (size - 3) % ChunkMax, compressed >>

Fits == Len(body) < ChunkMax

NextChunk(cells) ==
  /\ container' = container \o cells
  /\ base' = base + ChunkMax
  /\ pos' = 0 /\ body' = << >> /\ flagIndex' = 0 /\ bit' = 0
  /\ UNCHANGED << pc, data, decoder >>

ChunkEncoded == pc = "encode" /\ base < Len(data) /\ pos = Len(Chunk)

EmitCompressed ==
  /\ ChunkEncoded /\ Fits
  /\ NextChunk(Header(Len(body) + 2, 1) \o body)

\* Mutant of EmitRaw: a short chunk is emitted raw too.
EmitRawShort ==
  /\ ChunkEncoded /\ ~Fits
  /\ NextChunk(Header(ChunkMax + 2, 0) \o Chunk)

EmitRaw ==
  /\ ChunkEncoded /\ ~Fits /\ Len(Chunk) = ChunkMax
  /\ NextChunk(Header(ChunkMax + 2, 0) \o Chunk)

Incompressible ==
  /\ ChunkEncoded /\ ~Fits /\ Len(Chunk) < ChunkMax
  /\ pc' = "incompressible"
  /\ UNCHANGED << data, container, encoder, decoder >>

EncodeDone ==
  /\ pc = "encode" /\ base >= Len(data)
  /\ pc' = "signature"
  /\ UNCHANGED << data, container, encoder, decoder >>

-----------------------------------------------------------------------------
(***************************************************************************)
(* Decompress.                                                             *)
(***************************************************************************)

Cell(k) == container[k + 1]
Size == Cell(ip) + 3
BitSet == (flag \div 2 ^ dbit) % 2 = 1
Token == Cell(ip) + Cell(ip + 1) * 2 ^ ByteBits

Corrupt ==
  /\ pc' = "corrupt"
  /\ UNCHANGED << data, container, encoder, decoder >>

Signed == container # << >> /\ Cell(0) = Signature

Accept ==
  /\ pc = "signature"
  /\ Signed
  /\ pc' = "decode" /\ ip' = 1 /\ end' = 1
  /\ UNCHANGED << data, container, encoder, flag, dbit, chunkOut, out >>

BadSignature ==
  /\ pc = "signature"
  /\ ~Signed
  /\ Corrupt

AtHeader == pc = "decode" /\ ip >= end /\ ip < Len(container)
\* Mutant of HeaderFits: the size field is trusted.
HeaderFitsOnly == ip + 2 <= Len(container)
HeaderFits == ip + 2 <= Len(container) /\ ip + Size <= Len(container)
RawFits == ip + 2 + ChunkMax <= Len(container)

OpenChunk ==
  /\ AtHeader /\ HeaderFits /\ Cell(ip + 1) = 1
  /\ ip' = ip + 2 /\ end' = ip + Size
  /\ dbit' = Group
  /\ out' = out \o chunkOut /\ chunkOut' = << >>
  /\ UNCHANGED << pc, data, container, encoder, flag >>

\* A raw chunk has ChunkMax bytes whatever its size field says.
CopyRaw ==
  /\ AtHeader /\ HeaderFits /\ Cell(ip + 1) # 1
  /\ RawFits
  /\ ip' = ip + 2 + ChunkMax /\ end' = ip + 2 + ChunkMax
  /\ out' = out \o chunkOut
  /\ chunkOut' = SubSeq(container, ip + 3, ip + 2 + ChunkMax)
  /\ UNCHANGED << pc, data, container, encoder, flag, dbit >>

BadChunk ==
  /\ AtHeader
  /\ ~(HeaderFits /\ (Cell(ip + 1) = 1 \/ RawFits))
  /\ Corrupt

ReadFlag ==
  /\ pc = "decode" /\ ip < end /\ dbit = Group
  /\ flag' = Cell(ip) /\ dbit' = 0 /\ ip' = ip + 1
  /\ UNCHANGED << pc, data, container, encoder, end, chunkOut, out >>

AtToken == pc = "decode" /\ ip < end /\ dbit < Group

LiteralFits == Len(chunkOut) + 1 <= ChunkMax

DecodeLiteral ==
  /\ AtToken /\ ~BitSet /\ LiteralFits
  /\ chunkOut' = Append(chunkOut, Cell(ip))
  /\ ip' = ip + 1 /\ dbit' = dbit + 1
  /\ UNCHANGED << pc, data, container, encoder, end, flag, out >>

\* Mutant of Copied: the source is taken before the copy.
CopiedAtOnce(length, from) ==
  [k \in 1 .. length |-> IF from + k <= Len(chunkOut) THEN chunkOut[from + k] ELSE 0]

\* Byte by byte, so that the copy may read what it has just written.
Copied(length, from) ==
  LET copy[k \in 1 .. length] ==
        IF from + k <= Len(chunkOut) THEN chunkOut[from + k]
                                     ELSE copy[from + k - Len(chunkOut)]
  IN  copy

CopyFrom == Len(chunkOut) - TokenOffset(Len(chunkOut), Token)
CopyLength == TokenLength(Len(chunkOut), Token)
CopyFits ==
  /\ ip + 2 <= end
  /\ CopyFrom >= 0
  /\ Len(chunkOut) + CopyLength <= ChunkMax

DecodeCopy ==
  /\ AtToken /\ BitSet
  /\ CopyFits
  /\ chunkOut' = chunkOut \o Copied(CopyLength, CopyFrom)
  /\ ip' = ip + 2 /\ dbit' = dbit + 1
  /\ UNCHANGED << pc, data, container, encoder, end, flag, out >>

\* Mutant of BadToken: a copy token out of range is not refused.
BadTokenLiteral ==
  /\ AtToken
  /\ ~BitSet /\ ~LiteralFits
  /\ Corrupt

BadToken ==
  /\ AtToken
  /\ ~(IF BitSet THEN CopyFits ELSE LiteralFits)
  /\ Corrupt

DecodeDone ==
  /\ pc = "decode" /\ ip >= end /\ ip >= Len(container)
  /\ pc' = "done"
  /\ out' = out \o chunkOut /\ chunkOut' = << >>
  /\ UNCHANGED << data, container, encoder, ip, end, flag, dbit >>

-----------------------------------------------------------------------------
Init ==
  /\ base = 0 /\ pos = 0 /\ body = << >> /\ flagIndex = 0 /\ bit = 0
  /\ ip = 0 /\ end = 0 /\ flag = 0 /\ dbit = Group /\ chunkOut = << >> /\ out = << >>
  /\ \/ pc = "encode" /\ data \in Inputs /\ container = << Signature >>
     \/ pc = "signature" /\ data = NoData /\ container \in Containers

Encode == EncodeLiteral \/ EncodeCopy \/ EmitCompressed \/ EmitRaw \/ Incompressible \/ EncodeDone
Decode == Accept \/ BadSignature \/ OpenChunk \/ CopyRaw \/ BadChunk \/ ReadFlag
            \/ DecodeLiteral \/ DecodeCopy \/ BadToken \/ DecodeDone
Next == Encode \/ Decode

Spec == Init /\ [][Next]_vars

\* Both are sequential functions that run until they return.
FairSpec == Spec /\ WF_vars(Next)

-----------------------------------------------------------------------------
(***************************************************************************)
(* Properties.                                                             *)
(***************************************************************************)

TypeOK ==
  /\ pc \in {"encode", "incompressible", "signature", "decode", "done", "corrupt"}
  /\ data \in Inputs \cup {NoData}
  /\ container \in Seq(Nat)
  /\ base \in Nat /\ pos \in 0 .. ChunkMax
  /\ body \in Seq(Byte) /\ flagIndex \in 0 .. Len(body) /\ bit \in 0 .. Group - 1
  /\ ip \in 0 .. Len(container) /\ end \in 0 .. Len(container)
  /\ flag \in Nat /\ dbit \in 0 .. Group
  /\ chunkOut \in Seq(Nat) /\ Len(chunkOut) <= ChunkMax
  /\ out \in Seq(Nat)

\* Decompress is the inverse of Compress: it accepts whatever Compress returns,
\* at each token what it has put out is a prefix of the data, and it ends
\* with all of the data (tokens, chunk ends, raw chunks, overlapping copies).
Lossless ==
  data # NoData =>
    /\ pc # "corrupt"
    /\ IsPrefix(out \o chunkOut, data)
    /\ pc = "done" => out = data

\* Compress refuses only data whose last chunk is long enough that literals
\* alone overflow it: in the code, lengths from 3641 on (the comment on the
\* raw chunk of compressChunk).
FailsOnlyIfLong ==
  pc = "incompressible" =>
    /\ base + ChunkMax > Len(data)
    /\ Len(Chunk) + (Len(Chunk) + Group - 1) \div Group >= ChunkMax

\* Compress and Decompress return, on data and on any container alike: every
\* turn of their loops consumes input.
Returns == <>(pc \in {"done", "incompressible", "corrupt"})

\* The comment on compressChunk: a chunk is raw, or refused, only when its
\* compressed form does not fit in ChunkMax bytes.
RefusedOnlyIfTooLarge == pc = "incompressible" => Len(body) > ChunkMax
=============================================================================
