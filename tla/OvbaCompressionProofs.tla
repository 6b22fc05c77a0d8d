----------------------- MODULE OvbaCompressionProofs -----------------------
(***************************************************************************)
(* For every geometry, every input and every container: neither loop       *)
(* leaves its buffers, Compress refuses only what is long, and Decompress  *)
(* gives back what was compressed.                                         *)
(***************************************************************************)
EXTENDS OvbaCompression, SequenceTheorems, WellFoundedInduction, TLAPS

\* The open flag byte has no bit set yet from the next one on.
FlagBits ==
  bit # 0 => flagIndex \in 1 .. Len(body) /\ body[flagIndex] < 2 ^ bit

\* What is compressed is an input.
Encoding == pc = "encode" => data \in Inputs

CodecInv == TypeOK /\ FlagBits /\ Encoding

-----------------------------------------------------------------------------
(***************************************************************************)
(* Numbers.                                                                *)
(***************************************************************************)

\* A non-empty set of naturals has a least element.
LEMMA LeastOf ==
  ASSUME NEW T \in SUBSET Nat, T # {}
  PROVE  \E x \in T : \A y \in T : x <= y
<1> DEFINE R == OpToRel(<, Nat)
<1>1. IsWellFoundedOn(R, Nat)
  BY NatLessThanWellFounded
<1>2. \A x, y \in Nat : x < y => << x, y >> \in R
  BY DEF OpToRel
<1> HIDE DEF R
<1>3. \E x \in T : \A y \in T : ~(<< y, x >> \in R)
  BY <1>1, WFMin
<1>4. PICK x \in T : \A y \in T : ~(y < x)
  BY <1>2, <1>3
<1> QED
  BY <1>4

\* A bounded set of numbers has a greatest element, so Max is defined on it.
LEMMA MaxOf ==
  ASSUME NEW n \in Nat, NEW T \in SUBSET (0 .. n), T # {}
  PROVE  Max(T) \in T
<1> DEFINE U == {m \in Nat : \A y \in T : m >= y}
<1>1. n \in U
  OBVIOUS
<1>2. PICK u \in U : \A y \in U : u <= y
  BY <1>1, LeastOf
<1> SUFFICES u \in T
  BY <1>2 DEF Max
<1> SUFFICES ASSUME u \notin T
             PROVE  FALSE
  OBVIOUS
<1>3. u \in Nat /\ \A y \in T : y \in Nat /\ u >= y /\ y # u
  BY <1>2
<1>4. \A y \in T : u - 1 >= y
  BY <1>3
<1>5. PICK t \in T : TRUE
  OBVIOUS
<1>6. u - 1 \in Nat
  BY <1>3, <1>4, <1>5
<1>7. u - 1 \in U
  BY <1>4, <1>6
<1> QED
  BY <1>2, <1>3, <1>7

\* The two bytes of a token.
LEMMA TwoBytes ==
  ASSUME NEW B \in Nat \ {0}, NEW t \in 0 .. B * B - 1
  PROVE  t % B \in 0 .. B - 1 /\ t \div B \in 0 .. B - 1
<1> DEFINE q == t \div B
<1>1. t \in Int /\ B \in Int /\ B > 0 /\ B * B \in Int /\ t >= 0 /\ t < B * B
  OBVIOUS
<1>2. t % B \in 0 .. B - 1 /\ q \in Int
  BY <1>1
<1>3. t = (B * q) + (t % B)
  BY <1>1
<1> HIDE DEF q
<1>4. B * q <= t /\ t < B * q + B
  BY <1>1, <1>2, <1>3
<1>5. q >= 0
  <2> SUFFICES ASSUME q <= -1
               PROVE  FALSE
    BY <1>2
  <2>1. B * q <= -B
    BY <1>1, <1>2
  <2> QED
    BY <1>1, <1>2, <1>4, <2>1
<1>6. q <= B - 1
  <2> SUFFICES ASSUME q >= B
               PROVE  FALSE
    BY <1>1, <1>2
  <2>1. B * q >= B * B
    BY <1>1, <1>2
  <2> QED
    BY <1>1, <1>2, <1>4, <2>1
<1> QED
  BY <1>2, <1>5, <1>6 DEF q

\* A sequence is a beginning of its concatenations.
LEMMA Beginning ==
  ASSUME NEW S, NEW s \in Seq(S), NEW t \in Seq(S), NEW i \in 1 .. Len(s)
  PROVE  s \o t \in Seq(S) /\ Len(s \o t) = Len(s) + Len(t) /\ (s \o t)[i] = s[i]
<1>1. Len(s) \in Nat /\ Len(t) \in Nat
  BY LenProperties
<1>2. i \in 1 .. Len(s) + Len(t) /\ i <= Len(s)
  BY <1>1
<1>3. /\ s \o t \in Seq(S) /\ Len(s \o t) = Len(s) + Len(t)
      /\ (s \o t)[i] = IF i <= Len(s) THEN s[i] ELSE t[i - Len(s)]
  BY <1>2, ConcatProperties
<1> QED
  BY <1>2, <1>3

\* What the assumptions say of the sizes.
LEMMA Geometry ==
  /\ ByteBits \in Nat \ {0} /\ Group = ByteBits /\ TokenBits = 2 * ByteBits
  /\ ChunkMax \in Nat \ {0}
  /\ 2 ^ ByteBits \in Nat \ {0} /\ 2 ^ TokenBits = 2 ^ ByteBits * 2 ^ ByteBits
  /\ \A n \in 0 .. ByteBits : 2 ^ n \in Nat \ {0} /\ 2 ^ n <= 2 ^ ByteBits
  /\ \A n \in 0 .. ByteBits - 1 : 2 ^ (n + 1) = 2 ^ n + 2 ^ n
<1>1. /\ ByteBits \in Nat \ {0} /\ Group = ByteBits /\ TokenBits = 2 * ByteBits
      /\ ChunkMax \in Nat \ {0}
  BY OvbaCompressionAssumption, CopyTokenAssumption
  DEF OvbaCompressionAssumption, CopyTokenAssumption, Group
<1>2. /\ ByteBits \in 0 .. TokenBits /\ ByteBits + ByteBits = TokenBits
      /\ \A n \in 0 .. ByteBits : n \in 0 .. TokenBits /\ n <= ByteBits
  BY <1>1
<1>3. \A n \in 0 .. ByteBits - 1 : 2 ^ (n + 1) = 2 ^ n + 2 ^ n
  <2> SUFFICES ASSUME NEW n \in 0 .. ByteBits - 1
               PROVE  2 ^ (n + 1) = 2 ^ n + 2 ^ n
    OBVIOUS
  <2>1. n \in 0 .. TokenBits /\ 1 \in 0 .. TokenBits /\ n + 1 <= TokenBits
    BY <1>1
  <2>2. 2 ^ (n + 1) = 2 ^ n * 2 ^ 1 /\ 2 ^ 1 = 2 /\ 2 ^ n \in Nat
    BY <2>1, PowersAssumption DEF PowersAssumption
  <2> QED
    BY <2>2
<1>4. 2 ^ TokenBits = 2 ^ ByteBits * 2 ^ ByteBits
  BY <1>2, PowersAssumption DEF PowersAssumption
<1>5. \A n \in 0 .. ByteBits : 2 ^ n \in Nat \ {0} /\ 2 ^ n <= 2 ^ ByteBits
  BY <1>2, PowersAssumption DEF PowersAssumption
<1> QED
  BY <1>1, <1>3, <1>4, <1>5

\* At every position of a chunk both parts of a token have a width.
LEMMA Widths ==
  ASSUME NEW p \in 0 .. ChunkMax
  PROVE  /\ BitCount(p) \in MinBits .. TokenBits
         /\ 2 ^ BitCount(p) >= p
         /\ LengthUnit(p) \in Nat \ {0} /\ 2 ^ BitCount(p) \in Nat \ {0}
         /\ 2 ^ TokenBits = 2 ^ BitCount(p) * LengthUnit(p)
         /\ MaxLength(p) \in Nat
<1> DEFINE T == {b \in MinBits .. TokenBits : 2 ^ b >= p}
<1>1. /\ TokenBits \in Nat /\ MinBits \in Nat /\ MinBits < TokenBits /\ ChunkMax \in Nat
      /\ \A n \in 0 .. TokenBits : 2 ^ n \in Nat \ {0} /\ 2 ^ n <= 2 ^ TokenBits
  BY CopyTokenAssumption, PowersAssumption DEF CopyTokenAssumption, PowersAssumption
<1>2. PICK b \in 1 .. TokenBits - 1 : ChunkMax <= 2 ^ b
  BY CopyTokenAssumption DEF CopyTokenAssumption
<1>3. 2 ^ b \in Nat /\ 2 ^ TokenBits \in Nat /\ 2 ^ b <= 2 ^ TokenBits
  BY <1>1, <1>2
<1>4. 2 ^ TokenBits >= p
  BY <1>1, <1>2, <1>3
<1>5. TokenBits \in T
  BY <1>1, <1>4
<1>6. T \in SUBSET Nat
  BY <1>1
<1>7. \E x \in T : \A y \in T : x <= y
  BY <1>5, <1>6, LeastOf
<1>8. BitCount(p) \in MinBits .. TokenBits /\ 2 ^ BitCount(p) >= p
  BY <1>7 DEF BitCount, Min
<1>9. TokenBits - BitCount(p) \in 0 .. TokenBits /\ BitCount(p) \in 0 .. TokenBits
  BY <1>1, <1>8
<1>10. LengthUnit(p) \in Nat \ {0} /\ 2 ^ BitCount(p) \in Nat \ {0}
  BY <1>1, <1>9 DEF LengthUnit
<1>11. (2 ^ TokenBits - 1) \div 2 ^ BitCount(p) \in Nat
  BY <1>1, <1>10
<1>12. 2 ^ TokenBits = 2 ^ BitCount(p) * LengthUnit(p)
  <2> DEFINE m == BitCount(p)
             n == TokenBits - BitCount(p)
  <2>1. m + n = TokenBits /\ m \in 0 .. TokenBits /\ n \in 0 .. TokenBits
    BY <1>1, <1>9
  <2> HIDE DEF m, n
  <2>2. m + n <= TokenBits
    BY <1>1, <2>1
  <2>3. 2 ^ (m + n) = 2 ^ m * 2 ^ n
    BY <2>1, <2>2, PowersAssumption DEF PowersAssumption
  <2>4. 2 ^ TokenBits = 2 ^ m * 2 ^ n
    BY <2>1, <2>3
  <2> QED
    BY <2>4 DEF LengthUnit, m, n
<1> QED
  BY <1>8, <1>10, <1>11, <1>12 DEF MaxLength, MinMatch

\* Quotient and remainder are unique.
LEMMA Division ==
  ASSUME NEW B \in Nat \ {0}, NEW q \in Nat, NEW r \in 0 .. B - 1
  PROVE  (B * q + r) \div B = q /\ (B * q + r) % B = r
<1> DEFINE a == B * q + r
           d == a \div B
           m == a % B
<1>1. B * q \in Nat /\ a \in Nat
  OBVIOUS
<1>2. d \in Int /\ m \in 0 .. B - 1 /\ a = (B * d) + m
  BY <1>1
<1> HIDE DEF d, m
<1>3. d = q
  <2>1. CASE d <= q - 1
    <3>1. B * d <= B * (q - 1) /\ B * (q - 1) = B * q - B /\ B * d \in Int
      BY <1>2, <2>1
    <3> QED
      BY <1>1, <1>2, <3>1
  <2>2. CASE d >= q + 1
    <3>1. B * d >= B * (q + 1) /\ B * (q + 1) = B * q + B /\ B * d \in Int
      BY <1>2, <2>2
    <3> QED
      BY <1>1, <1>2, <3>1
  <2> QED
    BY <1>2, <2>1, <2>2
<1>4. m = r
  BY <1>1, <1>2, <1>3
<1> QED
  BY <1>3, <1>4 DEF d, m

\* A number below the divisor is its own remainder.
LEMMA ModOfSmall ==
  ASSUME NEW M \in Nat \ {0}, NEW h \in 0 .. M - 1
  PROVE  h % M = h
OBVIOUS

\* The copy token packed at a position of a chunk (packCopyToken), for every
\* match the encoder may find there, is unpacked at that position to the same
\* length and offset, and its two bytes give it back.
THEOREM TokenRoundTrip ==
  ASSUME NEW p \in 1 .. ChunkMax, NEW offset \in 1 .. p, NEW length \in MinMatch .. MaxLength(p)
  PROVE  LET token == packCopyToken(p, offset, length)
         IN  /\ TokenLength(p, token) = length /\ TokenOffset(p, token) = offset
             /\ (token % 2 ^ ByteBits) + (token \div 2 ^ ByteBits) * 2 ^ ByteBits = token
<1> DEFINE U == LengthUnit(p)
           W == 2 ^ BitCount(p)
           N == 2 ^ TokenBits
           B == 2 ^ ByteBits
           q == offset - 1
           r == length - MinMatch
           token == packCopyToken(p, offset, length)
<1>1. p \in 0 .. ChunkMax
  BY Geometry
<1>2. U \in Nat \ {0} /\ W \in Nat \ {0} /\ N = W * U /\ W >= p /\ B \in Nat \ {0}
  BY <1>1, Widths, Geometry
<1>3. token = (q * U + r) % N
  BY DEF packCopyToken
<1>4. MaxLength(p) = ((N - 1) \div W) + MinMatch
  BY DEF MaxLength
<1> HIDE DEF U, W, N, B, token
<1>5. q \in 0 .. W - 1
  BY <1>1, <1>2
<1>6. (N - 1) \div W = U - 1
  <2>1. N - 1 = W * (U - 1) + (W - 1) /\ U - 1 \in Nat /\ W - 1 \in 0 .. W - 1
    BY <1>2
  <2> QED
    BY <1>2, <2>1, Division
<1>7. r \in 0 .. U - 1
  BY <1>2, <1>4, <1>6 DEF MinMatch
<1> HIDE DEF q, r
<1>8. q * U + r \in 0 .. N - 1
  <2>1. q * U \in Nat /\ q * U <= (W - 1) * U /\ (W - 1) * U = W * U - U
    BY <1>2, <1>5
  <2> QED
    BY <1>2, <1>7, <2>1
<1>9. N \in Nat \ {0}
  BY <1>2
<1>10. token = U * q + r /\ token \in Nat
  <2> DEFINE t == q * U + r
  <2>1. t \in 0 .. N - 1 /\ t = U * q + r
    BY <1>2, <1>5, <1>7, <1>8
  <2> HIDE DEF t
  <2>2. t % N = t
    BY <1>9, <2>1
  <2> QED
    BY <1>3, <2>1, <2>2 DEF t
<1>11. token \div U = q /\ token % U = r
  BY <1>2, <1>5, <1>7, <1>10, Division
<1>12. TokenLength(p, token) = length /\ TokenOffset(p, token) = offset
  BY <1>11 DEF TokenLength, TokenOffset, U, q, r, MinMatch
<1>13. (token % B) + (token \div B) * B = token
  <2> DEFINE d == token \div B
             m == token % B
  <2>1. token \in Int /\ B \in Int /\ B > 0
    BY <1>2, <1>10
  <2>2. m \in 0 .. B - 1 /\ d \in Int
    BY <2>1
  <2>3. token = (B * d) + m
    BY <2>1
  <2> HIDE DEF d, m
  <2>4. m + d * B = token
    BY <2>1, <2>2, <2>3
  <2> QED
    BY <2>4 DEF d, m
<1> QED
  BY <1>12, <1>13 DEF token, B

-----------------------------------------------------------------------------
(***************************************************************************)
(* The encoder.                                                            *)
(***************************************************************************)

\* The open chunk is a part of the data, of at most ChunkMax bytes.
LEMMA ChunkIs ==
  ASSUME CodecInv, pc = "encode"
  PROVE  Chunk \in Seq(Byte) /\ Len(Chunk) \in 0 .. ChunkMax
<1>1. data \in Seq(Byte) /\ base \in Nat
  BY InputsAssumption DEF InputsAssumption, CodecInv, Encoding, TypeOK
<1>2. Len(data) \in Nat /\ ChunkMax \in Nat
  BY <1>1, LenProperties, Geometry
<1> DEFINE last == IF base + ChunkMax < Len(data) THEN base + ChunkMax ELSE Len(data)
<1>3. last \in Nat /\ last <= Len(data) /\ last <= base + ChunkMax
  BY <1>1, <1>2
<1> HIDE DEF last
<1>4. \A k \in base + 1 .. last : data[k] \in Byte
  BY <1>1, <1>2, <1>3, ElementOfSeq
<1>5. /\ SubSeq(data, base + 1, last) \in Seq(Byte)
      /\ Len(SubSeq(data, base + 1, last)) = IF base + 1 <= last THEN last - (base + 1) + 1 ELSE 0
  BY <1>1, <1>3, <1>4, SubSeqProperties
<1>6. Chunk = SubSeq(data, base + 1, last)
  BY DEF Chunk, last
<1> QED
  BY <1>1, <1>2, <1>3, <1>5, <1>6

\* A match does not reach beyond the chunk.
LEMMA MatchFits ==
  ASSUME NEW chunk, Len(chunk) \in 0 .. ChunkMax, NEW p \in 0 .. Len(chunk) - 1
  PROVE  /\ longestMatch(chunk, p).length \in 0 .. Len(chunk) - p
         /\ longestMatch(chunk, p).offset \in Int
<1> DEFINE room == Len(chunk) - p
           Best == {0} \cup {MatchLength(chunk, p, c) : c \in 0 .. p - 1}
           best == Max(Best)
           Places == {c \in 0 .. p - 1 : MatchLength(chunk, p, c) = best}
<1>1. ChunkMax \in Nat /\ p \in 0 .. ChunkMax /\ room \in Nat /\ MaxLength(p) \in Nat
  <2>1. ChunkMax \in Nat /\ p \in 0 .. ChunkMax /\ room \in Nat
    BY Geometry
  <2> QED
    BY <2>1, Widths
<1>2. \A c : MatchLength(chunk, p, c) \in 0 .. room
  <2> SUFFICES ASSUME NEW c
               PROVE  MatchLength(chunk, p, c) \in 0 .. room
    OBVIOUS
  <2> DEFINE both == {MaxLength(p), room}
             T == {l \in 0 .. Min(both) : \A k \in 1 .. l : chunk[c + k] = chunk[p + k]}
  <2>1. \E x \in both : \A y \in both : x <= y
    BY <1>1
  <2>2. Min(both) \in both /\ \A y \in both : Min(both) <= y
    BY <2>1 DEF Min
  <2>3. Min(both) \in Nat /\ Min(both) <= room
    BY <1>1, <2>2
  <2> HIDE DEF both
  <2>4. 0 \in T /\ T \in SUBSET (0 .. room)
    BY <1>1, <2>3
  <2>5. Max(T) \in T
    BY <1>1, <2>4, MaxOf
  <2>6. MatchLength(chunk, p, c) = Max(T)
    BY DEF MatchLength, both
  <2> QED
    BY <2>4, <2>5, <2>6
<1>3. best \in Best /\ Best \in SUBSET (0 .. room)
  <2>1. Best \in SUBSET (0 .. room) /\ Best # {}
    BY <1>1, <1>2
  <2> QED
    BY <1>1, <2>1, MaxOf
<1>4. best >= MinMatch => Max(Places) \in Places
  <2> SUFFICES ASSUME best >= MinMatch
               PROVE  Max(Places) \in Places
    OBVIOUS
  <2>1. best # 0
    BY <1>3 DEF MinMatch
  <2>2. Places # {}
    BY <1>3, <2>1
  <2>3. Places \in SUBSET (0 .. p) /\ p \in Nat
    BY <1>1
  <2> QED
    BY <2>2, <2>3, MaxOf
<1>5. longestMatch(chunk, p) =
        IF best < MinMatch THEN [offset |-> 0, length |-> 0]
        ELSE [offset |-> p - Max(Places), length |-> best]
  BY DEF longestMatch
<1> HIDE DEF room, Best, best, Places
<1>6. best \in 0 .. room /\ MinMatch \in Nat
  BY <1>1, <1>3 DEF MinMatch
<1>7. CASE best < MinMatch
  BY <1>1, <1>5, <1>7 DEF room
<1>8. CASE ~(best < MinMatch)
  <2>1. Max(Places) \in Int
    BY <1>4, <1>6, <1>8 DEF Places
  <2> QED
    BY <1>1, <1>5, <1>6, <1>8, <2>1 DEF room
<1> QED
  BY <1>7, <1>8

\* A group begins with a flag byte of no set bits.
LEMMA OpenedIs ==
  ASSUME CodecInv
  PROVE  /\ Opened \in Seq(Byte) /\ OpenedAt \in 1 .. Len(Opened)
         /\ Opened[OpenedAt] \in Nat /\ Opened[OpenedAt] < 2 ^ bit
         /\ bit \in 0 .. ByteBits - 1
<1>1. body \in Seq(Byte) /\ bit \in 0 .. ByteBits - 1 /\ Len(body) \in Nat
  BY LenProperties DEF CodecInv, TypeOK, Group
<1>2. 2 ^ bit \in Nat \ {0} /\ 0 \in Byte
  BY <1>1, Geometry DEF Byte
<1>3. CASE bit = 0
  <2>1. Opened = Append(body, 0) /\ OpenedAt = Len(body) + 1
    BY <1>3 DEF Opened, OpenedAt
  <2> QED
    BY <1>1, <1>2, <2>1, AppendProperties
<1>4. CASE bit # 0
  <2>1. Opened = body /\ OpenedAt = flagIndex /\ flagIndex \in 1 .. Len(body)
        /\ body[flagIndex] < 2 ^ bit
    BY <1>4 DEF Opened, OpenedAt, CodecInv, FlagBits
  <2>2. body[flagIndex] \in Byte
    BY <1>1, <2>1, ElementOfSeq
  <2> QED
    BY <1>1, <2>1, <2>2, Geometry DEF Byte
<1> QED
  BY <1>3, <1>4

\* After a token that left the flag byte below 2 ^ (bit + 1).
LEMMA TokenKeeps ==
  ASSUME CodecInv, NEW b \in Seq(Byte), NEW at \in 1 .. Len(b), b[at] < 2 ^ (bit + 1),
         NEW p \in 0 .. ChunkMax, pc = "encode",
         body' = b, flagIndex' = at, bit' = (bit + 1) % Group, pos' = p,
         UNCHANGED << pc, data, container, base, decoder >>
  PROVE  CodecInv'
<1>1. bit \in 0 .. ByteBits - 1 /\ ByteBits \in Nat \ {0} /\ Group = ByteBits
  BY Geometry DEF CodecInv, TypeOK
<1>2. bit' \in 0 .. Group - 1 /\ (bit' # 0 => bit' = bit + 1)
  BY <1>1
<1>3. FlagBits'
  BY <1>2 DEF FlagBits
<1>4. Len(b) \in Nat /\ at \in 0 .. Len(b)
  BY LenProperties
<1>5. TypeOK'
  BY <1>2, <1>4 DEF CodecInv, TypeOK, decoder, Group, Byte
<1>6. Encoding'
  BY DEF CodecInv, Encoding
<1> QED
  BY <1>3, <1>5, <1>6 DEF CodecInv

\* A literal keeps the encoder's buffers.
LEMMA LiteralKeeps ==
  ASSUME CodecInv, EncodeLiteral
  PROVE  CodecInv'
<1> DEFINE b == Append(Opened, Chunk[pos + 1])
<1>1. /\ pc = "encode" /\ pos < Len(Chunk) /\ pos \in Nat
      /\ body' = b /\ flagIndex' = OpenedAt /\ bit' = (bit + 1) % Group /\ pos' = pos + 1
      /\ UNCHANGED << pc, data, container, base, decoder >>
  BY DEF EncodeLiteral, CodecInv, TypeOK
<1>2. Chunk \in Seq(Byte) /\ Len(Chunk) \in 0 .. ChunkMax
  BY <1>1, ChunkIs
<1>3. Chunk[pos + 1] \in Byte
  BY <1>1, <1>2, ElementOfSeq
<1>4. /\ Opened \in Seq(Byte) /\ OpenedAt \in 1 .. Len(Opened)
      /\ Opened[OpenedAt] \in Nat /\ Opened[OpenedAt] < 2 ^ bit
      /\ bit \in 0 .. ByteBits - 1
  BY OpenedIs
<1>5. Len(Opened) \in Nat
  BY <1>4, LenProperties
<1>6. /\ b \in Seq(Byte) /\ Len(b) = Len(Opened) + 1 /\ b[OpenedAt] = Opened[OpenedAt]
  BY <1>3, <1>4, AppendProperties
<1>7. /\ 2 ^ (bit + 1) = 2 ^ bit + 2 ^ bit /\ 2 ^ bit \in Nat \ {0}
  BY <1>4, Geometry
<1> HIDE DEF b
<1>8. b[OpenedAt] < 2 ^ (bit + 1) /\ OpenedAt \in 1 .. Len(b) /\ pos + 1 \in 0 .. ChunkMax
  BY <1>1, <1>2, <1>4, <1>5, <1>6, <1>7, Geometry
<1> QED
  BY <1>1, <1>6, <1>8, TokenKeeps

\* What a copy token writes: its bit in the flag byte, and its two bytes.
LEMMA CopyWrites ==
  ASSUME CodecInv, EncodeCopy
  PROVE  LET token == packCopyToken(pos, Match.offset, Match.length)
             o == Len(Opened)
         IN  /\ body' \in Seq(Byte) /\ Len(body') = o + 2 /\ o \in Nat /\ OpenedAt \in 1 .. o
             /\ body'[OpenedAt] = Opened[OpenedAt] + 2 ^ bit
             /\ body'[OpenedAt] < 2 ^ (bit + 1)
             /\ \A i \in 1 .. o : i # OpenedAt => body'[i] = Opened[i]
             /\ body'[o + 1] = token % 2 ^ ByteBits
             /\ body'[o + 2] = token \div 2 ^ ByteBits
             /\ pos + Match.length \in 0 .. ChunkMax
<1> DEFINE token == packCopyToken(pos, Match.offset, Match.length)
           cells == << token % 2 ^ ByteBits, token \div 2 ^ ByteBits >>
           flagged == [Opened EXCEPT ![OpenedAt] = @ + 2 ^ bit]
           b == flagged \o cells
           o == Len(Opened)
<1>1. pc = "encode" /\ pos < Len(Chunk) /\ pos \in Nat /\ body' = b
  BY DEF EncodeCopy, CodecInv, TypeOK
<1>2. Len(Chunk) \in 0 .. ChunkMax /\ ChunkMax \in Nat
  BY <1>1, ChunkIs, Geometry
<1>3. pos \in 0 .. Len(Chunk) - 1 /\ pos \in 0 .. ChunkMax
  BY <1>1, <1>2
<1>4. Match.length \in 0 .. Len(Chunk) - pos /\ Match.offset \in Int
  BY <1>2, <1>3, MatchFits DEF Match
<1>5. token \in 0 .. 2 ^ TokenBits - 1
  <2>1. LengthUnit(pos) \in Nat \ {0}
    BY <1>3, Widths
  <2>2. (Match.offset - 1) * LengthUnit(pos) \in Int
    BY <1>4, <2>1
  <2>3. (Match.offset - 1) * LengthUnit(pos) + (Match.length - MinMatch) \in Int
    BY <1>4, <2>2 DEF MinMatch
  <2>4. 2 ^ TokenBits \in Nat \ {0}
    BY CopyTokenAssumption, PowersAssumption DEF CopyTokenAssumption, PowersAssumption
  <2> QED
    BY <2>3, <2>4 DEF packCopyToken
<1> HIDE DEF token
<1>6. token % 2 ^ ByteBits \in Byte /\ token \div 2 ^ ByteBits \in Byte
  BY <1>5, Geometry, TwoBytes DEF Byte
<1>7. /\ cells \in Seq(Byte) /\ Len(cells) = 2
      /\ cells[1] = token % 2 ^ ByteBits /\ cells[2] = token \div 2 ^ ByteBits
  BY <1>6
<1>8. /\ Opened \in Seq(Byte) /\ OpenedAt \in 1 .. o /\ o \in Nat
      /\ Opened[OpenedAt] \in Nat /\ Opened[OpenedAt] < 2 ^ bit
      /\ bit \in 0 .. ByteBits - 1
  BY OpenedIs, LenProperties
<1>9. /\ 2 ^ (bit + 1) = 2 ^ bit + 2 ^ bit /\ 2 ^ bit \in Nat \ {0}
      /\ 2 ^ (bit + 1) \in Nat /\ 2 ^ (bit + 1) <= 2 ^ ByteBits
  <2>1. bit + 1 \in 0 .. ByteBits
    BY <1>8, Geometry
  <2> QED
    BY <1>8, <2>1, Geometry
<1>10. /\ Opened[OpenedAt] + 2 ^ bit < 2 ^ (bit + 1)
       /\ Opened[OpenedAt] + 2 ^ bit \in Byte
  BY <1>8, <1>9, Geometry DEF Byte
<1>11. /\ flagged \in Seq(Byte) /\ Len(flagged) = o
       /\ flagged[OpenedAt] = Opened[OpenedAt] + 2 ^ bit
       /\ \A i \in 1 .. o : i # OpenedAt => flagged[i] = Opened[i]
  BY <1>8, <1>10, ExceptSeq
<1> HIDE DEF flagged, cells, o
<1>12. /\ b \in Seq(Byte) /\ Len(b) = o + 2
       /\ \A i \in 1 .. o + 2 : b[i] = IF i <= o THEN flagged[i] ELSE cells[i - o]
  <2>1. /\ b \in Seq(Byte) /\ Len(b) = Len(flagged) + Len(cells)
        /\ \A i \in 1 .. Len(flagged) + Len(cells) :
             b[i] = IF i <= Len(flagged) THEN flagged[i] ELSE cells[i - Len(flagged)]
    BY <1>7, <1>11, ConcatProperties
  <2> HIDE DEF b
  <2> QED
    BY <1>7, <1>11, <2>1
<1> HIDE DEF b
<1>13. /\ \A i \in 1 .. o : b[i] = flagged[i]
       /\ b[o + 1] = cells[1] /\ b[o + 2] = cells[2]
  <2>1. \A i \in 1 .. o : i \in 1 .. o + 2 /\ i <= o
    BY <1>8
  <2>2. \A i \in 1 .. o : b[i] = flagged[i]
    BY <1>12, <2>1
  <2>3. PICK j \in Nat : j = o + 1
    BY <1>8
  <2>4. PICK k \in Nat : k = o + 2
    BY <1>8
  <2>5. /\ j \in 1 .. o + 2 /\ ~(j <= o) /\ j - o = 1
        /\ k \in 1 .. o + 2 /\ ~(k <= o) /\ k - o = 2
    BY <1>8, <2>3, <2>4
  <2>6. b[j] = cells[1] /\ b[k] = cells[2]
    BY <1>12, <2>5
  <2> QED
    BY <2>2, <2>3, <2>4, <2>6
<1>14. pos + Match.length \in 0 .. ChunkMax
  BY <1>2, <1>3, <1>4
<1> QED
  BY <1>1, <1>7, <1>8, <1>10, <1>11, <1>12, <1>13, <1>14 DEF token, o

\* A copy token keeps the encoder's buffers.
LEMMA CopyKeeps ==
  ASSUME CodecInv, EncodeCopy
  PROVE  CodecInv' /\ Len(body') = Len(Opened) + 2
<1>1. /\ body' \in Seq(Byte) /\ Len(body') = Len(Opened) + 2 /\ Len(Opened) \in Nat
      /\ OpenedAt \in 1 .. Len(Opened) /\ body'[OpenedAt] < 2 ^ (bit + 1)
      /\ pos + Match.length \in 0 .. ChunkMax
  BY CopyWrites, Zenon
<1>2. /\ pc = "encode" /\ flagIndex' = OpenedAt /\ bit' = (bit + 1) % Group
      /\ pos' = pos + Match.length
      /\ UNCHANGED << pc, data, container, base, decoder >>
  BY DEF EncodeCopy
<1>3. OpenedAt \in 1 .. Len(body')
  BY <1>1
<1>4. CodecInv'
  BY <1>1, <1>2, <1>3, TokenKeeps
<1> QED
  BY <1>1, <1>4

\* A finished chunk adds cells to the container.
LEMMA EmittedCells ==
  ASSUME CodecInv, EmitCompressed \/ EmitRaw
  PROVE  \E cells \in Seq(Nat) : NextChunk(cells)
<1>1. pc = "encode"
  BY DEF EmitCompressed, EmitRaw, ChunkEncoded
<1>2. ChunkMax \in Nat \ {0} /\ Byte \subseteq Nat
  BY Geometry DEF Byte
<1>3. body \in Seq(Nat) /\ Len(body) \in Nat /\ Chunk \in Seq(Nat)
  BY <1>1, <1>2, ChunkIs, SeqMonotonic, LenProperties DEF CodecInv, TypeOK
<1>4. \A size \in Nat : \A mark \in Nat : Header(size, mark) \in Seq(Nat)
  BY <1>2 DEF Header
<1>5. CASE EmitCompressed
  <2>1. Header(Len(body) + 2, 1) \in Seq(Nat)
    BY <1>3, <1>4
  <2> QED
    BY <1>3, <1>5, <2>1, ConcatProperties DEF EmitCompressed
<1>6. CASE EmitRaw
  <2>1. Header(ChunkMax + 2, 0) \in Seq(Nat)
    BY <1>2, <1>4
  <2> QED
    BY <1>3, <1>6, <2>1, ConcatProperties DEF EmitRaw
<1> QED
  BY <1>5, <1>6

\* A finished chunk is appended to the container.

\* The next chunk starts with an empty body.
LEMMA EmitKeeps ==
  ASSUME CodecInv, EmitCompressed \/ EmitRaw
  PROVE  CodecInv'
<1>1. pc = "encode"
  BY DEF EmitCompressed, EmitRaw, ChunkEncoded
<1>2. ChunkMax \in Nat \ {0} /\ Byte \subseteq Nat
  BY Geometry DEF Byte
<1>3. PICK cells \in Seq(Nat) : NextChunk(cells)
  BY EmittedCells
<1>4. /\ container' = container \o cells /\ base' = base + ChunkMax /\ pos' = 0
      /\ body' = << >> /\ flagIndex' = 0 /\ bit' = 0
      /\ UNCHANGED << pc, data, ip, end, flag, dbit, chunkOut, out >>
  BY <1>3 DEF NextChunk, decoder
<1>5. container \in Seq(Nat) /\ Len(container) \in Nat /\ Len(cells) \in Nat
  BY LenProperties DEF CodecInv, TypeOK
<1>6. container' \in Seq(Nat) /\ Len(container') = Len(container) + Len(cells)
  BY <1>4, <1>5, ConcatProperties
<1>7. << >> \in Seq(Byte) /\ Len(<< >>) = 0
  BY EmptySeq
<1>8. 0 \in 0 .. Group - 1
  BY Geometry
<1>9. TypeOK'
  BY <1>2, <1>4, <1>5, <1>6, <1>7, <1>8 DEF CodecInv, TypeOK, Group, Byte
<1>10. FlagBits' /\ Encoding'
  BY <1>4 DEF CodecInv, FlagBits, Encoding
<1> QED
  BY <1>9, <1>10 DEF CodecInv

\* Steps that change pc alone, and not to "encode".
LEMMA OutcomeKeeps ==
  ASSUME CodecInv, pc' \in {"incompressible", "signature", "corrupt"},
         UNCHANGED << data, container, encoder, decoder >>
  PROVE  CodecInv'
PROOF
  BY DEF CodecInv, TypeOK, FlagBits, Encoding, encoder, decoder, Group, Byte

-----------------------------------------------------------------------------
(***************************************************************************)
(* The decoder.                                                            *)
(***************************************************************************)

\* A copy that overlaps its own output is well defined: each byte is one that
\* stood before it.
LEMMA CopiedIs ==
  ASSUME chunkOut \in Seq(Nat), NEW length \in Nat, NEW from \in 0 .. Len(chunkOut) - 1
  PROVE  /\ Copied(length, from) \in Seq(Nat) /\ Len(Copied(length, from)) = length
         /\ \A k \in 1 .. length :
              Copied(length, from)[k]
                = IF from + k <= Len(chunkOut) THEN chunkOut[from + k]
                  ELSE Copied(length, from)[from + k - Len(chunkOut)]
<1> DEFINE n == Len(chunkOut)
           Byte1(f, k) == IF from + k <= n THEN chunkOut[from + k] ELSE f[from + k - n]
           Copy(f, m) == f = [k \in 1 .. m |-> Byte1(f, k)]
<1>1. n \in Nat /\ \A k \in 1 .. n : chunkOut[k] \in Nat
  BY LenProperties, ElementOfSeq
<1>2. \A m \in Nat : \E f : Copy(f, m)
  <2> DEFINE Bad == {m \in Nat : ~ \E f : Copy(f, m)}
  <2> SUFFICES ASSUME Bad # {}
               PROVE  FALSE
    OBVIOUS
  <2>1. PICK m \in Bad : \A y \in Bad : m <= y
    BY LeastOf
  <2>2. m # 0
    <3>1. Copy(<< >>, 0)
      OBVIOUS
    <3> QED
      BY <2>1, <3>1
  <2>3. m \in Nat /\ m - 1 \in Nat
    BY <2>1, <2>2
  <2>4. PICK f : Copy(f, m - 1)
    <3> HIDE DEF Copy
    <3>1. m - 1 \in Bad => m <= m - 1
      BY <2>1
    <3>2. m - 1 \notin Bad
      <4> HIDE DEF Bad
      <4> QED
        BY <2>3, <3>1
    <3> QED
      BY <2>3, <3>2
  <2> DEFINE g == [k \in 1 .. m |-> IF k < m THEN f[k] ELSE Byte1(f, k)]
  <2>5. \A k \in 1 .. m : from + k > n => from + k - n \in 1 .. m - 1
    BY <1>1, <2>3
  <2>6. \A k \in 1 .. m : Byte1(g, k) = Byte1(f, k)
    BY <1>1, <2>3, <2>5
  <2>7. \A k \in 1 .. m - 1 : f[k] = Byte1(f, k)
    BY <2>4, Zenon
  <2>8. \A k \in 1 .. m : g[k] = Byte1(f, k)
    <3> HIDE DEF Byte1
    <3> SUFFICES ASSUME NEW k \in 1 .. m
                 PROVE  g[k] = Byte1(f, k)
      OBVIOUS
    <3>1. k < m => k \in 1 .. m - 1
      BY <2>3
    <3> QED
      BY <2>7, <3>1
  <2>9. Copy(g, m)
    BY <2>6, <2>8
  <2> QED
    BY <2>1, <2>9
<1> DEFINE c == Copied(length, from)
<1>3. Copy(c, length)
  <2>1. PICK f : Copy(f, length)
    BY <1>2
  <2> QED
    BY <2>1 DEF Copied
<1> HIDE DEF c
<1>4. \A k \in 1 .. length : c[k] = Byte1(c, k)
  BY <1>3, Zenon
<1>5. \A k \in 1 .. length : c[k] \in Nat
  <2> DEFINE Bad == {k \in 1 .. length : c[k] \notin Nat}
  <2> SUFFICES ASSUME Bad # {}
               PROVE  FALSE
    OBVIOUS
  <2>1. Bad \in SUBSET Nat
    OBVIOUS
  <2>2. PICK k \in Bad : \A y \in Bad : k <= y
    BY <2>1, LeastOf
  <2>3. k \in 1 .. length /\ c[k] \notin Nat /\ c[k] = Byte1(c, k)
    BY <1>4, <2>2
  <2>4. CASE from + k <= n
    BY <1>1, <2>3, <2>4
  <2>5. CASE ~(from + k <= n)
    <3>1. from + k - n \in 1 .. length /\ from + k - n < k
      BY <1>1, <2>3, <2>5
    <3>2. from + k - n \notin Bad
      BY <2>2, <2>3, <3>1
    <3> QED
      BY <2>3, <2>5, <3>1, <3>2
  <2> QED
    BY <2>4, <2>5
<1>6. c = [k \in 1 .. length |-> c[k]]
  BY <1>3, <1>4
<1>7. c \in [1 .. length -> Nat]
  BY <1>5, <1>6
<1>8. c \in Seq(Nat) /\ Len(c) = length
  BY <1>7, SeqDef
<1> QED
  BY <1>4, <1>8 DEF c

\* After a step of the decoder that stays in the container and in the chunk.
LEMMA DecoderKeeps ==
  ASSUME CodecInv, pc' \in {"decode", "done"}, UNCHANGED << data, container, encoder >>,
         ip' \in 0 .. Len(container), end' \in 0 .. Len(container),
         flag' \in Nat, dbit' \in 0 .. Group,
         chunkOut' \in Seq(Nat), Len(chunkOut') <= ChunkMax, out' \in Seq(Nat)
  PROVE  CodecInv'
PROOF
  BY DEF CodecInv, TypeOK, FlagBits, Encoding, encoder, Group, Byte

\* What the decoder reads and has put out.
LEMMA DecoderIs ==
  ASSUME CodecInv
  PROVE  /\ container \in Seq(Nat) /\ Len(container) \in Nat
         /\ ip \in 0 .. Len(container) /\ end \in 0 .. Len(container)
         /\ \A k \in 0 .. Len(container) - 1 : Cell(k) \in Nat
         /\ flag \in Nat /\ dbit \in 0 .. Group /\ Group \in Nat \ {0}
         /\ chunkOut \in Seq(Nat) /\ Len(chunkOut) \in 0 .. ChunkMax /\ ChunkMax \in Nat
         /\ out \in Seq(Nat) /\ out \o chunkOut \in Seq(Nat)
         /\ << >> \in Seq(Nat) /\ Len(<< >>) = 0
<1>1. /\ container \in Seq(Nat) /\ chunkOut \in Seq(Nat) /\ out \in Seq(Nat)
      /\ Len(chunkOut) <= ChunkMax /\ flag \in Nat /\ dbit \in 0 .. Group
      /\ ip \in 0 .. Len(container) /\ end \in 0 .. Len(container)
  BY DEF CodecInv, TypeOK
<1>2. Len(container) \in Nat /\ Len(chunkOut) \in Nat
  BY <1>1, LenProperties
<1>3. \A k \in 0 .. Len(container) - 1 : Cell(k) \in Nat
  <2> SUFFICES ASSUME NEW k \in 0 .. Len(container) - 1
               PROVE  container[k + 1] \in Nat
    BY DEF Cell
  <2>1. k + 1 \in 1 .. Len(container)
    BY <1>2
  <2> QED
    BY <1>1, <2>1, ElementOfSeq
<1>4. out \o chunkOut \in Seq(Nat)
  BY <1>1, ConcatProperties
<1>5. << >> \in Seq(Nat) /\ Len(<< >>) = 0
  BY EmptySeq
<1>6. Group \in Nat \ {0} /\ ChunkMax \in Nat
  BY Geometry
<1>7. Len(chunkOut) \in 0 .. ChunkMax
  BY <1>1, <1>2, <1>6
<1> QED
  BY <1>1, <1>2, <1>3, <1>4, <1>5, <1>6, <1>7

\* The signature leaves the decoder behind one cell.
LEMMA AcceptKeeps ==
  ASSUME CodecInv, Accept
  PROVE  CodecInv'
<1>1. container # << >> /\ container \in Seq(Nat)
  BY DecoderIs DEF Accept, Signed
<1>2. Len(container) \in Nat \ {0}
  BY <1>1, EmptySeq
<1>3. /\ pc' = "decode" /\ ip' = 1 /\ end' = 1
      /\ UNCHANGED << data, container, encoder >>
      /\ flag' = flag /\ dbit' = dbit /\ chunkOut' = chunkOut /\ out' = out
  BY DEF Accept
<1>4. 1 \in 0 .. Len(container)
  BY <1>2
<1>5. Len(chunkOut) <= ChunkMax
  BY DEF CodecInv, TypeOK
<1> QED
  BY <1>3, <1>4, <1>5, DecoderIs, DecoderKeeps

\* A chunk that fits ends in the container.
LEMMA OpenChunkKeeps ==
  ASSUME CodecInv, OpenChunk
  PROVE  CodecInv'
<1>1. /\ pc' = "decode" /\ ip' = ip + 2 /\ end' = ip + Size /\ dbit' = Group
      /\ out' = out \o chunkOut /\ chunkOut' = << >> /\ flag' = flag
      /\ UNCHANGED << data, container, encoder >>
      /\ ip < Len(container) /\ ip + 2 <= Len(container) /\ ip + Size <= Len(container)
  BY DEF OpenChunk, AtHeader, HeaderFits
<1>2. ip \in 0 .. Len(container) - 1 /\ Len(container) \in Nat
  BY <1>1, DecoderIs
<1>3. Size \in Nat
  BY <1>2, DecoderIs DEF Size
<1>4. ip' \in 0 .. Len(container) /\ end' \in 0 .. Len(container)
  BY <1>1, <1>2, <1>3
<1>5. dbit' \in 0 .. Group /\ Len(chunkOut') <= ChunkMax
  BY <1>1, DecoderIs
<1> QED
  BY <1>1, <1>4, <1>5, DecoderIs, DecoderKeeps

\* A raw chunk that fits is cells of the container.
LEMMA CopyRawKeeps ==
  ASSUME CodecInv, CopyRaw
  PROVE  CodecInv'
<1>1. /\ pc' = "decode" /\ ip' = ip + 2 + ChunkMax /\ end' = ip + 2 + ChunkMax
      /\ out' = out \o chunkOut
      /\ chunkOut' = SubSeq(container, ip + 3, ip + 2 + ChunkMax)
      /\ flag' = flag /\ dbit' = dbit
      /\ UNCHANGED << data, container, encoder >>
      /\ ip + 2 + ChunkMax <= Len(container)
  BY DEF CopyRaw, AtHeader, RawFits
<1>2. ip \in Nat /\ ChunkMax \in Nat /\ Len(container) \in Nat /\ container \in Seq(Nat)
  BY DecoderIs
<1>3. ip' \in 0 .. Len(container) /\ end' \in 0 .. Len(container)
  BY <1>1, <1>2
<1> DEFINE first == ip + 3
           last == ip + 2 + ChunkMax
<1>4. first \in Int /\ last \in Int /\ \A k \in first .. last : k \in 1 .. Len(container)
  BY <1>1, <1>2
<1>5. chunkOut' = SubSeq(container, first, last)
  BY <1>1
<1>6. last - first + 1 <= ChunkMax
  BY <1>2
<1> HIDE DEF first, last
<1>7. /\ chunkOut' \in Seq(Nat)
      /\ Len(chunkOut') = IF first <= last THEN last - first + 1 ELSE 0
  <2>1. \A k \in first .. last : container[k] \in Nat
    BY <1>2, <1>4, ElementOfSeq
  <2> QED
    BY <1>4, <1>5, <2>1, SubSeqProperties
<1>8. Len(chunkOut') <= ChunkMax
  BY <1>2, <1>4, <1>6, <1>7
<1> QED
  BY <1>1, <1>3, <1>7, <1>8, DecoderIs, DecoderKeeps

\* A flag byte is read before the end of the chunk.
LEMMA ReadFlagKeeps ==
  ASSUME CodecInv, ReadFlag
  PROVE  CodecInv'
<1>1. /\ pc' = "decode" /\ ip' = ip + 1 /\ end' = end /\ flag' = Cell(ip) /\ dbit' = 0
      /\ out' = out /\ chunkOut' = chunkOut /\ ip < end
      /\ UNCHANGED << data, container, encoder >>
  BY DEF ReadFlag
<1>2. ip \in 0 .. Len(container) - 1 /\ ip + 1 \in 0 .. Len(container)
  BY <1>1, DecoderIs
<1>3. flag' \in Nat /\ dbit' \in 0 .. Group /\ Len(chunkOut') <= ChunkMax
  BY <1>1, <1>2, DecoderIs
<1> QED
  BY <1>1, <1>2, <1>3, DecoderIs, DecoderKeeps

\* A literal that fits is read before the end of the chunk.
LEMMA DecodeLiteralKeeps ==
  ASSUME CodecInv, DecodeLiteral
  PROVE  CodecInv'
<1>1. /\ pc' = "decode" /\ ip' = ip + 1 /\ end' = end /\ flag' = flag /\ dbit' = dbit + 1
      /\ out' = out /\ chunkOut' = Append(chunkOut, Cell(ip))
      /\ ip < end /\ dbit < Group /\ Len(chunkOut) + 1 <= ChunkMax
      /\ UNCHANGED << data, container, encoder >>
  BY DEF DecodeLiteral, AtToken, LiteralFits
<1>2. ip \in 0 .. Len(container) - 1 /\ ip' \in 0 .. Len(container) /\ dbit' \in 0 .. Group
  <2>1. /\ ip \in 0 .. Len(container) /\ end \in 0 .. Len(container) /\ dbit \in 0 .. Group
        /\ Len(container) \in Nat /\ Group \in Nat
    BY DecoderIs
  <2>2. ip < end /\ dbit < Group /\ ip' = ip + 1 /\ dbit' = dbit + 1
    BY <1>1
  <2> QED
    BY ONLY <2>1, <2>2
<1>3. Cell(ip) \in Nat /\ chunkOut \in Seq(Nat)
  BY <1>2, DecoderIs
<1>4. /\ Append(chunkOut, Cell(ip)) \in Seq(Nat)
      /\ Len(Append(chunkOut, Cell(ip))) = Len(chunkOut) + 1
  BY <1>3, AppendProperties
<1>5. chunkOut' \in Seq(Nat) /\ Len(chunkOut') = Len(chunkOut) + 1
  BY <1>1, <1>4, Zenon
<1> QED
  BY <1>1, <1>2, <1>5, DecoderIs, DecoderKeeps

\* A copy token that fits adds bytes of the output to the output.
LEMMA DecodeCopyKeeps ==
  ASSUME CodecInv, DecodeCopy
  PROVE  CodecInv'
<1>1. /\ pc' = "decode" /\ ip' = ip + 2 /\ end' = end /\ flag' = flag /\ dbit' = dbit + 1
      /\ out' = out /\ chunkOut' = chunkOut \o Copied(CopyLength, CopyFrom)
      /\ ip + 2 <= end /\ dbit < Group
      /\ CopyFrom >= 0 /\ Len(chunkOut) + CopyLength <= ChunkMax
      /\ UNCHANGED << data, container, encoder >>
  BY DEF DecodeCopy, AtToken, CopyFits
<1>2. /\ ip \in 0 .. Len(container) - 1 /\ ip + 1 \in 0 .. Len(container) - 1
      /\ ip' \in 0 .. Len(container) /\ dbit' \in 0 .. Group
  <2>1. /\ Len(container) \in Nat /\ ip \in 0 .. Len(container) /\ end \in 0 .. Len(container)
        /\ dbit \in 0 .. Group /\ Group \in Nat
    BY DecoderIs
  <2> QED
    BY <1>1, <2>1
<1>3. Token \in Nat
  <2>1. Cell(ip) \in Nat /\ Cell(ip + 1) \in Nat
    BY <1>2, DecoderIs
  <2>2. 2 ^ ByteBits \in Nat
    BY Geometry
  <2> QED
    BY <2>1, <2>2 DEF Token
<1> DEFINE n == Len(chunkOut)
<1>4. n \in 0 .. ChunkMax /\ n \in Nat /\ LengthUnit(n) \in Nat \ {0}
  BY DecoderIs, Widths
<1>5. TokenLength(n, Token) \in Nat /\ TokenOffset(n, Token) \in Nat \ {0}
  BY <1>3, <1>4 DEF TokenLength, TokenOffset, MinMatch
<1> HIDE DEF n
<1>6. CopyLength \in Nat /\ CopyFrom \in 0 .. n - 1
  BY <1>1, <1>4, <1>5 DEF CopyLength, CopyFrom, n
<1> DEFINE tail == Copied(CopyLength, CopyFrom)
<1>7. chunkOut \in Seq(Nat) /\ tail \in Seq(Nat) /\ Len(tail) = CopyLength
  BY <1>6, DecoderIs, CopiedIs DEF n
<1> HIDE DEF tail
<1>8. chunkOut \o tail \in Seq(Nat) /\ Len(chunkOut \o tail) = n + CopyLength
  BY <1>7, ConcatProperties DEF n
<1>9. chunkOut' \in Seq(Nat) /\ Len(chunkOut') <= ChunkMax
  BY <1>1, <1>8 DEF tail, n
<1> QED
  BY <1>1, <1>2, <1>9, DecoderIs, DecoderKeeps

\* The last chunk joins the output.
LEMMA DecodeDoneKeeps ==
  ASSUME CodecInv, DecodeDone
  PROVE  CodecInv'
<1>1. /\ pc' = "done" /\ ip' = ip /\ end' = end /\ flag' = flag /\ dbit' = dbit
      /\ out' = out \o chunkOut /\ chunkOut' = << >>
      /\ UNCHANGED << data, container, encoder >>
  BY DEF DecodeDone
<1>2. Len(chunkOut') <= ChunkMax
  BY <1>1, DecoderIs
<1> QED
  BY <1>1, <1>2, DecoderIs, DecoderKeeps

-----------------------------------------------------------------------------
\* Both kinds of start have the invariant.
LEMMA InitCodec ==
  ASSUME Init
  PROVE  CodecInv
<1>1. Byte \subseteq Nat /\ Group \in Nat \ {0} /\ ChunkMax \in Nat
  BY Geometry DEF Byte
<1>2. << >> \in Seq(Nat) /\ << >> \in Seq(Byte) /\ Len(<< >>) = 0
  BY EmptySeq
<1>3. container \in Seq(Nat)
  <2>1. << Signature >> \in Seq(Nat)
    BY DEF Signature
  <2> QED
    BY <2>1, InputsAssumption DEF Init, InputsAssumption
<1>4. Len(container) \in Nat
  BY <1>3, LenProperties
<1>5. pc \in {"encode", "signature"} /\ data \in Inputs \cup {NoData}
      /\ (pc = "encode" => data \in Inputs)
  BY DEF Init
<1>6. TypeOK
  BY <1>1, <1>2, <1>3, <1>4, <1>5 DEF Init, TypeOK
<1> QED
  BY <1>5, <1>6 DEF CodecInv, Init, FlagBits, Encoding

\* The invariant: what TypeOK says of the buffers and positions; the open flag
\* byte has room for the next bit; what is encoded is an input.
THEOREM CodecInvariant == Spec => []CodecInv
<1>1. Init => CodecInv
  BY InitCodec
<1>2. CodecInv /\ [Next]_vars => CodecInv'
  <2> SUFFICES ASSUME CodecInv, [Next]_vars
               PROVE  CodecInv'
    OBVIOUS
  <2>1. CASE EncodeLiteral
    BY <2>1, LiteralKeeps
  <2>2. CASE EncodeCopy
    BY <2>2, CopyKeeps
  <2>3. CASE EmitCompressed \/ EmitRaw
    BY <2>3, EmitKeeps
  <2>4. CASE Incompressible
    BY <2>4, OutcomeKeeps DEF Incompressible
  <2>5. CASE EncodeDone
    BY <2>5, OutcomeKeeps DEF EncodeDone
  <2>6. CASE Accept
    BY <2>6, AcceptKeeps
  <2>7. CASE BadSignature \/ BadChunk \/ BadToken
    BY <2>7, OutcomeKeeps DEF BadSignature, BadChunk, BadToken, Corrupt
  <2>8. CASE OpenChunk
    BY <2>8, OpenChunkKeeps
  <2>9. CASE CopyRaw
    BY <2>9, CopyRawKeeps
  <2>10. CASE ReadFlag
    BY <2>10, ReadFlagKeeps
  <2>11. CASE DecodeLiteral
    BY <2>11, DecodeLiteralKeeps
  <2>12. CASE DecodeCopy
    BY <2>12, DecodeCopyKeeps
  <2>13. CASE DecodeDone
    BY <2>13, DecodeDoneKeeps
  <2>14. CASE UNCHANGED vars
    BY <2>14 DEF vars, encoder, decoder, CodecInv, TypeOK, FlagBits, Encoding, Group, Byte
  <2> QED
    BY <2>1, <2>2, <2>3, <2>4, <2>5, <2>6, <2>7, <2>8, <2>9, <2>10, <2>11, <2>12, <2>13,
       <2>14 DEF Next, Encode, Decode
<1> QED
  BY <1>1, <1>2, PTL DEF Spec

\* Compress writes bytes only, and Decompress, on any container whatever, reads
\* inside it and inside the chunk it has put out, at most a chunk at a time.
THEOREM TypeCorrect == Spec => []TypeOK
<1>1. CodecInv => TypeOK
  BY DEF CodecInv
<1> QED
  BY <1>1, CodecInvariant, PTL

-----------------------------------------------------------------------------
(***************************************************************************)
(* What Compress refuses.                                                  *)
(***************************************************************************)

\* After f flag bytes: a token is at most as long as what it stands for, but
\* for the flag bytes, and each of those had Group tokens, the open one bit.
Flags(f) ==
  /\ Len(body) <= pos + f
  /\ Group * f <= pos + (IF bit = 0 THEN 0 ELSE Group - bit)

FlagBytes == \E f \in Nat : Flags(f)

\* Compress gives up at the end of a chunk that is not full.
Refused ==
  pc = "incompressible" =>
    base + ChunkMax > Len(data) /\ pos = Len(Chunk) /\ Len(body) >= ChunkMax

OverheadInv == FlagBytes /\ Refused

\* A token of at most two bytes, a second one only with a third position.
LEMMA TokenOverhead ==
  ASSUME CodecInv, NEW f \in Nat, Flags(f), NEW cost \in 1 .. 2, NEW n \in Nat, cost <= n,
         Len(body') = Len(Opened) + cost, pos' = pos + n, bit' = (bit + 1) % Group
  PROVE  FlagBytes'
<1> DEFINE G == Group
           product == G * f
<1>1. /\ G \in Nat \ {0} /\ bit \in 0 .. G - 1 /\ pos \in Nat
      /\ body \in Seq(Byte) /\ Len(body) \in Nat
  BY Geometry, LenProperties DEF CodecInv, TypeOK
<1>2. /\ product \in Nat /\ G * (f + 1) = product + G
      /\ Len(body) <= pos + f /\ product <= pos + (IF bit = 0 THEN 0 ELSE G - bit)
  BY <1>1 DEF Flags
<1>3. bit' = IF bit + 1 = G THEN 0 ELSE bit + 1
  BY <1>1
<1>4. CASE bit = 0
  <2>1. Len(Opened) = Len(body) + 1
    BY <1>1, <1>4, Geometry, AppendProperties DEF Opened, Byte
  <2> HIDE DEF G, product
  <2>2. /\ Len(body') <= pos' + (f + 1)
        /\ G * (f + 1) <= pos' + (IF bit' = 0 THEN 0 ELSE G - bit')
    BY <1>1, <1>2, <1>3, <1>4, <2>1
  <2> QED
    BY <2>2 DEF FlagBytes, Flags, G, Group
<1>5. CASE bit # 0
  <2>1. Len(Opened) = Len(body)
    BY <1>5 DEF Opened
  <2> HIDE DEF G, product
  <2>2. /\ Len(body') <= pos' + f
        /\ product <= pos' + (IF bit' = 0 THEN 0 ELSE G - bit')
    BY <1>1, <1>2, <1>3, <1>5, <2>1
  <2> QED
    BY <2>2 DEF FlagBytes, Flags, G, Group, product
<1> QED
  BY <1>4, <1>5

\* A step that leaves the encoder alone and does not refuse.
LEMMA OverheadStays ==
  ASSUME OverheadInv, UNCHANGED encoder, pc' # "incompressible"
  PROVE  OverheadInv'
PROOF
  BY DEF OverheadInv, FlagBytes, Flags, Refused, encoder, Group

\* A literal adds one byte, and a flag byte for each group.
LEMMA LiteralOverhead ==
  ASSUME CodecInv, OverheadInv, EncodeLiteral
  PROVE  OverheadInv'
<1>1. /\ pc = "encode" /\ pc' = pc /\ pos < Len(Chunk) /\ pos \in Nat
      /\ body' = Append(Opened, Chunk[pos + 1]) /\ pos' = pos + 1 /\ bit' = (bit + 1) % Group
  BY DEF EncodeLiteral, CodecInv, TypeOK
<1>2. Chunk \in Seq(Byte) /\ Len(Chunk) \in 0 .. ChunkMax
  BY <1>1, ChunkIs
<1>3. Chunk[pos + 1] \in Byte /\ Opened \in Seq(Byte)
  BY <1>1, <1>2, ElementOfSeq, OpenedIs
<1>4. Len(body') = Len(Opened) + 1
  BY <1>1, <1>3, AppendProperties
<1>5. FlagBytes'
  BY <1>1, <1>4, TokenOverhead DEF OverheadInv, FlagBytes
<1> QED
  BY <1>1, <1>5 DEF OverheadInv, Refused

\* A copy token is no longer than the bytes it stands for.
LEMMA CopyOverhead ==
  ASSUME CodecInv, OverheadInv, EncodeCopy
  PROVE  OverheadInv'
<1>1. /\ pc = "encode" /\ pc' = pc /\ pos < Len(Chunk) /\ pos \in Nat
      /\ bit' = (bit + 1) % Group
      /\ pos' = pos + Match.length /\ Match.length >= MinMatch
  BY DEF EncodeCopy, CodecInv, TypeOK
<1>2. Len(Chunk) \in 0 .. ChunkMax /\ ChunkMax \in Nat
  BY <1>1, ChunkIs, Geometry
<1>3. pos \in 0 .. Len(Chunk) - 1
  BY <1>1, <1>2
<1>4. Match.length \in Nat /\ 2 <= Match.length
  BY <1>1, <1>2, <1>3, MatchFits DEF Match, MinMatch
<1>5. Len(body') = Len(Opened) + 2
  BY CopyKeeps
<1>6. PICK f \in Nat : Flags(f)
  BY DEF OverheadInv, FlagBytes
<1>7. 2 \in 1 .. 2
  OBVIOUS
<1>8. FlagBytes'
  BY <1>1, <1>4, <1>5, <1>6, <1>7, TokenOverhead
<1> QED
  BY <1>1, <1>8 DEF OverheadInv, Refused

\* The next chunk starts with no overhead.
LEMMA EmitOverhead ==
  ASSUME EmitCompressed \/ EmitRaw
  PROVE  OverheadInv'
<1>1. body' = << >> /\ pos' = 0 /\ bit' = 0 /\ pc' = "encode"
  BY DEF EmitCompressed, EmitRaw, NextChunk, ChunkEncoded
<1>2. Len(body') <= pos' + 0 /\ Group * 0 <= pos' + 0
  BY <1>1, EmptySeq, Geometry
<1>3. Flags(0)'
  BY <1>1, <1>2 DEF Flags, Group
<1> QED
  BY <1>1, <1>3 DEF OverheadInv, FlagBytes, Refused

\* A chunk is refused only by its length.
LEMMA IncompressibleOverhead ==
  ASSUME CodecInv, OverheadInv, Incompressible
  PROVE  OverheadInv'
<1>1. /\ pc = "encode" /\ base < Len(data) /\ pos = Len(Chunk)
      /\ ~(Len(body) < ChunkMax) /\ Len(Chunk) < ChunkMax
      /\ UNCHANGED << data, encoder >>
  BY DEF Incompressible, ChunkEncoded, Fits
<1>2. /\ base \in Nat /\ ChunkMax \in Nat \ {0} /\ body \in Seq(Byte) /\ data \in Seq(Byte)
  BY <1>1, Geometry, InputsAssumption DEF CodecInv, TypeOK, Encoding, InputsAssumption
<1>3. Len(data) \in Nat /\ Len(body) \in Nat
  BY <1>2, LenProperties
<1>4. base + ChunkMax > Len(data)
  <2> SUFFICES ASSUME base + ChunkMax <= Len(data)
               PROVE  FALSE
    BY <1>2, <1>3
  <2> DEFINE last == base + ChunkMax
  <2>1. Chunk = SubSeq(data, base + 1, last)
    BY <1>2, <1>3 DEF Chunk
  <2>2. \A k \in base + 1 .. last : k \in 1 .. Len(data)
    BY <1>2, <1>3
  <2>3. last \in Int /\ base + 1 \in Int /\ base + 1 <= last /\ last - (base + 1) + 1 = ChunkMax
    BY <1>2
  <2> HIDE DEF last
  <2>4. \A k \in base + 1 .. last : data[k] \in Byte
    BY <1>2, <2>2, ElementOfSeq
  <2>5. Len(Chunk) = IF base + 1 <= last THEN last - (base + 1) + 1 ELSE 0
    BY <2>1, <2>3, <2>4, SubSeqProperties
  <2> QED
    BY <1>1, <1>2, <2>3, <2>5
<1>5. Chunk' = Chunk
  BY <1>1 DEF Chunk, encoder
<1>6. Refused'
  BY <1>1, <1>2, <1>3, <1>4, <1>5 DEF Refused, encoder
<1>7. FlagBytes'
  BY <1>1 DEF OverheadInv, FlagBytes, Flags, encoder, Group
<1> QED
  BY <1>6, <1>7 DEF OverheadInv

\* The invariant: the flag bytes written so far, and what a refused chunk is.
THEOREM OverheadInvariant == Spec => []OverheadInv
<1>1. Init => OverheadInv
  <2> SUFFICES ASSUME Init
               PROVE  OverheadInv
    OBVIOUS
  <2>1. Len(body) <= pos + 0 /\ Group * 0 <= pos + 0 /\ bit = 0
    BY EmptySeq, Geometry DEF Init
  <2>2. Flags(0)
    BY <2>1 DEF Flags
  <2> QED
    BY <2>2 DEF OverheadInv, FlagBytes, Refused, Init
<1>2. CodecInv /\ OverheadInv /\ [Next]_vars => OverheadInv'
  <2> SUFFICES ASSUME CodecInv, OverheadInv, [Next]_vars
               PROVE  OverheadInv'
    OBVIOUS
  <2>1. CASE EncodeLiteral
    BY <2>1, LiteralOverhead
  <2>2. CASE EncodeCopy
    BY <2>2, CopyOverhead
  <2>3. CASE EmitCompressed \/ EmitRaw
    BY <2>3, EmitOverhead
  <2>4. CASE Incompressible
    BY <2>4, IncompressibleOverhead
  <2>5. CASE EncodeDone \/ Decode
    <3>1. pc' # "incompressible" /\ UNCHANGED encoder
      BY <2>5 DEF EncodeDone, Decode, Accept, BadSignature, OpenChunk, CopyRaw, BadChunk,
                  ReadFlag, DecodeLiteral, DecodeCopy, BadToken, DecodeDone, Corrupt,
                  AtHeader, AtToken, encoder
    <3> QED
      BY <3>1, OverheadStays
  <2>6. CASE UNCHANGED vars
    <3>1. UNCHANGED << pc, data, base, pos, body, bit >>
      BY <2>6 DEF vars, encoder
    <3>2. Chunk' = Chunk
      BY <3>1 DEF Chunk
    <3> QED
      BY <3>1, <3>2 DEF OverheadInv, FlagBytes, Flags, Refused, Group
  <2> QED
    BY <2>1, <2>2, <2>3, <2>4, <2>5, <2>6 DEF Next, Encode
<1> QED
  BY <1>1, <1>2, CodecInvariant, PTL DEF Spec

\* Compress refuses only data whose last chunk would fill ChunkMax bytes even
\* as literals, a flag byte to every Group of them.
THEOREM RefusesOnlyLong == Spec => []FailsOnlyIfLong
<1>1. CodecInv /\ OverheadInv => FailsOnlyIfLong
  <2> SUFFICES ASSUME CodecInv, OverheadInv, pc = "incompressible"
               PROVE  /\ base + ChunkMax > Len(data)
                      /\ Len(Chunk) + (Len(Chunk) + Group - 1) \div Group >= ChunkMax
    BY DEF FailsOnlyIfLong
  <2> DEFINE G == Group
             a == pos + G - 1
             q == a \div G
  <2>1. base + ChunkMax > Len(data) /\ pos = Len(Chunk) /\ Len(body) >= ChunkMax
    BY DEF OverheadInv, Refused
  <2>2. PICK f \in Nat : Flags(f)
    BY DEF OverheadInv, FlagBytes
  <2>3. G \in Nat \ {0} /\ pos \in Nat /\ bit \in 0 .. G - 1 /\ Len(body) \in Nat
        /\ ChunkMax \in Nat
    BY Geometry, LenProperties DEF CodecInv, TypeOK
  <2>4. G * f <= a /\ Len(body) <= pos + f /\ G * f \in Nat /\ a \in Nat
    BY <2>2, <2>3 DEF Flags
  <2> HIDE DEF G, a
  <2>5. q \in Nat /\ a < G * q + G
    <3>1. q \in Nat /\ a % G \in 0 .. G - 1 /\ a = (G * q) + (a % G)
      BY <2>3, <2>4
    <3> HIDE DEF q
    <3>2. G * q \in Nat
      BY <2>3, <3>1
    <3> QED
      BY <2>3, <2>4, <3>1, <3>2
  <2> HIDE DEF q
  <2>6. f <= q
    <3> SUFFICES ASSUME f >= q + 1
                 PROVE  FALSE
      BY <2>2, <2>5
    <3>1. G * f >= G * (q + 1) /\ G * (q + 1) = G * q + G /\ G * q \in Nat
      BY <2>2, <2>3, <2>5
    <3> QED
      BY <2>3, <2>4, <2>5, <3>1
  <2>7. pos + q >= ChunkMax
    BY <2>1, <2>2, <2>3, <2>4, <2>5, <2>6
  <2> QED
    BY <2>1, <2>7 DEF q, a, G
<1> QED
  BY <1>1, CodecInvariant, OverheadInvariant, PTL

-----------------------------------------------------------------------------
(***************************************************************************)
(* Lossless: what the decoder passes on its way through a chunk body.      *)
(***************************************************************************)

\* Bit d of a flag byte.
BitOf(f, d) == (f \div 2 ^ d) % 2 = 1

\* A point of the decoder: it has read i cells of a body, is to use bit d of the
\* flag byte a and has put out n bytes.
Point(P, i, a, d, n) == << i, a, d, n >> \in P

\* At such a point of b it goes on to a point of P, and puts out what c has.
Goes(P, b, c, i, a, d, n) ==
  IF d = Group THEN Point(P, i + 1, i + 1, 0, n)
  ELSE IF ~BitOf(b[a], d)
    THEN n < Len(c) /\ c[n + 1] = b[i + 1] /\ Point(P, i + 1, a, d + 1, n + 1)
    ELSE LET token  == b[i + 1] + b[i + 2] * 2 ^ ByteBits
             offset == TokenOffset(n, token)
             length == TokenLength(n, token)
         IN  /\ i + 2 <= Len(b) /\ offset <= n /\ n + length <= Len(c)
             /\ \A k \in 1 .. length : c[n - offset + k] = c[n + k]
             /\ Point(P, i + 2, a, d + 1, n + length)

Within(b, c, i, a, d, n) ==
  /\ i <= Len(b) /\ a <= Len(b) /\ d <= Group /\ n <= Len(c)
  /\ d < Group => a # 0

\* P has the points that the decoder passes from the beginning of b on.
Passes(P, b, c) ==
  /\ Point(P, 0, 0, Group, 0)
  /\ \A i, a, d, n \in Nat : Point(P, i, a, d, n) =>
       /\ Within(b, c, i, a, d, n)
       /\ i < Len(b) => Goes(P, b, c, i, a, d, n)

\* Decoded to its end, b gives all of c.
Ends(P, b, c) == \A a, d, n \in Nat : Point(P, Len(b), a, d, n) => n = Len(c)

\* The next bit of the decoder, when t is that of the encoder.
NextBit(t) == IF t = 0 THEN Group ELSE t

\* A point of a body that is still written, f being its open flag byte and t its
\* next bit: the decoder comes to its end with m bytes; the open flag byte is
\* not read as a token, and of its bits only those that are set already are used.
Settled(b, f, t, m, i, a, d, n) ==
  /\ i = Len(b) => a = f /\ d = NextBit(t) /\ n = m
  /\ i < Len(b) /\ d < Group =>
       /\ i + 1 # f
       /\ BitOf(b[a], d) => i + 2 # f
       /\ a = f /\ t # 0 => d < t

Growing(P, b, f, t, m) ==
  /\ Point(P, Len(b), f, NextBit(t), m)
  /\ \A i, a, d, n \in Nat : Point(P, i, a, d, n) => Settled(b, f, t, m, i, a, d, n)

\* As far as the body is written, the decoder reads from it what it stands for.
Written(b, c, f, t, m) == \E P : Passes(P, b, c) /\ Growing(P, b, f, t, m)

BodyInv == pc = "encode" => Written(body, Chunk, flagIndex, bit, pos)

\* b2 is b with one more token, behind o cells and under bit t of the flag byte g.
Rewritten(b, b2, f, t, o, g) ==
  /\ t # 0 => f # 0 /\ o = Len(b) /\ g = f
  /\ t = 0 => o = Len(b) + 1 /\ g = Len(b) + 1
  /\ o < Len(b2)
  /\ \A i \in 1 .. Len(b) : i # g => b2[i] = b[i]
  /\ t # 0 => \A d \in 0 .. t - 1 : BitOf(b2[g], d) <=> BitOf(b[g], d)

-----------------------------------------------------------------------------
\* Setting bit t of a flag byte below 2 ^ t changes no bit below it.
LEMMA FlagSet ==
  ASSUME NEW t \in 0 .. Group - 1, NEW f \in Nat, f < 2 ^ t
  PROVE  /\ ~BitOf(f, t) /\ BitOf(f + 2 ^ t, t)
         /\ \A d \in 0 .. t - 1 : BitOf(f + 2 ^ t, d) <=> BitOf(f, d)
<1> DEFINE B == 2 ^ t
<1>1. B \in Nat \ {0} /\ t \in 0 .. TokenBits
  BY Geometry
<1>2. ~BitOf(f, t) /\ BitOf(f + B, t)
  <2> HIDE DEF B
  <2>1. f \in 0 .. B - 1
    BY <1>1 DEF B
  <2>2. (B * 0 + f) \div B = 0 /\ (B * 1 + f) \div B = 1
    BY <1>1, <2>1, Division
  <2>3. B * 0 + f = f /\ B * 1 + f = f + B
    BY <1>1
  <2> QED
    BY <2>2, <2>3 DEF BitOf, B
<1>3. \A d \in 0 .. t - 1 : BitOf(f + B, d) <=> BitOf(f, d)
  <2> SUFFICES ASSUME NEW d \in 0 .. t - 1
               PROVE  BitOf(f + B, d) <=> BitOf(f, d)
    OBVIOUS
  <2> DEFINE D == 2 ^ d
             e == t - d - 1
             E == 2 ^ e
             q == f \div D
             r == f % D
  <2>1. d \in 0 .. TokenBits /\ e \in 0 .. TokenBits /\ d + 1 \in 0 .. TokenBits
        /\ (d + 1) + e = t /\ t <= TokenBits /\ d + 1 <= TokenBits /\ 1 \in 0 .. TokenBits
    BY <1>1, Geometry
  <2> HIDE DEF e
  <2>2. D \in Nat \ {0} /\ E \in Nat \ {0}
    BY <2>1, PowersAssumption DEF PowersAssumption
  <2>3. 2 ^ (d + 1) = D * 2
    <3>1. 2 ^ (d + 1) = 2 ^ d * 2 ^ 1 /\ 2 ^ 1 = 2
      BY <2>1, PowersAssumption DEF PowersAssumption
    <3> QED
      BY <3>1
  <2>4. B = (D * 2) * E
    <3> DEFINE m == d + 1
    <3>1. m \in 0 .. TokenBits /\ m + e <= TokenBits /\ m + e = t
      BY <2>1
    <3> HIDE DEF m
    <3>2. 2 ^ (m + e) = 2 ^ m * 2 ^ e
      BY <2>1, <3>1, PowersAssumption DEF PowersAssumption
    <3>3. 2 ^ t = 2 ^ m * 2 ^ e
      BY <3>1, <3>2
    <3> QED
      BY <2>3, <3>3 DEF m
  <2> HIDE DEF D, E, B
  <2>5. q \in Nat /\ r \in 0 .. D - 1 /\ f = D * q + r
    BY <2>2
  <2> HIDE DEF q, r
  <2> DEFINE h == q + 2 * E
  <2>6. h \in Nat /\ f + B = D * h + r
    <3>1. D * h = D * q + (D * 2) * E /\ D * q \in Nat /\ (D * 2) * E \in Nat
      BY <2>2, <2>5
    <3> QED
      BY <2>2, <2>4, <2>5, <3>1
  <2>7. h % 2 = q % 2
    <3> DEFINE x == q \div 2
               y == q % 2
    <3>1. x \in Nat /\ y \in 0 .. 2 - 1 /\ q = 2 * x + y
      BY <2>5
    <3> HIDE DEF x, y
    <3>2. x + E \in Nat /\ h = 2 * (x + E) + y /\ 2 \in Nat \ {0}
      BY <2>2, <3>1
    <3>3. (2 * (x + E) + y) % 2 = y
      BY <3>1, <3>2, Division
    <3> QED
      BY <3>2, <3>3 DEF y
  <2> HIDE DEF h
  <2>8. (f + B) \div D = h /\ f \div D = q
    <3>1. (D * h + r) \div D = h /\ (D * q + r) \div D = q
      BY <2>2, <2>5, <2>6, Division
    <3> QED
      BY <2>5, <2>6, <3>1
  <2>9. (BitOf(f + B, d) <=> h % 2 = 1) /\ (BitOf(f, d) <=> q % 2 = 1)
    BY <2>8, Zenon DEF BitOf, D
  <2> QED
    BY <2>7, <2>9, Zenon
<1> QED
  BY <1>2, <1>3

\* A point goes on as before when there are more points to go on to.
LEMMA GoesMore ==
  ASSUME NEW P, NEW Q, \A i, a, d, k : Point(P, i, a, d, k) => Point(Q, i, a, d, k),
         NEW b, NEW c, NEW i, NEW a, NEW d, NEW n, Goes(P, b, c, i, a, d, n)
  PROVE  Goes(Q, b, c, i, a, d, n)
<1>1. CASE d = Group
  BY <1>1 DEF Goes
<1>2. CASE d # Group /\ ~BitOf(b[a], d)
  BY <1>2 DEF Goes
<1>3. CASE d # Group /\ BitOf(b[a], d)
  <2> DEFINE token  == b[i + 1] + b[i + 2] * 2 ^ ByteBits
             length == TokenLength(n, token)
  <2>1. Point(P, i + 2, a, d + 1, n + length)
    BY <1>3, Zenon DEF Goes
  <2>2. Point(Q, i + 2, a, d + 1, n + length)
    BY <2>1, Zenon
  <2> QED
    BY <1>3, <2>2, Zenon DEF Goes
<1> QED
  BY <1>1, <1>2, <1>3

\* A point goes on as before in a body whose cells it reads have not changed.
LEMMA GoesOn ==
  ASSUME NEW P, NEW b, NEW b2, NEW c, NEW i \in Nat, NEW a, NEW d, NEW n,
         Goes(P, b, c, i, a, d, n), Len(b) \in Nat, Len(b2) \in Nat, Len(b) <= Len(b2),
         d # Group => /\ b2[i + 1] = b[i + 1]
                      /\ BitOf(b2[a], d) <=> BitOf(b[a], d)
                      /\ BitOf(b[a], d) => b2[i + 2] = b[i + 2]
  PROVE  Goes(P, b2, c, i, a, d, n)
<1>1. CASE d = Group
  BY <1>1, Zenon DEF Goes
<1>2. CASE d # Group /\ ~BitOf(b[a], d)
  <2>1. n < Len(c) /\ c[n + 1] = b[i + 1] /\ Point(P, i + 1, a, d + 1, n + 1)
    BY <1>2, Zenon DEF Goes
  <2>2. b2[i + 1] = b[i + 1] /\ ~BitOf(b2[a], d)
    BY <1>2, Zenon
  <2> QED
    BY <1>2, <2>1, <2>2, Zenon DEF Goes
<1>3. CASE d # Group /\ BitOf(b[a], d)
  <2> DEFINE token(s) == s[i + 1] + s[i + 2] * 2 ^ ByteBits
             offset == TokenOffset(n, token(b))
             length == TokenLength(n, token(b))
  <2>1. /\ i + 2 <= Len(b) /\ offset <= n /\ n + length <= Len(c)
        /\ \A k \in 1 .. length : c[n - offset + k] = c[n + k]
        /\ Point(P, i + 2, a, d + 1, n + length)
    BY <1>3, Zenon DEF Goes
  <2>2. b2[i + 1] = b[i + 1] /\ b2[i + 2] = b[i + 2] /\ BitOf(b2[a], d)
    BY <1>3, Zenon
  <2>3. token(b2) = token(b)
    BY <2>2, Zenon
  <2>4. i + 2 <= Len(b2)
    BY <2>1
  <2> QED
    BY <1>3, <2>1, <2>2, <2>3, <2>4, Zenon DEF Goes
<1> QED
  BY <1>1, <1>2, <1>3

\* The cells that a point before the end of the old body reads have not changed.
LEMMA OldCells ==
  ASSUME NEW b \in Seq(Nat), NEW b2 \in Seq(Nat), NEW c, NEW P,
         NEW f \in 0 .. Len(b), NEW t \in 0 .. Group - 1, NEW o, NEW g, NEW m,
         Rewritten(b, b2, f, t, o, g),
         NEW i \in Nat, NEW a \in Nat, NEW d \in Nat, NEW n \in Nat,
         i < Len(b), d < Group,
         Within(b, c, i, a, d, n), Goes(P, b, c, i, a, d, n), Settled(b, f, t, m, i, a, d, n)
  PROVE  /\ b2[i + 1] = b[i + 1]
         /\ BitOf(b2[a], d) <=> BitOf(b[a], d)
         /\ BitOf(b[a], d) => b2[i + 2] = b[i + 2]
         /\ i + 1 # g /\ (BitOf(b[a], d) => i + 2 # g) /\ (a = g => t # 0 /\ d < t)
<1>1. Len(b) \in Nat /\ Group \in Nat /\ t \in Nat
  BY LenProperties, Geometry
<1>2. a \in 1 .. Len(b) /\ i + 1 \in 1 .. Len(b) /\ d # Group
  BY <1>1 DEF Within
<1>3. i + 1 # f /\ (BitOf(b[a], d) => i + 2 # f) /\ (a = f /\ t # 0 => d < t)
  BY DEF Settled
<1>4. BitOf(b[a], d) => i + 2 \in 1 .. Len(b)
  <2>1. BitOf(b[a], d) => i + 2 <= Len(b)
    BY <1>2, Zenon DEF Goes
  <2> QED
    BY <1>1, <2>1
<1>5. IF t = 0 THEN g = Len(b) + 1 ELSE g = f
  BY DEF Rewritten
<1>6. i + 1 # g /\ (BitOf(b[a], d) => i + 2 # g) /\ (a = g => t # 0 /\ d < t)
  <2>1. CASE t = 0
    BY <1>1, <1>2, <1>4, <1>5, <2>1
  <2>2. CASE t # 0
    BY <1>3, <1>5, <2>2
  <2> QED
    BY <2>1, <2>2
<1>7. \A k \in 1 .. Len(b) : k # g => b2[k] = b[k]
  BY DEF Rewritten
<1>8. b2[i + 1] = b[i + 1] /\ (BitOf(b[a], d) => b2[i + 2] = b[i + 2]) /\ (a # g => b2[a] = b[a])
  BY <1>2, <1>4, <1>6, <1>7
<1>9. BitOf(b2[a], d) <=> BitOf(b[a], d)
  <2>1. CASE a = g
    <3>1. d \in 0 .. t - 1 /\ t # 0
      BY <1>1, <1>6, <2>1
    <3> QED
      BY <2>1, <3>1 DEF Rewritten
  <2>2. CASE a # g
    BY <1>8, <2>2, Zenon
  <2> QED
    BY <2>1, <2>2
<1> QED
  BY <1>6, <1>8, <1>9

\* One more token: from the end of the old body the decoder passes the new flag
\* byte, if the token has one, and the token, and no point before is disturbed.
LEMMA TokenAdded ==
  ASSUME NEW b \in Seq(Nat), NEW b2 \in Seq(Nat), NEW c, Len(c) \in Nat, NEW P,
         NEW f \in 0 .. Len(b), NEW t \in 0 .. Group - 1, NEW n \in 0 .. Len(c), NEW m \in 0 .. Len(c),
         Passes(P, b, c), Growing(P, b, f, t, n), NEW o, NEW g,
         Rewritten(b, b2, f, t, o, g),
         Goes({<< Len(b2), g, t + 1, m >>}, b2, c, o, g, t, n)
  PROVE  \E Q : Passes(Q, b2, c) /\ Growing(Q, b2, g, (t + 1) % Group, m)
<1> DEFINE l == Len(b)
           l2 == Len(b2)
           Q == P \cup {<< o, g, t, n >>, << l2, g, t + 1, m >>}
           u == (t + 1) % Group
<1>1. /\ l \in Nat /\ l2 \in Nat /\ Group \in Nat \ {0}
      /\ t \in Nat /\ t < Group /\ n \in Nat /\ m \in Nat /\ n <= Len(c) /\ m <= Len(c)
  BY LenProperties, Geometry
<1>2. /\ t # 0 => f # 0 /\ o = l /\ g = f
      /\ t = 0 => o = l + 1 /\ g = l + 1
      /\ o < l2
  BY DEF Rewritten
<1>3. o \in Nat /\ g \in 1 .. o /\ g \in Nat /\ g <= l2 /\ l <= o /\ l < l2
  <2>1. f \in 0 .. l /\ l \in Nat /\ l2 \in Nat
    BY <1>1
  <2> HIDE DEF l, l2
  <2> QED
    BY ONLY <1>2, <2>1
<1>4. NextBit(u) = t + 1 /\ (u # 0 => u = t + 1)
  <2>1. CASE t + 1 = Group
    <3>1. (Group * 1 + 0) % Group = 0
      <4>1. 1 \in Nat /\ 0 \in 0 .. Group - 1
        BY <1>1
      <4> QED
        BY <1>1, <4>1, Division
    <3>2. Group * 1 + 0 = t + 1
      BY <1>1, <2>1
    <3>3. u = 0
      BY <3>1, <3>2
    <3> QED
      BY <2>1, <3>3 DEF NextBit
  <2>2. CASE t + 1 < Group
    <3>1. t + 1 \in 0 .. Group - 1
      BY <1>1, <2>2
    <3>2. u = t + 1
      BY <1>1, <3>1, ModOfSmall
    <3>3. u # 0
      BY <1>1, <3>2
    <3> QED
      BY <3>2, <3>3 DEF NextBit
  <2> QED
    BY <1>1, <2>1, <2>2
<1>5. /\ Point(Q, o, g, t, n) /\ Point(Q, l2, g, t + 1, m)
      /\ \A i, a, d, k : Point(P, i, a, d, k) => Point(Q, i, a, d, k)
      /\ \A i, a, d, k : Point(Q, i, a, d, k) =>
           \/ Point(P, i, a, d, k)
           \/ i = o /\ a = g /\ d = t /\ k = n
           \/ i = l2 /\ a = g /\ d = t + 1 /\ k = m
  <2>1. Point(Q, o, g, t, n) /\ Point(Q, l2, g, t + 1, m)
    BY DEF Point
  <2>2. \A i, a, d, k : Point(P, i, a, d, k) => Point(Q, i, a, d, k)
    BY DEF Point
  <2>3. ASSUME NEW i, NEW a, NEW d, NEW k, Point(Q, i, a, d, k)
        PROVE  \/ Point(P, i, a, d, k)
               \/ i = o /\ a = g /\ d = t /\ k = n
               \/ i = l2 /\ a = g /\ d = t + 1 /\ k = m
    BY <2>3 DEF Point
  <2> QED
    BY <2>1, <2>2, <2>3
<1>6. Goes(Q, b2, c, o, g, t, n)
  <2>1. \A i, a, d, k : Point({<< l2, g, t + 1, m >>}, i, a, d, k) => Point(Q, i, a, d, k)
    BY DEF Point
  <2> QED
    BY <2>1, GoesMore, Zenon
<1> HIDE DEF u, Q
\* An old point goes on.
<1>7. ASSUME NEW i \in Nat, NEW a \in Nat, NEW d \in Nat, NEW k \in Nat, Point(P, i, a, d, k)
      PROVE  /\ Within(b, c, i, a, d, k) /\ Settled(b, f, t, n, i, a, d, k) /\ i < l2 /\ i <= l
             /\ Goes(Q, b2, c, i, a, d, k)
             /\ i < l /\ d < Group => /\ BitOf(b2[a], d) <=> BitOf(b[a], d)
                                      /\ i + 1 # g /\ (BitOf(b[a], d) => i + 2 # g)
                                      /\ a = g => t # 0 /\ d < t
  <2>1. Within(b, c, i, a, d, k) /\ (i < l => Goes(P, b, c, i, a, d, k))
    BY <1>7, Zenon DEF Passes
  <2>2. Settled(b, f, t, n, i, a, d, k)
    BY <1>7, Zenon DEF Growing
  <2>3. i <= l /\ d <= Group /\ i < l2
    BY <1>1, <1>3, <2>1 DEF Within
  <2>4. i < l /\ d < Group =>
          /\ b2[i + 1] = b[i + 1]
          /\ BitOf(b2[a], d) <=> BitOf(b[a], d)
          /\ BitOf(b[a], d) => b2[i + 2] = b[i + 2]
          /\ i + 1 # g /\ (BitOf(b[a], d) => i + 2 # g) /\ (a = g => t # 0 /\ d < t)
    BY <2>1, <2>2, OldCells
  <2>5. CASE i < l
    <3>1. Goes(Q, b, c, i, a, d, k)
      BY <1>5, <2>1, <2>5, GoesMore, Zenon
    <3>2. d # Group => d < Group
      BY <1>1, <2>3
    <3>3. l <= l2
      BY <1>1, <1>3
    <3>4. Goes(Q, b2, c, i, a, d, k)
      BY <1>1, <2>4, <2>5, <3>1, <3>2, <3>3, GoesOn, Zenon
    <3> QED
      BY <2>1, <2>2, <2>3, <2>4, <3>4, Zenon
  <2>6. CASE i = l
    <3>1. a = f /\ d = NextBit(t) /\ k = n
      BY <2>2, <2>6 DEF Settled
    <3>2. ASSUME t = 0 PROVE Goes(Q, b2, c, i, a, d, k)
      <4>1. d = Group
        BY <3>1, <3>2 DEF NextBit
      <4>2. o = i + 1 /\ g = i + 1 /\ t = 0 /\ n = k
        BY <1>2, <2>6, <3>1, <3>2
      <4>3. Point(Q, i + 1, i + 1, 0, k)
        BY <1>5, <4>2
      <4> QED
        BY <4>1, <4>3, Zenon DEF Goes
    <3>3. ASSUME t # 0 PROVE Goes(Q, b2, c, i, a, d, k)
      <4>1. i = o /\ a = g /\ d = t /\ k = n
        BY <1>2, <2>6, <3>1, <3>3 DEF NextBit
      <4> QED
        BY <1>6, <4>1, Zenon
    <3>4. ~(i < l)
      BY <1>1, <2>6
    <3> QED
      BY <2>1, <2>2, <2>3, <3>2, <3>3, <3>4, Zenon
  <2> QED
    BY <1>1, <2>3, <2>5, <2>6
<1>8. Passes(Q, b2, c)
  <2>1. Point(Q, 0, 0, Group, 0)
    BY <1>5, Zenon DEF Passes
  <2>2. ASSUME NEW i \in Nat, NEW a \in Nat, NEW d \in Nat, NEW k \in Nat, Point(Q, i, a, d, k)
        PROVE  Within(b2, c, i, a, d, k) /\ (i < l2 => Goes(Q, b2, c, i, a, d, k))
    <3>1. CASE Point(P, i, a, d, k)
      <4>1. Within(b, c, i, a, d, k) /\ i < l2 /\ Goes(Q, b2, c, i, a, d, k)
        BY <1>7, <3>1
      <4>2. i <= l /\ a <= l /\ d <= Group /\ k <= Len(c) /\ (d < Group => a # 0)
        BY <4>1, Zenon DEF Within
      <4>3. i <= l2 /\ a <= l2
        <5>1. i \in Nat /\ a \in Nat /\ l \in Nat /\ l2 \in Nat /\ l < l2 /\ i <= l /\ a <= l
          BY <1>1, <1>3, <4>2
        <5> HIDE DEF l, l2
        <5> QED
          BY ONLY <5>1
      <4>4. Within(b2, c, i, a, d, k)
        BY <4>2, <4>3, Zenon DEF Within
      <4> QED
        BY <4>1, <4>4
    <3>2. CASE i = o /\ a = g /\ d = t /\ k = n
      <4>1. Within(b2, c, i, a, d, k)
        BY <1>1, <1>2, <1>3, <3>2 DEF Within
      <4> QED
        BY <1>6, <3>2, <4>1, Zenon
    <3>3. CASE i = l2 /\ a = g /\ d = t + 1 /\ k = m
      <4>1. Within(b2, c, i, a, d, k) /\ ~(i < l2)
        BY <1>1, <1>2, <1>3, <3>3 DEF Within
      <4> QED
        BY <4>1
    <3>4. \/ Point(P, i, a, d, k)
          \/ i = o /\ a = g /\ d = t /\ k = n
          \/ i = l2 /\ a = g /\ d = t + 1 /\ k = m
      BY <1>5, <2>2
    <3> QED
      BY <3>1, <3>2, <3>3, <3>4, Zenon
  <2> QED
    BY <2>1, <2>2, Zenon DEF Passes
<1>9. Growing(Q, b2, g, u, m)
  <2>1. ASSUME NEW i \in Nat, NEW a \in Nat, NEW d \in Nat, NEW k \in Nat, Point(Q, i, a, d, k)
        PROVE  Settled(b2, g, u, m, i, a, d, k)
    <3>1. CASE Point(P, i, a, d, k) /\ i < l
      <4>1. d < Group => /\ BitOf(b2[a], d) <=> BitOf(b[a], d)
                         /\ i + 1 # g /\ (BitOf(b[a], d) => i + 2 # g)
                         /\ a = g => t # 0 /\ d < t
        BY <1>7, <2>1, <3>1, Zenon
      <4>2. d < t /\ u # 0 => d < u
        BY <1>1, <1>4
      <4>3. i # l2
        BY <1>1, <1>3, <3>1
      <4> QED
        BY <4>1, <4>2, <4>3, Zenon DEF Settled
    <3>2. CASE Point(P, i, a, d, k) /\ i = l
      <4>1. a = f /\ d = NextBit(t) /\ i # l2
        BY <1>1, <1>7, <3>2 DEF Settled
      <4>2. CASE t = 0
        <5>1. ~(d < Group)
          BY <1>1, <4>1, <4>2 DEF NextBit
        <5> QED
          BY <4>1, <5>1, Zenon DEF Settled
      <4>3. CASE t # 0
        <5>1. i = o /\ a = g /\ d = t
          BY <1>2, <3>2, <4>1, <4>3 DEF NextBit
        <5>2. i + 1 # g /\ i + 2 # g /\ (u # 0 => d < u)
          BY <1>1, <1>3, <1>4, <5>1
        <5> QED
          BY <4>1, <5>2, Zenon DEF Settled
      <4> QED
        BY <4>2, <4>3
    <3>3. CASE i = o /\ a = g /\ d = t /\ k = n
      <4>1. i + 1 # g /\ i + 2 # g /\ (u # 0 => d < u) /\ i # l2
        BY <1>1, <1>2, <1>3, <1>4, <3>3
      <4> QED
        BY <4>1, Zenon DEF Settled
    <3>4. CASE i = l2 /\ a = g /\ d = t + 1 /\ k = m
      <4>1. ~(i < l2) /\ d = NextBit(u)
        BY <1>1, <1>4, <3>4
      <4> QED
        BY <3>4, <4>1, Zenon DEF Settled
    <3>5. Point(P, i, a, d, k) => i < l \/ i = l
      <4>1. Point(P, i, a, d, k) => i <= l
        BY <1>7, <2>1, Zenon
      <4> QED
        BY <1>1, <4>1
    <3>6. \/ Point(P, i, a, d, k)
          \/ i = o /\ a = g /\ d = t /\ k = n
          \/ i = l2 /\ a = g /\ d = t + 1 /\ k = m
      BY <1>5, <2>1
    <3> QED
      BY <3>1, <3>2, <3>3, <3>4, <3>5, <3>6, Zenon
  <2>2. Point(Q, l2, g, NextBit(u), m)
    BY <1>4, <1>5, Zenon
  <2> QED
    BY <2>1, <2>2, Zenon DEF Growing
<1> QED
  BY <1>8, <1>9, Zenon DEF u

\* A match lies before the position, is no longer than a token can say, and has
\* the bytes from the position on.
LEMMA MatchIs ==
  ASSUME NEW chunk, Len(chunk) \in 0 .. ChunkMax, NEW p \in 0 .. Len(chunk) - 1,
         longestMatch(chunk, p).length >= MinMatch
  PROVE  LET match == longestMatch(chunk, p)
         IN  /\ match.offset \in 1 .. p /\ match.length \in MinMatch .. MaxLength(p)
             /\ p + match.length <= Len(chunk)
             /\ \A k \in 1 .. match.length : chunk[p - match.offset + k] = chunk[p + k]
<1> DEFINE room == Len(chunk) - p
           both == {MaxLength(p), room}
           Agree(c) == {l \in 0 .. Min(both) : \A k \in 1 .. l : chunk[c + k] = chunk[p + k]}
           Best == {0} \cup {MatchLength(chunk, p, c) : c \in 0 .. p - 1}
           best == Max(Best)
           Places == {c \in 0 .. p - 1 : MatchLength(chunk, p, c) = best}
           place == Max(Places)
<1>1. ChunkMax \in Nat /\ p \in 0 .. ChunkMax /\ room \in Nat /\ MaxLength(p) \in Nat
  <2>1. ChunkMax \in Nat /\ p \in 0 .. ChunkMax /\ room \in Nat
    BY Geometry
  <2> QED
    BY <2>1, Widths
<1>2. Min(both) \in Nat /\ Min(both) <= room /\ Min(both) <= MaxLength(p)
  <2>1. \E x \in both : \A y \in both : x <= y
    BY <1>1
  <2>2. Min(both) \in both /\ \A y \in both : Min(both) <= y
    BY <2>1 DEF Min
  <2> QED
    BY <1>1, <2>2
<1>3. \A c : MatchLength(chunk, p, c) = Max(Agree(c))
  BY DEF MatchLength
<1> HIDE DEF both
<1>4. \A c : MatchLength(chunk, p, c) \in Agree(c) /\ MatchLength(chunk, p, c) \in 0 .. room
  <2> SUFFICES ASSUME NEW c
               PROVE  MatchLength(chunk, p, c) \in Agree(c) /\ MatchLength(chunk, p, c) \in 0 .. room
    OBVIOUS
  <2>1. 0 \in Agree(c) /\ Agree(c) \in SUBSET (0 .. room)
    BY <1>1, <1>2
  <2> HIDE DEF Agree
  <2>2. Max(Agree(c)) \in Agree(c)
    BY <1>1, <2>1, MaxOf
  <2> QED
    BY <1>3, <2>1, <2>2
<1>5. best \in Best
  <2>1. Best \in SUBSET (0 .. room) /\ Best # {}
    BY <1>1, <1>4
  <2> QED
    BY <1>1, <2>1, MaxOf
<1>6. longestMatch(chunk, p) =
        IF best < MinMatch THEN [offset |-> 0, length |-> 0]
        ELSE [offset |-> p - place, length |-> best]
  BY DEF longestMatch
<1>7. best >= MinMatch
  <2>1. best \in Nat
    BY <1>1, <1>4, <1>5
  <2> HIDE DEF best, place
  <2> QED
    BY <1>6, <2>1 DEF MinMatch
<1>8. place \in Places
  <2>1. best # 0
    BY <1>7 DEF MinMatch
  <2>2. Places # {}
    BY <1>5, <2>1
  <2>3. Places \in SUBSET (0 .. p) /\ p \in Nat
    BY <1>1
  <2> HIDE DEF Places
  <2> QED
    BY <2>2, <2>3, MaxOf
<1>9. place \in 0 .. p - 1 /\ best = MatchLength(chunk, p, place)
  <2> HIDE DEF best, place
  <2> QED
    BY <1>8
<1> HIDE DEF best, place
<1>10. /\ best \in 0 .. Min(both) /\ \A k \in 1 .. best : chunk[place + k] = chunk[p + k]
  BY <1>4, <1>9
<1> HIDE DEF Agree, Places, Best
<1>11. longestMatch(chunk, p).offset = p - place /\ longestMatch(chunk, p).length = best
  <2>1. ~(best < MinMatch)
    BY <1>2, <1>7, <1>10 DEF MinMatch
  <2> QED
    BY <1>6, <2>1
<1>12. p - place \in 1 .. p /\ best \in MinMatch .. MaxLength(p) /\ p + best <= Len(chunk)
  BY <1>1, <1>2, <1>7, <1>9, <1>10 DEF MinMatch
<1>13. p - (p - place) = place
  BY <1>1, <1>9
<1> QED
  BY <1>10, <1>11, <1>12, <1>13, Zenon

\* The body with room for the next token is the body, or the body and a flag byte.
LEMMA OpenedFrom ==
  ASSUME CodecInv
  PROVE  /\ bit # 0 => flagIndex # 0 /\ Len(Opened) = Len(body) /\ OpenedAt = flagIndex
         /\ bit = 0 => Len(Opened) = Len(body) + 1 /\ OpenedAt = Len(body) + 1
         /\ \A i \in 1 .. Len(body) : Opened[i] = body[i]
<1>1. body \in Seq(Byte) /\ 0 \in Byte /\ Len(body) \in Nat
  BY Geometry, LenProperties DEF CodecInv, TypeOK, Byte
<1>2. CASE bit = 0
  <2>1. Opened = Append(body, 0) /\ OpenedAt = Len(body) + 1
    BY <1>2 DEF Opened, OpenedAt
  <2> QED
    BY <1>1, <1>2, <2>1, AppendProperties
<1>3. CASE bit # 0
  BY <1>1, <1>3 DEF CodecInv, FlagBits, Opened, OpenedAt
<1> QED
  BY <1>2, <1>3

\* A token behind the opened body, for which the decoder reads bytes of the
\* chunk, leaves the body one that the decoder reads as the chunk.
LEMMA TokenRead ==
  ASSUME CodecInv, BodyInv, pc = "encode", NEW b \in Seq(Nat), NEW m \in 0 .. Len(Chunk),
         pos <= Len(Chunk), Len(Opened) < Len(b),
         \A i \in 1 .. Len(Opened) : i # OpenedAt => b[i] = Opened[i],
         \A d \in 0 .. bit - 1 : BitOf(b[OpenedAt], d) <=> BitOf(Opened[OpenedAt], d),
         Goes({<< Len(b), OpenedAt, bit + 1, m >>}, b, Chunk, Len(Opened), OpenedAt, bit, pos),
         body' = b, pos' = m, flagIndex' = OpenedAt, bit' = (bit + 1) % Group,
         UNCHANGED << pc, data, base >>
  PROVE  BodyInv'
<1>1. PICK P : Passes(P, body, Chunk) /\ Growing(P, body, flagIndex, bit, pos)
  BY DEF BodyInv, Written
<1>2. /\ body \in Seq(Nat) /\ flagIndex \in 0 .. Len(body) /\ bit \in 0 .. Group - 1
      /\ pos \in Nat /\ Len(Chunk) \in Nat /\ Len(body) \in Nat /\ Group \in Nat \ {0}
  <2>1. body \in Seq(Byte) /\ Byte \subseteq Nat
    BY Geometry DEF CodecInv, TypeOK, Byte
  <2>2. body \in Seq(Nat)
    BY <2>1, SeqMonotonic
  <2> QED
    BY <2>2, ChunkIs, LenProperties, Geometry DEF CodecInv, TypeOK
<1>3. pos \in 0 .. Len(Chunk)
  BY <1>2
<1>4. Rewritten(body, b, flagIndex, bit, Len(Opened), OpenedAt)
  <2>1. /\ bit # 0 => flagIndex # 0 /\ Len(Opened) = Len(body) /\ OpenedAt = flagIndex
        /\ bit = 0 => Len(Opened) = Len(body) + 1 /\ OpenedAt = Len(body) + 1
    BY OpenedFrom
  <2>2. ASSUME NEW i \in 1 .. Len(body), i # OpenedAt
        PROVE  b[i] = body[i]
    <3>1. i \in 1 .. Len(Opened)
      BY <1>2, <2>1
    <3> QED
      BY <2>2, <3>1, OpenedFrom
  <2>3. bit # 0 => OpenedAt \in 1 .. Len(body)
    BY <1>2, <2>1
  <2>4. bit # 0 => Opened[OpenedAt] = body[OpenedAt]
    BY <2>3, OpenedFrom
  <2>5. bit # 0 => \A d \in 0 .. bit - 1 : BitOf(b[OpenedAt], d) <=> BitOf(body[OpenedAt], d)
    BY <2>4
  <2> QED
    BY <2>1, <2>2, <2>5 DEF Rewritten
<1>5. PICK Q : Passes(Q, b, Chunk) /\ Growing(Q, b, OpenedAt, (bit + 1) % Group, m)
  BY <1>1, <1>2, <1>3, <1>4, TokenAdded
<1>6. Chunk' = Chunk
  BY DEF Chunk
<1>7. Written(b, Chunk, OpenedAt, (bit + 1) % Group, m)
  BY <1>5, Zenon DEF Written
<1> QED
  BY <1>6, <1>7, Zenon DEF BodyInv

\* A literal of the encoder is a byte that the decoder puts out.
LEMMA LiteralRead ==
  ASSUME CodecInv, BodyInv, EncodeLiteral
  PROVE  BodyInv'
<1> DEFINE b == Append(Opened, Chunk[pos + 1])
           o == Len(Opened)
<1>1. /\ pc = "encode" /\ pos < Len(Chunk) /\ pos \in Nat
      /\ body' = b /\ flagIndex' = OpenedAt /\ bit' = (bit + 1) % Group /\ pos' = pos + 1
      /\ UNCHANGED << pc, data, base >>
  BY DEF EncodeLiteral, CodecInv, TypeOK
<1>2. Chunk \in Seq(Byte) /\ Len(Chunk) \in Nat /\ Byte \subseteq Nat
  BY <1>1, ChunkIs, Geometry DEF Byte
<1>3. Chunk[pos + 1] \in Byte
  BY <1>1, <1>2, ElementOfSeq
<1>4. /\ Opened \in Seq(Byte) /\ OpenedAt \in 1 .. o /\ o \in Nat
      /\ Opened[OpenedAt] \in Nat /\ Opened[OpenedAt] < 2 ^ bit
      /\ bit \in 0 .. Group - 1 /\ Group \in Nat
  BY OpenedIs, LenProperties, Geometry
<1>5. /\ b \in Seq(Byte) /\ Len(b) = o + 1 /\ b[o + 1] = Chunk[pos + 1]
      /\ \A i \in 1 .. o : b[i] = Opened[i]
  BY <1>3, <1>4, AppendProperties
<1> HIDE DEF b, o
<1>6. b \in Seq(Nat)
  BY <1>2, <1>5, SeqMonotonic
<1>7. b[OpenedAt] = Opened[OpenedAt]
  BY <1>4, <1>5
<1>8. ~BitOf(b[OpenedAt], bit)
  BY <1>4, <1>7, FlagSet
<1>9. Goes({<< Len(b), OpenedAt, bit + 1, pos + 1 >>}, b, Chunk, o, OpenedAt, bit, pos)
  <2>1. bit # Group
    BY <1>4
  <2>2. Point({<< Len(b), OpenedAt, bit + 1, pos + 1 >>}, o + 1, OpenedAt, bit + 1, pos + 1)
    BY <1>5 DEF Point
  <2> QED
    BY <1>1, <1>5, <1>8, <2>1, <2>2, Zenon DEF Goes
<1>10. pos + 1 \in 0 .. Len(Chunk) /\ pos <= Len(Chunk) /\ o < Len(b)
  BY <1>1, <1>2, <1>4, <1>5
<1> QED
  BY <1>1, <1>5, <1>6, <1>7, <1>9, <1>10, TokenRead DEF o

\* A copy token of the encoder is the match it was packed from, unpacked.
LEMMA CopyRead ==
  ASSUME CodecInv, BodyInv, EncodeCopy
  PROVE  BodyInv'
<1> DEFINE token == packCopyToken(pos, Match.offset, Match.length)
           b == body'
           o == Len(Opened)
           m == pos + Match.length
<1>1. /\ pc = "encode" /\ pos < Len(Chunk) /\ pos \in Nat /\ Match.length >= MinMatch
      /\ flagIndex' = OpenedAt /\ bit' = (bit + 1) % Group /\ pos' = m
      /\ UNCHANGED << pc, data, base >>
  BY DEF EncodeCopy, CodecInv, TypeOK
<1>2. Len(Chunk) \in 0 .. ChunkMax /\ Len(Chunk) \in Nat /\ ChunkMax \in Nat
  BY <1>1, ChunkIs, Geometry
<1>3. pos \in 0 .. Len(Chunk) - 1
  BY <1>1, <1>2
<1>4. /\ Match.offset \in 1 .. pos /\ Match.length \in MinMatch .. MaxLength(pos)
      /\ m <= Len(Chunk)
      /\ \A k \in 1 .. Match.length : Chunk[pos - Match.offset + k] = Chunk[pos + k]
  BY <1>1, <1>2, <1>3, MatchIs DEF Match
<1>5. pos \in 1 .. ChunkMax
  BY <1>2, <1>3, <1>4
<1>6. /\ TokenLength(pos, token) = Match.length /\ TokenOffset(pos, token) = Match.offset
      /\ (token % 2 ^ ByteBits) + (token \div 2 ^ ByteBits) * 2 ^ ByteBits = token
  BY <1>4, <1>5, TokenRoundTrip, Zenon
<1>7. /\ b \in Seq(Byte) /\ Len(b) = o + 2 /\ o \in Nat /\ OpenedAt \in 1 .. o
      /\ b[OpenedAt] = Opened[OpenedAt] + 2 ^ bit
      /\ \A i \in 1 .. o : i # OpenedAt => b[i] = Opened[i]
      /\ b[o + 1] = token % 2 ^ ByteBits /\ b[o + 2] = token \div 2 ^ ByteBits
  BY CopyWrites, Zenon
<1>8. b[o + 1] + b[o + 2] * 2 ^ ByteBits = token
  BY <1>6, <1>7, Zenon
<1>9. b \in Seq(Nat)
  <2>1. Byte \subseteq Nat
    BY Geometry DEF Byte
  <2> QED
    BY <1>7, <2>1, SeqMonotonic
<1>10. /\ Opened[OpenedAt] \in Nat /\ Opened[OpenedAt] < 2 ^ bit
       /\ bit \in 0 .. Group - 1 /\ Group \in Nat
  BY OpenedIs, Geometry
<1> HIDE DEF b, o, m, token
<1>11. /\ BitOf(b[OpenedAt], bit)
       /\ \A d \in 0 .. bit - 1 : BitOf(b[OpenedAt], d) <=> BitOf(Opened[OpenedAt], d)
  <2>1. /\ BitOf(Opened[OpenedAt] + 2 ^ bit, bit)
        /\ \A d \in 0 .. bit - 1 :
             BitOf(Opened[OpenedAt] + 2 ^ bit, d) <=> BitOf(Opened[OpenedAt], d)
    BY <1>10, FlagSet
  <2> QED
    BY <1>7, <2>1
<1>12. Goes({<< Len(b), OpenedAt, bit + 1, m >>}, b, Chunk, o, OpenedAt, bit, pos)
  <2>1. bit # Group
    BY <1>10
  <2>2. Point({<< Len(b), OpenedAt, bit + 1, m >>}, o + 2, OpenedAt, bit + 1, pos + Match.length)
    BY <1>7 DEF Point, m
  <2>3. o + 2 <= Len(b) /\ Match.offset <= pos /\ pos + Match.length <= Len(Chunk)
    BY <1>4, <1>5, <1>7 DEF m
  <2> QED
    BY <1>4, <1>6, <1>8, <1>11, <2>1, <2>2, <2>3, Zenon DEF Goes
<1>13. m \in 0 .. Len(Chunk) /\ pos <= Len(Chunk) /\ o < Len(b)
  <2>1. Match.length \in Nat /\ m = pos + Match.length
    BY <1>4 DEF m, MinMatch
  <2>2. m \in 0 .. Len(Chunk) /\ pos <= Len(Chunk)
    BY <1>1, <1>2, <1>4, <2>1
  <2>3. o < Len(b)
    BY <1>7
  <2> QED
    BY <2>2, <2>3
<1> QED
  BY <1>1, <1>7, <1>9, <1>11, <1>12, <1>13, TokenRead DEF o, b

\* The length of the open chunk is a number.
LEMMA ChunkLength == CodecInv /\ pc = "encode" => Len(Chunk) \in Nat
  BY ChunkIs

\* The encoder at the beginning of a chunk has nothing that the decoder could
\* read wrongly.
LEMMA EmptyBody ==
  ASSUME NEW c, Len(c) \in Nat
  PROVE  Written(<< >>, c, 0, 0, 0)
<1> DEFINE P == {<< 0, 0, Group, 0 >>}
           b == << >>
<1>1. \A i, a, d, n : Point(P, i, a, d, n) <=> i = 0 /\ a = 0 /\ d = Group /\ n = 0
  BY DEF Point
<1>2. Len(b) = 0 /\ Group \in Nat /\ NextBit(0) = Group
  BY EmptySeq, Geometry DEF NextBit
<1> HIDE DEF P, b
<1>3. Point(P, 0, 0, Group, 0)
  BY <1>1
<1>4. ASSUME NEW i \in Nat, NEW a \in Nat, NEW d \in Nat, NEW n \in Nat, Point(P, i, a, d, n)
      PROVE  /\ Within(b, c, i, a, d, n) /\ ~(i < Len(b))
             /\ Settled(b, 0, 0, 0, i, a, d, n)
  <2>1. i = 0 /\ a = 0 /\ d = Group /\ n = 0
    BY <1>1, <1>4
  <2>2. Within(b, c, i, a, d, n) /\ ~(i < Len(b))
    BY <1>2, <2>1 DEF Within
  <2>3. Settled(b, 0, 0, 0, i, a, d, n)
    BY <1>2, <2>1, <2>2 DEF Settled
  <2> QED
    BY <2>2, <2>3
<1>5. Passes(P, b, c)
  BY <1>3, <1>4, Zenon DEF Passes
<1>6. Growing(P, b, 0, 0, 0)
  BY <1>2, <1>3, <1>4, Zenon DEF Growing
<1> QED
  BY <1>5, <1>6 DEF Written, b

\* Each step leaves the open body one that the decoder reads as the chunk.
LEMMA BodyKeeps ==
  ASSUME CodecInv, CodecInv', BodyInv, [Next]_vars
  PROVE  BodyInv'
<1>1. CASE EncodeLiteral
  BY <1>1, LiteralRead
<1>2. CASE EncodeCopy
  BY <1>2, CopyRead
<1>3. CASE EmitCompressed \/ EmitRaw
  <2>1. pos' = 0 /\ body' = << >> /\ flagIndex' = 0 /\ bit' = 0 /\ pc' = "encode"
    BY <1>3 DEF EmitCompressed, EmitRaw, NextChunk, ChunkEncoded
  <2>2. (CodecInv /\ pc = "encode" => Len(Chunk) \in Nat)'
    BY ChunkLength, PTL
  <2>3. Len(Chunk') \in Nat
    BY <2>1, <2>2
  <2>4. Written(<< >>, Chunk', 0, 0, 0)
    BY <2>3, EmptyBody
  <2> QED
    BY <2>1, <2>4, Zenon DEF BodyInv
<1>4. CASE Incompressible \/ EncodeDone \/ Decode
  <2>1. pc' # "encode"
    BY <1>4 DEF Incompressible, EncodeDone, Decode, Accept, BadSignature, OpenChunk, CopyRaw,
                BadChunk, ReadFlag, DecodeLiteral, DecodeCopy, BadToken, DecodeDone, Corrupt,
                AtHeader, AtToken
  <2> QED
    BY <2>1 DEF BodyInv
<1>5. CASE UNCHANGED vars
  <2>1. UNCHANGED << pc, data, base, pos, body, flagIndex, bit >>
    BY <1>5 DEF vars, encoder
  <2>2. Chunk' = Chunk
    BY <2>1 DEF Chunk
  <2> QED
    BY <2>1, <2>2, Zenon DEF BodyInv
<1> QED
  BY <1>1, <1>2, <1>3, <1>4, <1>5 DEF Next, Encode

-----------------------------------------------------------------------------
(***************************************************************************)
(* What Compress returns, Decompress gives back.                           *)
(***************************************************************************)

\* t lies in s, behind the first at elements.
IsPart(t, s, at) == at + Len(t) <= Len(s) /\ \A i \in 1 .. Len(t) : t[i] = s[at + i]

\* A chunk, or the end of the container, behind i cells, where n bytes are decoded.
Begins(Q, i, n) == << i, n >> \in Q

\* The body b of a chunk behind first cells of s decodes to c, the bytes of x
\* behind the first n.
Body(s, x, first, n, b, c, P) ==
  /\ IsPart(b, s, first) /\ IsPart(c, x, n) /\ Len(c) <= ChunkMax
  /\ Passes(P, b, c) /\ Ends(P, b, c)

Compressed(Q, s, x, i, n, b, c, P) ==
  /\ Len(b) = s[i + 1] + 1
  /\ Body(s, x, i + 2, n, b, c, P)
  /\ Begins(Q, i + 2 + Len(b), n + Len(c))

Raw(Q, s, x, i, n) ==
  /\ i + 2 + ChunkMax <= Len(s) /\ n + ChunkMax <= Len(x)
  /\ \A k \in 1 .. ChunkMax : s[i + 2 + k] = x[n + k]
  /\ Begins(Q, i + 2 + ChunkMax, n + ChunkMax)

\* Behind i cells of s is a chunk of the bytes of x behind the first n; Q has
\* the point behind it.
ChunkAt(Q, s, x, i, n) ==
  /\ i + 2 <= Len(s) /\ i + s[i + 1] + 3 <= Len(s)
  /\ IF s[i + 2] = 1
     THEN \E b, c \in Seq(Nat) : \E P : Compressed(Q, s, x, i, n, b, c, P)
     ELSE Raw(Q, s, x, i, n)

\* Q has the points between the chunks of s, which stand for the first e bytes of x.
Chunks(Q, s, x, e) ==
  /\ Begins(Q, 1, 0)
  /\ \A i, n \in Nat : Begins(Q, i, n) =>
       /\ 1 <= i /\ i <= Len(s)
       /\ i = Len(s) => n = e
       /\ i < Len(s) => ChunkAt(Q, s, x, i, n)

Encoded == IF base < Len(data) THEN base ELSE Len(data)

\* The decoder between two chunks.
Between(Q) ==
  /\ ip = end
  /\ Begins(Q, ip, Len(out) + Len(chunkOut))
  /\ IsPart(out, data, 0) /\ IsPart(chunkOut, data, Len(out))

\* The decoder in the body b of a chunk that stands for c.
Reading(Q, b, c, P, first, a) ==
  /\ Body(container, data, first, Len(out), b, c, P)
  /\ end = first + Len(b) /\ first <= ip
  /\ IsPart(out, data, 0) /\ IsPart(chunkOut, c, 0)
  /\ Begins(Q, end, Len(out) + Len(c))
  /\ Point(P, ip - first, a, dbit, Len(chunkOut))
  /\ dbit < Group => flag = b[a]

Inside(Q) ==
  \E b, c \in Seq(Nat) : \E first, a \in Nat : \E P : Reading(Q, b, c, P, first, a)

Decoding(Q) == Chunks(Q, container, data, Encoded) /\ (pc = "decode" => Between(Q) \/ Inside(Q))

LosslessInv ==
  data # NoData =>
    /\ pc \in {"encode", "incompressible", "signature"} => out = << >> /\ chunkOut = << >>
    /\ pc \in {"signature", "decode"} => base >= Len(data)
    /\ pc = "done" => out = data /\ chunkOut = << >>
    /\ pc # "corrupt"
    /\ container[1] = Signature
    /\ \E Q : Decoding(Q)

\* The elements of two sequences joined.
LEMMA Joined ==
  ASSUME NEW s \in Seq(Nat), NEW t \in Seq(Nat)
  PROVE  /\ s \o t \in Seq(Nat) /\ Len(s \o t) = Len(s) + Len(t)
         /\ Len(s) \in Nat /\ Len(t) \in Nat
         /\ \A k \in 1 .. Len(s) : (s \o t)[k] = s[k]
         /\ \A k \in 1 .. Len(t) : (s \o t)[Len(s) + k] = t[k]
<1> DEFINE l == Len(s)
           m == Len(t)
           u == s \o t
<1>1. l \in Nat /\ m \in Nat
  BY LenProperties
<1>2. /\ u \in Seq(Nat) /\ Len(u) = l + m
      /\ \A i \in 1 .. l + m : u[i] = IF i <= l THEN s[i] ELSE t[i - l]
  BY ConcatProperties
<1> HIDE DEF l, m, u
<1>3. \A k \in 1 .. l : u[k] = s[k]
  BY <1>1, <1>2
<1>4. ASSUME NEW k \in 1 .. m
      PROVE  u[l + k] = t[k]
  <2> DEFINE j == l + k
  <2>1. j \in 1 .. l + m /\ ~(j <= l) /\ j - l = k
    BY <1>1
  <2> HIDE DEF j
  <2>2. u[j] = t[j - l]
    BY <1>2, <2>1
  <2> QED
    BY <2>1, <2>2, Zenon DEF j
<1> QED
  BY <1>1, <1>2, <1>3, <1>4 DEF l, m, u

\* A part of s is a part of what begins with s, and of what s is a part of.
LEMMA PartStays ==
  ASSUME NEW s, NEW s2, NEW t, NEW at \in Nat, Len(t) \in Nat, Len(s) \in Nat, Len(s2) \in Nat,
         Len(s) <= Len(s2), \A k \in 1 .. Len(s) : s2[k] = s[k], IsPart(t, s, at)
  PROVE  IsPart(t, s2, at)
<1>1. at + Len(t) <= Len(s) /\ \A i \in 1 .. Len(t) : t[i] = s[at + i]
  BY DEF IsPart
<1>2. at + Len(t) <= Len(s2)
  BY <1>1
<1>3. ASSUME NEW i \in 1 .. Len(t)
      PROVE  t[i] = s2[at + i]
  <2>1. at + i \in 1 .. Len(s)
    BY <1>1
  <2> QED
    BY <1>1, <2>1
<1> QED
  BY <1>2, <1>3 DEF IsPart

\* A part of a part.
LEMMA PartOfPart ==
  ASSUME NEW s, NEW t, NEW u, NEW at \in Nat, Len(s) \in Nat, Len(t) \in Nat, Len(u) \in Nat,
         IsPart(t, s, at), IsPart(u, t, 0)
  PROVE  IsPart(u, s, at)
<1>1. at + Len(t) <= Len(s) /\ \A i \in 1 .. Len(t) : t[i] = s[at + i]
  BY DEF IsPart
<1>2. Len(u) <= Len(t) /\ \A i \in 1 .. Len(u) : u[i] = t[i]
  <2>1. 0 + Len(u) <= Len(t) /\ \A i \in 1 .. Len(u) : u[i] = t[0 + i]
    BY DEF IsPart
  <2>2. \A i \in 1 .. Len(u) : 0 + i = i
    OBVIOUS
  <2> QED
    BY <2>1, <2>2
<1>3. at + Len(u) <= Len(s)
  BY <1>1, <1>2
<1>4. ASSUME NEW i \in 1 .. Len(u)
      PROVE  u[i] = s[at + i]
  <2>1. i \in 1 .. Len(t)
    BY <1>2
  <2> QED
    BY <1>1, <1>2, <2>1
<1> QED
  BY <1>3, <1>4 DEF IsPart

\* Two parts that lie side by side.
LEMMA PartsJoined ==
  ASSUME NEW x, Len(x) \in Nat, NEW s \in Seq(Nat), NEW t \in Seq(Nat),
         NEW at \in Nat, IsPart(s, x, at), IsPart(t, x, at + Len(s))
  PROVE  IsPart(s \o t, x, at)
<1> DEFINE l == Len(s)
           m == Len(t)
           u == s \o t
<1>1. /\ l \in Nat /\ m \in Nat /\ Len(u) = l + m
      /\ \A k \in 1 .. l : u[k] = s[k]
      /\ \A k \in 1 .. m : u[l + k] = t[k]
  BY Joined
<1>2. /\ \A i \in 1 .. l : s[i] = x[at + i]
      /\ at + l + m <= Len(x) /\ \A i \in 1 .. m : t[i] = x[at + l + i]
  BY DEF IsPart
<1> HIDE DEF l, m, u
<1>3. ASSUME NEW i \in 1 .. l + m
      PROVE  u[i] = x[at + i]
  <2>1. CASE i \in 1 .. l
    BY <1>1, <1>2, <2>1
  <2>2. CASE i \notin 1 .. l
    <3> DEFINE k == i - l
    <3>1. k \in 1 .. m /\ l + k = i /\ at + l + k = at + i
      BY <1>1, <2>2
    <3> HIDE DEF k
    <3>2. u[l + k] = t[k] /\ t[k] = x[at + l + k]
      BY <1>1, <1>2, <3>1
    <3> QED
      BY <3>1, <3>2
  <2> QED
    BY <2>1, <2>2
<1>4. at + Len(u) <= Len(x)
  BY <1>1, <1>2
<1>5. \A i \in 1 .. Len(u) : u[i] = x[at + i]
  BY <1>1, <1>3
<1> QED
  BY <1>4, <1>5, Zenon DEF IsPart, u

\* The empty sequence is a part anywhere.
LEMMA NothingIsPart ==
  ASSUME NEW x, NEW at \in Nat, at <= Len(x), Len(x) \in Nat
  PROVE  IsPart(<< >>, x, at)
<1>1. Len(<< >>) = 0
  BY EmptySeq
<1> QED
  BY <1>1 DEF IsPart

\* A chunk is still one when the container goes on behind it.
LEMMA ChunkStays ==
  ASSUME NEW s \in Seq(Nat), NEW s2 \in Seq(Nat), NEW x, NEW Q, NEW R,
         Len(s) <= Len(s2), \A k \in 1 .. Len(s) : s2[k] = s[k],
         \A j, k : Begins(Q, j, k) => Begins(R, j, k),
         NEW i \in Nat, NEW n, ChunkAt(Q, s, x, i, n)
  PROVE  ChunkAt(R, s2, x, i, n)
<1>1. /\ Len(s) \in Nat /\ Len(s2) \in Nat /\ Len(s) <= Len(s2)
      /\ \A k \in 1 .. Len(s) : s2[k] = s[k]
  BY LenProperties
<1>2. i + 2 <= Len(s) /\ i + s[i + 1] + 3 <= Len(s)
  BY DEF ChunkAt
<1>3. i + 1 \in 1 .. Len(s) /\ i + 2 \in 1 .. Len(s)
  BY <1>1, <1>2
<1>4. s2[i + 1] = s[i + 1] /\ s2[i + 2] = s[i + 2] /\ s[i + 1] \in Nat
  BY <1>1, <1>3, ElementOfSeq
<1>5. i + 2 <= Len(s2) /\ i + s2[i + 1] + 3 <= Len(s2)
  <2> DEFINE size == s[i + 1]
  <2>1. size \in Nat /\ i + size + 3 <= Len(s) /\ s2[i + 1] = size
    BY <1>2, <1>4
  <2> HIDE DEF size
  <2>2. i + 2 <= Len(s2) /\ i + size + 3 <= Len(s2)
    <3>1. /\ Len(s) \in Nat /\ Len(s2) \in Nat /\ Len(s) <= Len(s2) /\ i \in Nat /\ size \in Nat
          /\ i + 2 <= Len(s) /\ i + size + 3 <= Len(s)
      BY <1>1, <1>2, <2>1
    <3> QED
      BY ONLY <3>1
  <2> QED
    BY <2>1, <2>2, Zenon
<1>6. CASE s[i + 2] = 1
  <2>1. PICK b \in Seq(Nat), c \in Seq(Nat) :
         \E P : Compressed(Q, s, x, i, n, b, c, P)
    BY <1>6, Zenon DEF ChunkAt
  <2>2. PICK P : Compressed(Q, s, x, i, n, b, c, P)
    BY <2>1
  <2>3. /\ Len(b) = s[i + 1] + 1 /\ Body(s, x, i + 2, n, b, c, P)
        /\ Begins(Q, i + 2 + Len(b), n + Len(c))
    BY <2>2, Zenon DEF Compressed
  <2>4. Body(s2, x, i + 2, n, b, c, P)
    <3>1. IsPart(b, s, i + 2) /\ i + 2 \in Nat /\ Len(b) \in Nat
      BY <2>3, LenProperties DEF Body
    <3>2. IsPart(b, s2, i + 2)
      BY <1>1, <3>1, PartStays
    <3> QED
      BY <2>3, <3>2, Zenon DEF Body
  <2>5. Begins(R, i + 2 + Len(b), n + Len(c))
    BY <2>3, Zenon
  <2>6. Compressed(R, s2, x, i, n, b, c, P)
    BY <1>4, <2>3, <2>4, <2>5, Zenon DEF Compressed
  <2>7. s2[i + 2] = 1
    BY <1>4, <1>6, Zenon
  <2> QED
    BY <1>5, <2>6, <2>7, Zenon DEF ChunkAt
<1>7. CASE s[i + 2] # 1
  <2>1. Raw(Q, s, x, i, n)
    BY <1>7, Zenon DEF ChunkAt
  <2>2. /\ i + 2 + ChunkMax <= Len(s) /\ n + ChunkMax <= Len(x)
        /\ \A k \in 1 .. ChunkMax : s[i + 2 + k] = x[n + k]
        /\ Begins(Q, i + 2 + ChunkMax, n + ChunkMax)
    BY <2>1, Zenon DEF Raw
  <2>3. i + 2 + ChunkMax <= Len(s2)
    BY <1>1, <2>2, Geometry
  <2>4. ASSUME NEW k \in 1 .. ChunkMax
        PROVE  s2[i + 2 + k] = x[n + k]
    <3>1. i + 2 + k \in 1 .. Len(s)
      BY <1>1, <2>2, Geometry
    <3> QED
      BY <1>1, <2>2, <3>1
  <2>5. Raw(R, s2, x, i, n)
    BY <2>2, <2>3, <2>4, Zenon DEF Raw
  <2>6. s2[i + 2] # 1
    BY <1>4, <1>7, Zenon
  <2> QED
    BY <1>5, <2>5, <2>6, Zenon DEF ChunkAt
<1> QED
  BY <1>6, <1>7

\* One more chunk behind the container.
LEMMA ChunkAdded ==
  ASSUME NEW s \in Seq(Nat), NEW cells \in Seq(Nat), NEW x, NEW Q, NEW e \in Nat, NEW e2 \in Nat,
         Chunks(Q, s, x, e), Len(cells) > 0,
         ChunkAt({<< Len(s \o cells), e2 >>}, s \o cells, x, Len(s), e)
  PROVE  \E R : Chunks(R, s \o cells, x, e2)
<1> DEFINE s2 == s \o cells
           l == Len(s)
           l2 == Len(s2)
           S == {<< l2, e2 >>}
           R == Q \cup S
<1>1. s2 \in Seq(Nat) /\ l \in Nat /\ l2 \in Nat /\ l < l2 /\ \A k \in 1 .. l : s2[k] = s[k]
  BY Joined
<1>2. /\ \A i, n : Begins(Q, i, n) => Begins(R, i, n)
      /\ \A i, n : Begins(S, i, n) => Begins(R, i, n)
      /\ \A i, n : Begins(R, i, n) => Begins(Q, i, n) \/ (i = l2 /\ n = e2)
  BY DEF Begins
<1>3. ChunkAt(S, s2, x, l, e)
  OBVIOUS
<1> HIDE DEF R, S, s2
<1>4. ChunkAt(R, s2, x, l, e)
  <2>1. l2 <= l2 /\ \A k \in 1 .. l2 : s2[k] = s2[k]
    BY <1>1
  <2> QED
    BY <1>1, <1>2, <1>3, <2>1, ChunkStays
<1>5. /\ Begins(Q, 1, 0)
      /\ \A i, n \in Nat : Begins(Q, i, n) =>
           /\ 1 <= i /\ i <= l
           /\ i = l => n = e
           /\ i < l => ChunkAt(Q, s, x, i, n)
  BY Zenon DEF Chunks
<1>6. ASSUME NEW i \in Nat, NEW n \in Nat, Begins(R, i, n)
      PROVE  /\ 1 <= i /\ i <= l2
             /\ i = l2 => n = e2
             /\ i < l2 => ChunkAt(R, s2, x, i, n)
  <2>1. CASE Begins(Q, i, n)
    <3>1. 1 <= i /\ i <= l /\ (i = l => n = e) /\ (i < l => ChunkAt(Q, s, x, i, n))
      BY <1>5, <1>6, <2>1
    <3>2. i < l2
      BY <1>1, <1>6, <3>1
    <3>3. CASE i < l
      <4>1. ChunkAt(Q, s, x, i, n) /\ l <= l2
        BY <1>1, <3>1, <3>3
      <4>2. ChunkAt(R, s2, x, i, n)
        BY <1>1, <1>2, <4>1, ChunkStays
      <4> QED
        BY <3>1, <3>2, <4>2, <1>1, <1>6
    <3>4. CASE i = l
      <4>1. ChunkAt(R, s2, x, i, n)
        BY <1>4, <3>1, <3>4, Zenon
      <4> QED
        BY <3>1, <3>2, <4>1, <1>1, <1>6
    <3> QED
      BY <1>1, <1>6, <3>1, <3>3, <3>4
  <2>2. CASE i = l2 /\ n = e2
    <3>1. 1 <= l
      BY <1>1, <1>5
    <3> QED
      BY <1>1, <2>2, <3>1
  <2> QED
    BY <1>2, <1>6, <2>1, <2>2
<1>7. Begins(R, 1, 0)
  BY <1>2, <1>5
<1> QED
  BY <1>6, <1>7, Zenon DEF Chunks, s2

\* A header and what follows it, behind the container.
LEMMA HeaderCells ==
  ASSUME NEW s \in Seq(Nat), NEW t \in Seq(Nat), NEW h \in Nat, NEW f \in Nat
  PROVE  LET cells == << h, f >> \o t
             s2    == s \o cells
         IN  /\ cells \in Seq(Nat) /\ s2 \in Seq(Nat)
             /\ Len(cells) = 2 + Len(t) /\ Len(s2) = Len(s) + 2 + Len(t)
             /\ Len(s) \in Nat /\ Len(t) \in Nat
             /\ s2[Len(s) + 1] = h /\ s2[Len(s) + 2] = f
             /\ \A k \in 1 .. Len(t) : s2[Len(s) + 2 + k] = t[k]
<1> DEFINE head == << h, f >>
           cells == head \o t
           s2 == s \o cells
           l == Len(s)
           m == Len(t)
<1>1. head \in Seq(Nat) /\ Len(head) = 2 /\ head[1] = h /\ head[2] = f
  OBVIOUS
<1> HIDE DEF head
<1>2. /\ cells \in Seq(Nat) /\ Len(cells) = 2 + m /\ m \in Nat
      /\ \A k \in 1 .. 2 : cells[k] = head[k]
      /\ \A k \in 1 .. m : cells[2 + k] = t[k]
  <2>1. /\ cells \in Seq(Nat) /\ Len(cells) = Len(head) + Len(t) /\ Len(t) \in Nat
        /\ \A k \in 1 .. Len(head) : cells[k] = head[k]
        /\ \A k \in 1 .. Len(t) : cells[Len(head) + k] = t[k]
    BY <1>1, Joined
  <2> HIDE DEF cells
  <2> QED
    BY <1>1, <2>1, Zenon
<1> HIDE DEF cells
<1>3. /\ s2 \in Seq(Nat) /\ Len(s2) = l + Len(cells) /\ l \in Nat
      /\ \A k \in 1 .. Len(cells) : s2[l + k] = cells[k]
  BY <1>2, Joined
<1> HIDE DEF s2, l, m
<1>4. Len(s2) = l + 2 + m /\ \A k \in 1 .. 2 + m : s2[l + k] = cells[k]
  BY <1>2, <1>3
<1>5. s2[l + 1] = h /\ s2[l + 2] = f
  <2>1. 1 \in 1 .. 2 + m /\ 2 \in 1 .. 2 + m /\ 1 \in 1 .. 2 /\ 2 \in 1 .. 2
    BY <1>2
  <2>2. s2[l + 1] = cells[1] /\ s2[l + 2] = cells[2] /\ cells[1] = head[1] /\ cells[2] = head[2]
    BY <1>2, <1>4, <2>1
  <2> QED
    BY <1>1, <2>2, Zenon
<1>6. ASSUME NEW k \in 1 .. m
      PROVE  s2[l + 2 + k] = t[k]
  <2> DEFINE j == 2 + k
  <2>1. j \in 1 .. 2 + m /\ l + 2 + k = l + j
    BY <1>2, <1>3
  <2>2. cells[j] = t[k]
    BY <1>2
  <2> HIDE DEF j
  <2>3. s2[l + j] = cells[j]
    BY <1>4, <2>1
  <2> QED
    BY <2>1, <2>2, <2>3, Zenon
<1> QED
  BY <1>2, <1>3, <1>4, <1>5, <1>6 DEF head, cells, s2, l, m

\* The open chunk begins at base and reaches to the next one or to the end.
LEMMA ChunkPart ==
  ASSUME CodecInv, pc = "encode", base < Len(data)
  PROVE  /\ data \in Seq(Nat) /\ Len(data) \in Nat /\ base \in Nat /\ ChunkMax \in Nat \ {0}
         /\ Chunk \in Seq(Nat) /\ Len(Chunk) \in 1 .. ChunkMax /\ IsPart(Chunk, data, base)
         /\ base + Len(Chunk) = IF base + ChunkMax < Len(data) THEN base + ChunkMax ELSE Len(data)
<1>1. data \in Seq(Byte) /\ base \in Nat /\ ChunkMax \in Nat \ {0} /\ Byte \subseteq Nat
  BY Geometry, InputsAssumption DEF InputsAssumption, CodecInv, Encoding, TypeOK, Byte
<1>2. Len(data) \in Nat /\ data \in Seq(Nat)
  BY <1>1, LenProperties, SeqMonotonic
<1> DEFINE first == base + 1
           last == IF base + ChunkMax < Len(data) THEN base + ChunkMax ELSE Len(data)
<1>3. /\ first \in Int /\ last \in Int /\ first <= last /\ 1 <= first /\ last <= Len(data)
      /\ last - first + 1 = last - base /\ last - base \in 1 .. ChunkMax
      /\ base + (last - base) = last
      /\ \A i \in 1 .. last - base : i \in 1 .. last - first + 1 /\ first + i - 1 = base + i
  BY <1>1, <1>2
<1>4. Chunk = SubSeq(data, first, last)
  BY DEF Chunk
<1>5. last = IF base + ChunkMax < Len(data) THEN base + ChunkMax ELSE Len(data)
  OBVIOUS
<1> HIDE DEF first, last
<1>6. \A k \in first .. last : data[k] \in Nat
  <2>1. \A k \in first .. last : k \in 1 .. Len(data)
    BY <1>2, <1>3
  <2> QED
    BY <1>2, <2>1, ElementOfSeq
<1>7. /\ Chunk \in Seq(Nat) /\ Len(Chunk) = last - first + 1
      /\ \A i \in 1 .. last - first + 1 : Chunk[i] = data[first + i - 1]
  BY <1>3, <1>4, <1>6, SubSeqProperties
<1>8. Len(Chunk) = last - base /\ Len(Chunk) \in 1 .. ChunkMax /\ base + Len(Chunk) = last
  BY <1>3, <1>7
<1>9. IsPart(Chunk, data, base)
  <2>1. base + Len(Chunk) <= Len(data)
    BY <1>3, <1>8
  <2>2. ASSUME NEW i \in 1 .. Len(Chunk)
        PROVE  Chunk[i] = data[base + i]
    <3>1. i \in 1 .. last - first + 1 /\ first + i - 1 = base + i
      BY <1>3, <1>8
    <3>2. Chunk[i] = data[first + i - 1]
      BY <1>7, <3>1
    <3> QED
      BY <3>1, <3>2, Zenon
  <2> QED
    BY <2>1, <2>2 DEF IsPart
<1> QED
  BY <1>1, <1>2, <1>5, <1>7, <1>8, <1>9

\* What Compress appends for a chunk is a chunk of the container.
LEMMA ChunkWritten ==
  ASSUME CodecInv, BodyInv, EmitCompressed \/ EmitRaw, NEW Q,
         Chunks(Q, container, data, Encoded)
  PROVE  \E R : Chunks(R, container', data', Encoded')
<1> DEFINE l == Len(container)
           n == base + Len(Chunk)
<1>1. pc = "encode" /\ base < Len(data) /\ pos = Len(Chunk) /\ data' = data /\ base' = base + ChunkMax
  BY DEF EmitCompressed, EmitRaw, ChunkEncoded, NextChunk
<1>2. /\ data \in Seq(Nat) /\ Len(data) \in Nat /\ base \in Nat /\ ChunkMax \in Nat \ {0}
      /\ Chunk \in Seq(Nat) /\ Len(Chunk) \in 1 .. ChunkMax /\ IsPart(Chunk, data, base)
      /\ n = IF base + ChunkMax < Len(data) THEN base + ChunkMax ELSE Len(data)
  BY <1>1, ChunkPart
<1>3. Encoded = base /\ Encoded' = n /\ n \in Nat
  BY <1>1, <1>2 DEF Encoded
<1>4. container \in Seq(Nat) /\ l \in Nat
  BY LenProperties DEF CodecInv, TypeOK
<1> HIDE DEF n, l
<1> DEFINE IsChunk(cells) ==
             LET s == container \o cells IN ChunkAt({<< Len(s), n >>}, s, data, l, base)
<1>5. ASSUME NEW cells \in Seq(Nat), Len(cells) > 0, container' = container \o cells, IsChunk(cells)
      PROVE  \E R : Chunks(R, container', data', Encoded')
  <2>1. Chunks(Q, container, data, base)
    BY <1>3
  <2>2. ChunkAt({<< Len(container \o cells), n >>}, container \o cells, data, Len(container), base)
    BY <1>5 DEF l
  <2>3. \E R : Chunks(R, container \o cells, data, n)
    BY <1>2, <1>3, <1>4, <1>5, <2>1, <2>2, ChunkAdded
  <2> QED
    BY <1>1, <1>3, <1>5, <2>3, Zenon
<1>6. CASE EmitCompressed
  <2> DEFINE h == Len(body) - 1
             cells == << h, 1 >> \o body
             s2 == container \o cells
  <2>1. /\ Len(body) < ChunkMax /\ container' = container \o (Header(Len(body) + 2, 1) \o body)
    BY <1>6 DEF EmitCompressed, Fits, NextChunk
  <2>2. body \in Seq(Nat) /\ Len(body) \in Nat
    <3>1. body \in Seq(Byte) /\ Byte \subseteq Nat
      BY Geometry DEF CodecInv, TypeOK, Byte
    <3> QED
      BY <3>1, SeqMonotonic, LenProperties
  <2>3. PICK P : Passes(P, body, Chunk) /\ Growing(P, body, flagIndex, bit, pos)
    BY <1>1 DEF BodyInv, Written
  <2>4. Ends(P, body, Chunk)
    <3> SUFFICES ASSUME NEW a \in Nat, NEW d \in Nat, NEW m \in Nat, Point(P, Len(body), a, d, m)
                 PROVE  m = Len(Chunk)
      BY DEF Ends
    <3>1. Settled(body, flagIndex, bit, pos, Len(body), a, d, m)
      BY <2>2, <2>3 DEF Growing
    <3> QED
      BY <1>1, <3>1 DEF Settled
  <2>5. Len(body) # 0
    <3> SUFFICES ASSUME Len(body) = 0
                 PROVE  FALSE
      OBVIOUS
    <3>1. Point(P, Len(body), 0, Group, 0)
      BY <2>3 DEF Passes
    <3>2. 0 = Len(Chunk)
      BY <2>4, <3>1, Geometry DEF Ends
    <3> QED
      BY <1>2, <3>2
  <2>6. h \in Nat /\ Header(Len(body) + 2, 1) = << h, 1 >>
    <3>1. h \in 0 .. ChunkMax - 1 /\ (Len(body) + 2) - 3 = h
      <4>1. ChunkMax \in Nat /\ Len(body) \in Nat /\ Len(body) # 0 /\ Len(body) < ChunkMax
        BY <1>2, <2>1, <2>2, <2>5
      <4> QED
        BY ONLY <4>1
    <3> HIDE DEF h
    <3>2. h % ChunkMax = h
      BY <1>2, <3>1, ModOfSmall
    <3> QED
      BY <3>1, <3>2 DEF Header
  <2>7. h + 1 = Len(body)
    BY <2>2
  <2> HIDE DEF h
  <2>8. /\ cells \in Seq(Nat) /\ s2 \in Seq(Nat)
        /\ Len(cells) = 2 + Len(body) /\ Len(s2) = l + 2 + Len(body)
        /\ s2[l + 1] = h /\ s2[l + 2] = 1
        /\ \A k \in 1 .. Len(body) : s2[l + 2 + k] = body[k]
    BY <1>4, <2>2, <2>6, HeaderCells, SMTT(30) DEF l
  <2> HIDE DEF s2
  <2>9. Body(s2, data, l + 2, base, body, Chunk, P)
    <3>1. IsPart(body, s2, l + 2)
      <4>1. (l + 2) + Len(body) <= Len(s2)
        BY <1>4, <2>2, <2>8
      <4> QED
        BY <2>8, <4>1 DEF IsPart
    <3>2. Len(Chunk) <= ChunkMax
      BY <1>2
    <3> QED
      BY <1>2, <2>3, <2>4, <3>1, <3>2, Zenon DEF Body
  <2>10. Begins({<< Len(s2), n >>}, l + 2 + Len(body), base + Len(Chunk))
    BY <2>8 DEF Begins, n
  <2>11. Compressed({<< Len(s2), n >>}, s2, data, l, base, body, Chunk, P)
    BY <2>7, <2>8, <2>9, <2>10, Zenon DEF Compressed
  <2>12. l + 2 <= Len(s2) /\ l + s2[l + 1] + 3 <= Len(s2)
    <3>1. l + 2 <= l + 2 + Len(body) /\ l + h + 3 <= l + 2 + Len(body)
      BY <1>4, <2>2, <2>6, <2>7
    <3> QED
      BY <2>8, <3>1, Zenon
  <2>13. ChunkAt({<< Len(s2), n >>}, s2, data, l, base)
    BY <1>2, <2>2, <2>8, <2>11, <2>12, Zenon DEF ChunkAt
  <2>14. IsChunk(cells)
    BY <2>13 DEF s2
  <2>15. Len(cells) > 0
    BY <2>2, <2>8
  <2>16. container' = container \o cells
    BY <2>1, <2>6
  <2> HIDE DEF IsChunk, cells
  <2> QED
    BY <1>5, <2>8, <2>14, <2>15, <2>16
<1>7. CASE EmitRaw
  <2> DEFINE h == ChunkMax - 1
             cells == << h, 0 >> \o Chunk
             s2 == container \o cells
  <2>1. Len(Chunk) = ChunkMax /\ container' = container \o (Header(ChunkMax + 2, 0) \o Chunk)
    BY <1>7 DEF EmitRaw, NextChunk
  <2>2. h \in Nat /\ Header(ChunkMax + 2, 0) = << h, 0 >>
    <3>1. h \in 0 .. ChunkMax - 1 /\ (ChunkMax + 2) - 3 = h
      BY <1>2
    <3> HIDE DEF h
    <3>2. h % ChunkMax = h
      BY <1>2, <3>1, ModOfSmall
    <3> QED
      BY <3>1, <3>2 DEF Header
  <2>3. h + 1 = ChunkMax
    BY <1>2
  <2> HIDE DEF h
  <2>4. /\ cells \in Seq(Nat) /\ s2 \in Seq(Nat)
        /\ Len(cells) = 2 + Len(Chunk) /\ Len(s2) = l + 2 + Len(Chunk)
        /\ s2[l + 1] = h /\ s2[l + 2] = 0
        /\ \A k \in 1 .. Len(Chunk) : s2[l + 2 + k] = Chunk[k]
    <3>1. Chunk \in Seq(Nat) /\ container \in Seq(Nat) /\ h \in Nat /\ 0 \in Nat
      BY <1>2, <1>4, <2>2
    <3> QED
      BY <3>1, HeaderCells DEF l
  <2> HIDE DEF s2
  <2>5. /\ base + Len(Chunk) <= Len(data)
        /\ \A k \in 1 .. Len(Chunk) : Chunk[k] = data[base + k]
    BY <1>2 DEF IsPart
  <2>6. /\ \A k \in 1 .. ChunkMax : s2[l + 2 + k] = data[base + k]
    BY <2>1, <2>4, <2>5
  <2>7. Begins({<< Len(s2), n >>}, l + 2 + ChunkMax, base + ChunkMax)
    BY <2>1, <2>4 DEF Begins, n
  <2>8. /\ l + 2 <= Len(s2) /\ l + s2[l + 1] + 3 <= Len(s2)
        /\ l + 2 + ChunkMax <= Len(s2) /\ base + ChunkMax <= Len(data)
    <3>1. l + 2 <= l + 2 + ChunkMax /\ l + h + 3 <= l + 2 + ChunkMax
          /\ l + 2 + ChunkMax <= l + 2 + ChunkMax
      BY <1>2, <1>4, <2>2, <2>3
    <3>2. Len(s2) = l + 2 + ChunkMax /\ base + ChunkMax <= Len(data)
      BY <2>1, <2>4, <2>5, Zenon
    <3> QED
      BY <2>4, <3>1, <3>2, Zenon
  <2>9. Raw({<< Len(s2), n >>}, s2, data, l, base)
    BY <2>6, <2>7, <2>8, Zenon DEF Raw
  <2>10. s2[l + 2] # 1
    BY <2>4
  <2>11. ChunkAt({<< Len(s2), n >>}, s2, data, l, base)
    BY <2>8, <2>9, <2>10, Zenon DEF ChunkAt
  <2>12. IsChunk(cells)
    BY <2>11 DEF s2
  <2>13. Len(cells) > 0
    BY <1>2, <2>4
  <2>14. container' = container \o cells
    BY <2>1, <2>2
  <2> HIDE DEF IsChunk, cells
  <2> QED
    BY <1>5, <2>4, <2>12, <2>13, <2>14
<1> QED
  BY <1>6, <1>7

\* The decoder in a chunk: the cells it reads are those of the body, and as long
\* as it is in it, it goes on.
LEMMA ReadingIs ==
  ASSUME CodecInv, NEW Q, NEW b \in Seq(Nat), NEW c \in Seq(Nat), NEW P,
         NEW first \in Nat, NEW a \in Nat, Reading(Q, b, c, P, first, a)
  PROVE  LET i == ip - first
         IN  /\ i \in Nat /\ i <= Len(b) /\ dbit \in Nat /\ dbit <= Group
             /\ Len(chunkOut) \in Nat /\ Len(chunkOut) <= Len(c) /\ Len(c) <= ChunkMax
             /\ Len(b) \in Nat /\ Len(c) \in Nat /\ ip = first + i /\ end = first + Len(b)
             /\ i < Len(b) => Goes(P, b, c, i, a, dbit, Len(chunkOut)) /\ Cell(ip) = b[i + 1]
             /\ i + 2 <= Len(b) => Cell(ip + 1) = b[i + 2]
<1> DEFINE i == ip - first
           n == Len(chunkOut)
<1>1. /\ Len(c) <= ChunkMax /\ Passes(P, b, c) /\ IsPart(b, container, first)
      /\ end = first + Len(b) /\ first <= ip /\ Point(P, i, a, dbit, n)
  BY DEF Reading, Body
<1>2. /\ ip \in Nat /\ dbit \in Nat /\ n \in Nat /\ Len(b) \in Nat /\ Len(c) \in Nat
  BY DecoderIs, LenProperties
<1>3. i \in Nat /\ ip = first + i
  BY <1>1, <1>2
<1> HIDE DEF i, n
<1>4. Within(b, c, i, a, dbit, n) /\ (i < Len(b) => Goes(P, b, c, i, a, dbit, n))
  BY <1>1, <1>2, <1>3, Zenon DEF Passes
<1>5. i <= Len(b) /\ dbit <= Group /\ n <= Len(c)
  BY <1>4, Zenon DEF Within
<1>6. \A k \in 1 .. Len(b) : b[k] = container[first + k]
  BY <1>1 DEF IsPart
<1>7. i < Len(b) => Cell(ip) = b[i + 1]
  <2> SUFFICES ASSUME i < Len(b)
               PROVE  container[ip + 1] = b[i + 1]
    BY DEF Cell
  <2>1. i + 1 \in 1 .. Len(b) /\ first + (i + 1) = ip + 1
    BY <1>2, <1>3
  <2>2. b[i + 1] = container[first + (i + 1)]
    BY <1>6, <2>1
  <2> QED
    BY <2>1, <2>2, Zenon
<1>8. i + 2 <= Len(b) => Cell(ip + 1) = b[i + 2]
  <2> SUFFICES ASSUME i + 2 <= Len(b)
               PROVE  container[ip + 1 + 1] = b[i + 2]
    BY DEF Cell
  <2>1. i + 2 \in 1 .. Len(b) /\ first + (i + 2) = ip + 1 + 1
    BY <1>2, <1>3
  <2>2. b[i + 2] = container[first + (i + 2)]
    BY <1>6, <2>1
  <2> QED
    BY <2>1, <2>2, Zenon
<1> QED
  BY <1>1, <1>2, <1>3, <1>4, <1>5, <1>7, <1>8 DEF i, n

\* What is compressed.
LEMMA DataIs ==
  ASSUME CodecInv, data # NoData
  PROVE  data \in Seq(Nat) /\ Len(data) \in Nat
<1>1. data \in Seq(Byte) /\ Byte \subseteq Nat
  BY InputsAssumption, Geometry DEF InputsAssumption, CodecInv, TypeOK, Byte
<1> QED
  BY <1>1, SeqMonotonic, LenProperties

\* At the end of a body all of its chunk is decoded.
LEMMA AtEnd ==
  ASSUME CodecInv, data # NoData, NEW Q, Between(Q) \/ Inside(Q), ip >= end
  PROVE  Between(Q)
<1>1. CASE Between(Q)
  BY <1>1
<1>2. CASE Inside(Q)
  <2>1. PICK b \in Seq(Nat), c \in Seq(Nat), first \in Nat, a \in Nat :
         \E P : Reading(Q, b, c, P, first, a)
    BY <1>2, Zenon DEF Inside
  <2>2. PICK P : Reading(Q, b, c, P, first, a)
    BY <2>1
  <2> DEFINE i == ip - first
  <2>3. /\ i \in Nat /\ i <= Len(b) /\ ip = first + i /\ end = first + Len(b)
        /\ Len(b) \in Nat /\ dbit \in Nat /\ Len(chunkOut) \in Nat /\ Len(c) \in Nat
    BY <2>2, ReadingIs
  <2>4. /\ Point(P, i, a, dbit, Len(chunkOut)) /\ Ends(P, b, c)
        /\ IsPart(out, data, 0) /\ IsPart(chunkOut, c, 0) /\ IsPart(c, data, Len(out))
        /\ Begins(Q, end, Len(out) + Len(c))
    BY <2>2 DEF Reading, Body
  <2> HIDE DEF i
  <2>5. i = Len(b) /\ ip = end
    BY <2>3
  <2>6. Len(chunkOut) = Len(c)
    BY <2>3, <2>4, <2>5 DEF Ends
  <2>7. IsPart(chunkOut, data, Len(out))
    BY <2>3, <2>4, DataIs, DecoderIs, LenProperties, PartOfPart
  <2> QED
    BY <2>4, <2>5, <2>6, <2>7 DEF Between
<1> QED
  BY <1>1, <1>2

\* A step of the decoder to another place between or inside of chunks.
LEMMA Continues ==
  ASSUME LosslessInv, data # NoData, pc \in {"signature", "decode"}, pc' = "decode",
         UNCHANGED << data, container, encoder >>, NEW Q,
         Chunks(Q, container, data, Encoded), Between(Q)' \/ Inside(Q)'
  PROVE  LosslessInv'
<1>1. base >= Len(data) /\ container[1] = Signature
  BY DEF LosslessInv
<1>2. data' = data /\ container' = container /\ base' = base /\ Encoded' = Encoded
  BY DEF encoder, Encoded
<1>3. Decoding(Q)'
  BY <1>2 DEF Decoding
<1> QED
  BY <1>1, <1>2, <1>3 DEF LosslessInv

\* A step of the decoder in a chunk.
LEMMA ReadsOn ==
  ASSUME NEW Q, NEW b \in Seq(Nat), NEW c \in Seq(Nat), NEW P,
         NEW first \in Nat, NEW a \in Nat, Reading(Q, b, c, P, first, a),
         UNCHANGED << data, container, end, out >>, NEW a2 \in Nat,
         first <= ip', IsPart(chunkOut', c, 0), Point(P, ip' - first, a2, dbit', Len(chunkOut')),
         dbit' < Group => flag' = b[a2]
  PROVE  Inside(Q)'
<1>1. /\ Body(container, data, first, Len(out), b, c, P)
      /\ end = first + Len(b) /\ IsPart(out, data, 0) /\ Begins(Q, end, Len(out) + Len(c))
  BY DEF Reading
<1>2. Reading(Q, b, c, P, first, a2)'
  BY <1>1 DEF Reading, Group
<1> QED
  BY <1>2 DEF Inside

\* The decoder starts at the first chunk, with nothing put out.
LEMMA AcceptReads ==
  ASSUME CodecInv, LosslessInv, data # NoData, Accept
  PROVE  LosslessInv'
<1>1. /\ pc = "signature" /\ pc' = "decode" /\ ip' = 1 /\ end' = 1
      /\ UNCHANGED << data, container, encoder, chunkOut, out >>
      /\ out = << >> /\ chunkOut = << >>
  BY DEF Accept, LosslessInv
<1>2. PICK Q : Chunks(Q, container, data, Encoded)
  BY DEF LosslessInv, Decoding
<1>3. Len(<< >>) = 0 /\ 0 + 0 = 0
  BY EmptySeq
<1>4. Begins(Q, 1, 0) /\ IsPart(<< >>, data, 0)
  <2>1. 0 <= Len(data) /\ Len(data) \in Nat
    BY DataIs
  <2> QED
    BY <1>2, <2>1, NothingIsPart DEF Chunks
<1>5. Between(Q)'
  BY <1>1, <1>3, <1>4 DEF Between
<1> QED
  BY <1>1, <1>2, <1>5, Continues

\* Compress wrote a signature.
LEMMA NoBadSignature ==
  ASSUME CodecInv, LosslessInv, data # NoData
  PROVE  Signed
<1>1. container[1] = Signature
  BY DEF LosslessInv
<1>2. PICK Q : Chunks(Q, container, data, Encoded)
  BY DEF LosslessInv, Decoding
<1>3. Len(container) >= 1
  BY <1>2 DEF Chunks
<1>4. container # << >>
  BY <1>3, EmptySeq
<1>5. 0 + 1 = 1
  OBVIOUS
<1> QED
  BY <1>1, <1>4, <1>5 DEF Signed, Cell

\* Where the decoder is to open a chunk, there is one.
LEMMA AtChunk ==
  ASSUME CodecInv, data # NoData, NEW Q, Chunks(Q, container, data, Encoded),
         Between(Q) \/ Inside(Q), AtHeader
  PROVE  Between(Q) /\ ChunkAt(Q, container, data, ip, Len(out) + Len(chunkOut))
<1>1. ip >= end /\ ip < Len(container) /\ ip \in Nat
  BY DecoderIs DEF AtHeader
<1>2. Between(Q)
  BY <1>1, AtEnd
<1>3. Len(out) + Len(chunkOut) \in Nat
  BY DecoderIs, LenProperties
<1>4. Begins(Q, ip, Len(out) + Len(chunkOut))
  BY <1>2 DEF Between
<1>5. ChunkAt(Q, container, data, ip, Len(out) + Len(chunkOut))
  BY <1>1, <1>3, <1>4 DEF Chunks
<1> QED
  BY <1>2, <1>5

\* The header of a compressed chunk leads the decoder into its body.
LEMMA OpenChunkReads ==
  ASSUME CodecInv, LosslessInv, data # NoData, OpenChunk
  PROVE  LosslessInv'
<1> DEFINE n == Len(out) + Len(chunkOut)
<1>1. /\ pc = "decode" /\ pc' = "decode" /\ ip' = ip + 2 /\ end' = ip + Size /\ dbit' = Group
      /\ out' = out \o chunkOut /\ chunkOut' = << >> /\ Cell(ip + 1) = 1
      /\ UNCHANGED << data, container, encoder >> /\ AtHeader
  BY DEF OpenChunk, AtHeader
<1>2. PICK Q : Chunks(Q, container, data, Encoded) /\ (Between(Q) \/ Inside(Q))
  BY <1>1 DEF LosslessInv, Decoding
<1>3. Between(Q) /\ ChunkAt(Q, container, data, ip, n)
  BY <1>1, <1>2, AtChunk
<1>4. IsPart(out \o chunkOut, data, 0) /\ Len(out \o chunkOut) = n
  <2>1. out \in Seq(Nat) /\ chunkOut \in Seq(Nat) /\ 0 + Len(out) = Len(out)
    BY DecoderIs, LenProperties
  <2>2. IsPart(out, data, 0) /\ IsPart(chunkOut, data, 0 + Len(out))
    BY <1>3, <2>1 DEF Between
  <2> QED
    BY <2>1, <2>2, DataIs, PartsJoined, Joined
<1>5. /\ ip \in Nat /\ container[ip + 2] = 1 /\ Size = container[ip + 1] + 3
      /\ Group \in Nat /\ ip + 2 \in Nat /\ n \in Nat
  <2>1. ip \in Nat /\ ip + 1 + 1 = ip + 2 /\ ip + 2 \in Nat
    BY DecoderIs
  <2> QED
    BY <1>1, <2>1, DecoderIs, LenProperties DEF Cell, Size
<1> HIDE DEF n
<1>6. PICK b \in Seq(Nat), c \in Seq(Nat) :
       \E P : Compressed(Q, container, data, ip, n, b, c, P)
  BY <1>3, <1>5, Zenon DEF ChunkAt
<1>7. PICK P : Compressed(Q, container, data, ip, n, b, c, P)
  BY <1>6
<1>8. /\ Len(b) = container[ip + 1] + 1 /\ Body(container, data, ip + 2, n, b, c, P)
      /\ Begins(Q, ip + 2 + Len(b), n + Len(c))
  BY <1>7, Zenon DEF Compressed
<1>9. Len(b) \in Nat /\ container[ip + 1] \in Nat
  <2>1. ip + 1 \in 1 .. Len(container)
    <3>1. ip < Len(container)
      BY <1>1 DEF AtHeader
    <3>2. ip \in 0 .. Len(container) /\ Len(container) \in Nat
      BY DecoderIs
    <3> QED
      BY ONLY <3>1, <3>2
  <2>2. container \in Seq(Nat)
    BY DecoderIs
  <2> QED
    BY <2>1, <2>2, ElementOfSeq, LenProperties
<1>10. PICK first \in Nat : first = ip + 2
  BY <1>5
<1>11. end' = first + Len(b) /\ ip' - first = 0 /\ first <= ip'
  <2>1. /\ end' = ip + (container[ip + 1] + 3) /\ ip' = ip + 2
        /\ Len(b) = container[ip + 1] + 1 /\ ip \in Nat
    BY <1>1, <1>5, <1>8
  <2> QED
    BY ONLY <1>9, <1>10, <2>1
<1>12. Reading(Q, b, c, P, first, 0)'
  <2>1. Point(P, 0, 0, Group, 0) /\ Len(<< >>) = 0
    BY <1>8, EmptySeq DEF Body, Passes
  <2>2. IsPart(<< >>, c, 0)
    <3>1. Len(c) \in Nat /\ 0 <= Len(c)
      BY LenProperties
    <3> QED
      BY <3>1, NothingIsPart
  <2>3. container' = container /\ data' = data /\ Body(container, data, first, Len(out'), b, c, P)
    BY <1>1, <1>4, <1>8, <1>10, Zenon
  <2>4. Begins(Q, end', Len(out') + Len(c)) /\ IsPart(out', data, 0)
    BY <1>1, <1>4, <1>8, <1>10, <1>11, Zenon
  <2>5. IsPart(chunkOut', c, 0) /\ Point(P, ip' - first, 0, dbit', Len(chunkOut')) /\ ~(dbit' < Group)
    BY <1>1, <1>5, <1>11, <2>1, <2>2
  <2> QED
    BY <1>11, <2>3, <2>4, <2>5, Zenon DEF Reading
<1>13. Inside(Q)'
  <2>1. 0 \in Nat
    OBVIOUS
  <2> QED
    BY <1>12, <2>1 DEF Inside
<1> QED
  BY <1>1, <1>2, <1>13, Continues

\* A raw chunk gives its bytes of the data.
LEMMA CopyRawReads ==
  ASSUME CodecInv, LosslessInv, data # NoData, CopyRaw
  PROVE  LosslessInv'
<1> DEFINE n == Len(out) + Len(chunkOut)
           first == ip + 3
           last == ip + 2 + ChunkMax
<1>1. /\ pc = "decode" /\ pc' = "decode" /\ ip' = last /\ end' = last
      /\ out' = out \o chunkOut /\ chunkOut' = SubSeq(container, first, last) /\ Cell(ip + 1) # 1
      /\ UNCHANGED << data, container, encoder >> /\ AtHeader
  BY DEF CopyRaw, AtHeader
<1>2. PICK Q : Chunks(Q, container, data, Encoded) /\ (Between(Q) \/ Inside(Q))
  BY <1>1 DEF LosslessInv, Decoding
<1>3. Between(Q) /\ ChunkAt(Q, container, data, ip, n)
  BY <1>1, <1>2, AtChunk
<1>4. IsPart(out \o chunkOut, data, 0) /\ Len(out \o chunkOut) = n
  <2>1. out \in Seq(Nat) /\ chunkOut \in Seq(Nat) /\ 0 + Len(out) = Len(out)
    BY DecoderIs, LenProperties
  <2>2. IsPart(out, data, 0) /\ IsPart(chunkOut, data, 0 + Len(out))
    BY <1>3, <2>1 DEF Between
  <2> QED
    BY <2>1, <2>2, DataIs, PartsJoined, Joined
<1>5. ip \in Nat /\ container[ip + 2] # 1 /\ n \in Nat /\ ChunkMax \in Nat
  <2>1. ip \in Nat /\ ip + 1 + 1 = ip + 2
    BY DecoderIs
  <2> QED
    BY <1>1, <2>1, DecoderIs, LenProperties DEF Cell
<1> HIDE DEF n
<1>6. Raw(Q, container, data, ip, n)
  BY <1>3, <1>5, Zenon DEF ChunkAt
<1>7. /\ last <= Len(container) /\ n + ChunkMax <= Len(data)
      /\ \A k \in 1 .. ChunkMax : container[ip + 2 + k] = data[n + k]
      /\ Begins(Q, last, n + ChunkMax)
  BY <1>6, Zenon DEF Raw
<1>8. Len(chunkOut') = ChunkMax /\ \A k \in 1 .. ChunkMax : chunkOut'[k] = container[ip + 2 + k]
  <2>1. /\ first \in Int /\ last \in Int /\ last - first + 1 = ChunkMax
        /\ (IF first <= last THEN ChunkMax ELSE 0) = ChunkMax
        /\ \A k \in first .. last : k \in 1 .. Len(container)
        /\ \A k \in 1 .. ChunkMax : first + k - 1 = ip + 2 + k
    <3>1. /\ ip \in Nat /\ ChunkMax \in Nat /\ Len(container) \in Nat
          /\ last <= Len(container)
      BY <1>5, <1>7, DecoderIs
    <3> QED
      BY ONLY <3>1
  <2> HIDE DEF first, last
  <2>2. \A k \in first .. last : container[k] \in Nat
    BY <2>1, DecoderIs, ElementOfSeq
  <2>3. /\ Len(chunkOut') = IF first <= last THEN last - first + 1 ELSE 0
        /\ \A k \in 1 .. last - first + 1 : chunkOut'[k] = container[first + k - 1]
    BY <1>1, <2>1, <2>2, SubSeqProperties
  <2> QED
    BY <2>1, <2>3
<1>9. IsPart(chunkOut', data, n)
  BY <1>7, <1>8 DEF IsPart
<1>10. Between(Q)'
  <2> HIDE DEF last
  <2> QED
    BY <1>1, <1>4, <1>7, <1>8, <1>9 DEF Between
<1> QED
  BY <1>1, <1>2, <1>10, Continues

\* No chunk that Compress wrote is refused.
LEMMA NoBadChunk ==
  ASSUME CodecInv, LosslessInv, data # NoData, AtHeader
  PROVE  HeaderFits /\ (Cell(ip + 1) = 1 \/ RawFits)
<1> DEFINE n == Len(out) + Len(chunkOut)
<1>1. PICK Q : Chunks(Q, container, data, Encoded) /\ (Between(Q) \/ Inside(Q))
  BY DEF LosslessInv, Decoding, AtHeader
<1>2. ChunkAt(Q, container, data, ip, n)
  BY <1>1, AtChunk
<1> HIDE DEF n
<1>3. ip \in 0 .. Len(container) - 1 /\ Len(container) \in Nat /\ ip + 1 + 1 = ip + 2
      /\ container[ip + 1] \in Nat
  <2>1. ip \in 0 .. Len(container) - 1 /\ Len(container) \in Nat
    BY DecoderIs DEF AtHeader
  <2>2. ip + 1 \in 1 .. Len(container) /\ ip + 1 + 1 = ip + 2
    BY <2>1
  <2> QED
    BY <2>1, <2>2, DecoderIs, ElementOfSeq
<1>4. HeaderFits
  <2>1. ip + 2 <= Len(container) /\ ip + container[ip + 1] + 3 <= Len(container)
    BY <1>2, Zenon DEF ChunkAt
  <2>2. ip + (container[ip + 1] + 3) = ip + container[ip + 1] + 3
    BY <1>3
  <2> QED
    BY <2>1, <2>2 DEF HeaderFits, Size, Cell
<1>5. CASE container[ip + 2] = 1
  BY <1>3, <1>4, <1>5 DEF Cell
<1>6. CASE container[ip + 2] # 1
  BY <1>2, <1>4, <1>6, Zenon DEF ChunkAt, Raw, RawFits
<1> QED
  BY <1>5, <1>6

\* A flag byte leads to the tokens it has the bits of.
LEMMA ReadFlagReads ==
  ASSUME CodecInv, LosslessInv, data # NoData, ReadFlag
  PROVE  LosslessInv'
<1>1. /\ pc = "decode" /\ pc' = "decode" /\ ip < end /\ dbit = Group
      /\ flag' = Cell(ip) /\ dbit' = 0 /\ ip' = ip + 1
      /\ UNCHANGED << data, container, encoder, end, chunkOut, out >>
  BY DEF ReadFlag
<1>2. PICK Q : Chunks(Q, container, data, Encoded) /\ (Between(Q) \/ Inside(Q))
  BY <1>1 DEF LosslessInv, Decoding
<1>3. PICK b \in Seq(Nat), c \in Seq(Nat), first \in Nat, a \in Nat :
       \E P : Reading(Q, b, c, P, first, a)
  <2>1. Inside(Q)
    BY <1>1, <1>2, DecoderIs DEF Between
  <2> QED
    BY <2>1, Zenon DEF Inside
<1>4. PICK P : Reading(Q, b, c, P, first, a)
  BY <1>3
<1> DEFINE i == ip - first
           n == Len(chunkOut)
<1>5. /\ i \in Nat /\ ip = first + i /\ end = first + Len(b) /\ Len(b) \in Nat
      /\ i < Len(b) => Goes(P, b, c, i, a, dbit, n) /\ Cell(ip) = b[i + 1]
      /\ IsPart(chunkOut, c, 0)
  <2>1. IsPart(chunkOut, c, 0)
    BY <1>4 DEF Reading
  <2> QED
    BY <1>4, <2>1, ReadingIs
<1> HIDE DEF i, n
<1>6. i < Len(b) /\ ip' - first = i + 1 /\ first <= ip' /\ i + 1 \in Nat
  BY <1>1, <1>5
<1>7. Point(P, i + 1, i + 1, 0, n) /\ flag' = b[i + 1]
  BY <1>1, <1>5, <1>6, Zenon DEF Goes
<1>8. Point(P, ip' - first, i + 1, dbit', Len(chunkOut')) /\ IsPart(chunkOut', c, 0)
  BY <1>1, <1>5, <1>6, <1>7, Zenon DEF n
<1>9. Inside(Q)'
  BY <1>1, <1>4, <1>6, <1>7, <1>8, ReadsOn
<1> QED
  BY <1>1, <1>2, <1>9, Continues

\* Where the decoder is to read a token: in the body b of a chunk, of which it has
\* read i cells.
AtBody(Q, b, c, first, a, P) ==
  /\ Reading(Q, b, c, P, first, a)
  /\ ip - first < Len(b) /\ dbit # Group
  /\ Goes(P, b, c, ip - first, a, dbit, Len(chunkOut))
  /\ BitSet <=> BitOf(b[a], dbit)

\* A token read is one of a body that the decoder is in.
LEMMA TokenIs ==
  ASSUME CodecInv, AtToken, NEW Q, Between(Q) \/ Inside(Q)
  PROVE  \E b, c \in Seq(Nat) : \E first, a \in Nat : \E P : AtBody(Q, b, c, first, a, P)
<1>1. pc = "decode" /\ ip < end /\ dbit < Group
  BY DEF AtToken
<1>2. PICK b \in Seq(Nat), c \in Seq(Nat), first \in Nat, a \in Nat :
       \E P : Reading(Q, b, c, P, first, a)
  <2>1. Inside(Q)
    BY <1>1, DecoderIs DEF Between
  <2> QED
    BY <2>1, Zenon DEF Inside
<1>3. PICK P : Reading(Q, b, c, P, first, a)
  BY <1>2
<1> DEFINE i == ip - first
<1>4. /\ i \in Nat /\ ip = first + i /\ end = first + Len(b) /\ Len(b) \in Nat
      /\ i < Len(b) => Goes(P, b, c, i, a, dbit, Len(chunkOut))
      /\ dbit < Group => flag = b[a]
  <2>1. dbit < Group => flag = b[a]
    BY <1>3 DEF Reading
  <2> QED
    BY <1>3, <2>1, ReadingIs
<1> HIDE DEF i
<1>5. i < Len(b)
  BY <1>1, <1>4
<1>6. BitSet <=> BitOf(b[a], dbit)
  BY <1>1, <1>4 DEF BitSet, BitOf
<1>7. dbit # Group
  BY <1>1, DecoderIs
<1>8. AtBody(Q, b, c, first, a, P)
  BY <1>3, <1>4, <1>5, <1>6, <1>7, Zenon DEF AtBody, i
<1> QED
  BY <1>8

\* A literal gives the next byte of the chunk.
LEMMA DecodeLiteralReads ==
  ASSUME CodecInv, LosslessInv, data # NoData, DecodeLiteral
  PROVE  LosslessInv'
<1>1. /\ pc = "decode" /\ pc' = "decode" /\ AtToken /\ ~BitSet
      /\ chunkOut' = Append(chunkOut, Cell(ip)) /\ dbit' = dbit + 1 /\ ip' = ip + 1
      /\ UNCHANGED << data, container, encoder, end, flag, out >>
  BY DEF DecodeLiteral, AtToken
<1>2. PICK Q : Chunks(Q, container, data, Encoded) /\ (Between(Q) \/ Inside(Q))
  BY <1>1 DEF LosslessInv, Decoding
<1>3. PICK b \in Seq(Nat), c \in Seq(Nat), first \in Nat, a \in Nat :
       \E P : AtBody(Q, b, c, first, a, P)
  BY <1>1, <1>2, TokenIs, Zenon
<1>4. PICK P : AtBody(Q, b, c, first, a, P)
  BY <1>3
<1> DEFINE i == ip - first
           n == Len(chunkOut)
<1>5. /\ Reading(Q, b, c, P, first, a) /\ i < Len(b) /\ dbit # Group /\ ~BitOf(b[a], dbit)
      /\ Goes(P, b, c, i, a, dbit, n)
  BY <1>1, <1>4, Zenon DEF AtBody
<1>6. /\ i \in Nat /\ ip = first + i /\ n \in Nat /\ Len(c) \in Nat
      /\ Cell(ip) = b[i + 1] /\ IsPart(chunkOut, c, 0) /\ (dbit < Group => flag = b[a])
  <2>1. IsPart(chunkOut, c, 0) /\ (dbit < Group => flag = b[a])
    BY <1>5 DEF Reading
  <2> QED
    BY <1>5, <2>1, ReadingIs
<1> HIDE DEF i, n
<1>7. n < Len(c) /\ c[n + 1] = b[i + 1] /\ Point(P, i + 1, a, dbit + 1, n + 1)
  BY <1>5, Zenon DEF Goes
<1>8. /\ Len(chunkOut') = n + 1 /\ chunkOut'[n + 1] = c[n + 1]
      /\ \A k \in 1 .. n : chunkOut'[k] = chunkOut[k]
  <2>1. chunkOut \in Seq(Nat) /\ Cell(ip) \in Nat
    <3>1. ip \in 0 .. Len(container) - 1
      BY <1>1, DecoderIs DEF AtToken
    <3> QED
      BY <3>1, DecoderIs
  <2> QED
    BY <1>1, <1>6, <1>7, <2>1, AppendProperties DEF n
<1>9. IsPart(chunkOut', c, 0)
  <2>1. \A k \in 1 .. n : chunkOut[k] = c[k]
    <3>1. \A k \in 1 .. n : chunkOut[k] = c[0 + k]
      BY <1>6 DEF IsPart, n
    <3>2. \A k \in 1 .. n : 0 + k = k
      OBVIOUS
    <3> QED
      BY <3>1, <3>2
  <2>2. ASSUME NEW k \in 1 .. n + 1
        PROVE  chunkOut'[k] = c[0 + k]
    <3>1. 0 + k = k /\ (k \in 1 .. n \/ k = n + 1)
      BY <1>6
    <3> QED
      BY <1>8, <2>1, <3>1
  <2>3. 0 + (n + 1) <= Len(c)
    BY <1>6, <1>7
  <2> QED
    BY <1>8, <2>2, <2>3 DEF IsPart
<1>10. ip' - first = i + 1 /\ first <= ip' /\ dbit < Group
  BY <1>1, <1>6 DEF AtToken
<1>11. Point(P, ip' - first, a, dbit', Len(chunkOut')) /\ flag' = b[a]
  BY <1>1, <1>6, <1>7, <1>8, <1>10, Zenon
<1>12. Inside(Q)'
  BY <1>1, <1>5, <1>9, <1>10, <1>11, ReadsOn
<1> QED
  BY <1>1, <1>2, <1>12, Continues

\* A copy gives the bytes that the copied bytes are followed by in the chunk.
LEMMA CopiedGives ==
  ASSUME chunkOut \in Seq(Nat), NEW c, Len(c) \in Nat, IsPart(chunkOut, c, 0),
         NEW length \in Nat, NEW from \in 0 .. Len(chunkOut) - 1,
         Len(chunkOut) + length <= Len(c),
         \A k \in 1 .. length : c[from + k] = c[Len(chunkOut) + k]
  PROVE  /\ IsPart(chunkOut \o Copied(length, from), c, 0)
         /\ Len(chunkOut \o Copied(length, from)) = Len(chunkOut) + length
<1> DEFINE n == Len(chunkOut)
           t == Copied(length, from)
<1>1. /\ t \in Seq(Nat) /\ Len(t) = length
      /\ \A k \in 1 .. length :
           t[k] = IF from + k <= n THEN chunkOut[from + k] ELSE t[from + k - n]
  BY CopiedIs
<1>2. n \in Nat /\ n <= Len(c) /\ \A k \in 1 .. n : chunkOut[k] = c[k]
  <2>1. n \in Nat
    BY LenProperties
  <2>2. 0 + n <= Len(c) /\ \A k \in 1 .. n : chunkOut[k] = c[0 + k]
    BY DEF IsPart
  <2>3. \A k \in 1 .. n : 0 + k = k
    OBVIOUS
  <2> QED
    BY <2>1, <2>2, <2>3
<1>3. \A k \in 1 .. length : c[from + k] = c[n + k]
  OBVIOUS
<1>4. from \in 0 .. n - 1 /\ n + length <= Len(c)
  OBVIOUS
<1> HIDE DEF n, t
<1> DEFINE Bad == {k \in 1 .. length : t[k] # c[n + k]}
<1>5. Bad = {}
  <2> SUFFICES ASSUME Bad # {}
               PROVE  FALSE
    OBVIOUS
  <2>1. Bad \in SUBSET Nat
    OBVIOUS
  <2>2. PICK k \in Bad : \A y \in Bad : k <= y
    BY <2>1, LeastOf
  <2>3. k \in 1 .. length /\ t[k] # c[n + k]
    BY <2>2
  <2>4. CASE from + k <= n
    <3>1. from + k \in 1 .. n
      BY <1>2, <1>4, <2>3, <2>4
    <3>2. t[k] = c[from + k]
      BY <1>1, <1>2, <2>3, <2>4, <3>1
    <3> QED
      BY <1>3, <2>3, <3>2
  <2>5. CASE ~(from + k <= n)
    <3> DEFINE j == from + k - n
    <3>1. j \in 1 .. length /\ j < k /\ n + j = from + k
      BY <1>2, <1>4, <2>3, <2>5
    <3>2. t[k] = t[j]
      BY <1>1, <2>3, <2>5
    <3> HIDE DEF j
    <3>3. j \notin Bad
      BY <2>2, <2>3, <3>1
    <3>4. t[j] = c[n + j]
      BY <3>1, <3>3
    <3> QED
      BY <1>3, <2>3, <3>1, <3>2, <3>4
  <2> QED
    BY <2>4, <2>5
<1>6. \A k \in 1 .. length : t[k] = c[n + k]
  BY <1>5
<1>7. IsPart(t, c, 0 + n)
  BY <1>1, <1>2, <1>4, <1>6 DEF IsPart
<1> QED
  BY <1>1, <1>7, PartsJoined, Joined DEF t, n

\* The copy token that the decoder reads in a body, and what it goes on to.
LEMMA CopyIs ==
  ASSUME CodecInv, NEW Q, NEW b \in Seq(Nat), NEW c \in Seq(Nat), NEW first \in Nat, NEW a \in Nat,
         NEW P, AtBody(Q, b, c, first, a, P), BitSet
  PROVE  /\ CopyLength \in Nat /\ CopyFrom \in 0 .. Len(chunkOut) - 1
         /\ Len(chunkOut) + CopyLength <= Len(c) /\ Len(c) <= ChunkMax /\ ip + 2 <= end
         /\ \A k \in 1 .. CopyLength : c[CopyFrom + k] = c[Len(chunkOut) + k]
         /\ Point(P, (ip - first) + 2, a, dbit + 1, Len(chunkOut) + CopyLength)
<1> DEFINE i == ip - first
           n == Len(chunkOut)
           token == b[i + 1] + b[i + 2] * 2 ^ ByteBits
<1>1. /\ Reading(Q, b, c, P, first, a) /\ i < Len(b) /\ dbit # Group /\ BitOf(b[a], dbit)
      /\ Goes(P, b, c, i, a, dbit, n)
  BY Zenon DEF AtBody
<1>2. /\ i \in Nat /\ ip = first + i /\ end = first + Len(b) /\ n \in Nat /\ Len(b) \in Nat
      /\ Len(c) <= ChunkMax /\ Cell(ip) = b[i + 1] /\ (i + 2 <= Len(b) => Cell(ip + 1) = b[i + 2])
      /\ n \in 0 .. ChunkMax
  BY <1>1, ReadingIs, DecoderIs
<1> HIDE DEF i, n
<1>3. /\ i + 2 <= Len(b) /\ TokenOffset(n, token) <= n /\ n + TokenLength(n, token) <= Len(c)
      /\ \A k \in 1 .. TokenLength(n, token) : c[n - TokenOffset(n, token) + k] = c[n + k]
      /\ Point(P, i + 2, a, dbit + 1, n + TokenLength(n, token))
  BY <1>1, Zenon DEF Goes
<1>4. Token = token /\ token \in Nat
  <2>1. i + 1 \in 1 .. Len(b) /\ i + 2 \in 1 .. Len(b)
    BY <1>2, <1>3
  <2>2. b[i + 1] \in Nat /\ b[i + 2] \in Nat /\ 2 ^ ByteBits \in Nat
    BY <2>1, ElementOfSeq, Geometry
  <2>3. Token = token
    BY <1>2, <1>3, Zenon DEF Token
  <2>4. token \in Nat
    <3> DEFINE x == b[i + 1]
               y == b[i + 2]
               B == 2 ^ ByteBits
    <3>1. x \in Nat /\ y \in Nat /\ B \in Nat
      BY <2>2
    <3> HIDE DEF x, y, B
    <3>2. x + y * B \in Nat
      BY ONLY <3>1
    <3> QED
      BY <3>2, Zenon DEF x, y, B
  <2> QED
    BY <2>3, <2>4
<1> HIDE DEF token
<1>5. CopyFrom = n - TokenOffset(n, token) /\ CopyLength = TokenLength(n, token)
  BY <1>4, Zenon DEF CopyFrom, CopyLength, n
<1>6. LengthUnit(n) \in Nat \ {0}
  BY <1>2, Widths
<1>7. TokenLength(n, token) \in Nat /\ TokenOffset(n, token) \in Nat \ {0}
  <2> DEFINE U == LengthUnit(n)
  <2>1. token \in Nat /\ U \in Nat \ {0}
    BY <1>4, <1>6
  <2> HIDE DEF U
  <2>2. token % U \in Nat /\ token \div U \in Nat
    BY ONLY <2>1
  <2> QED
    BY <2>2 DEF TokenLength, TokenOffset, MinMatch, U
<1>8. n - TokenOffset(n, token) \in 0 .. n - 1 /\ ip + 2 <= end
  <2> DEFINE o == TokenOffset(n, token)
  <2>1. /\ n \in Nat /\ o \in Nat \ {0} /\ o <= n /\ ip = first + i /\ end = first + Len(b)
        /\ i + 2 <= Len(b) /\ i \in Nat /\ Len(b) \in Nat
    BY <1>2, <1>3, <1>7
  <2> HIDE DEF o
  <2>2. n - o \in 0 .. n - 1 /\ ip + 2 <= end
    BY <2>1
  <2> QED
    BY <2>2 DEF o
<1> QED
  BY <1>2, <1>3, <1>5, <1>7, <1>8, Zenon DEF n, i

\* A copy token gives the next bytes of the chunk.
LEMMA DecodeCopyReads ==
  ASSUME CodecInv, LosslessInv, data # NoData, DecodeCopy
  PROVE  LosslessInv'
<1>1. /\ pc = "decode" /\ pc' = "decode" /\ AtToken /\ BitSet
      /\ chunkOut' = chunkOut \o Copied(CopyLength, CopyFrom) /\ dbit' = dbit + 1 /\ ip' = ip + 2
      /\ UNCHANGED << data, container, encoder, end, flag, out >>
  BY DEF DecodeCopy, AtToken
<1>2. PICK Q : Chunks(Q, container, data, Encoded) /\ (Between(Q) \/ Inside(Q))
  BY <1>1 DEF LosslessInv, Decoding
<1>3. PICK b \in Seq(Nat), c \in Seq(Nat), first \in Nat, a \in Nat :
       \E P : AtBody(Q, b, c, first, a, P)
  BY <1>1, <1>2, TokenIs, Zenon
<1>4. PICK P : AtBody(Q, b, c, first, a, P)
  BY <1>3
<1> DEFINE i == ip - first
           n == Len(chunkOut)
<1>5. /\ Reading(Q, b, c, P, first, a)
      /\ IsPart(chunkOut, c, 0) /\ (dbit < Group => flag = b[a])
  BY <1>4 DEF AtBody, Reading
<1>6. /\ i \in Nat /\ ip = first + i /\ n \in Nat /\ Len(c) \in Nat
  BY <1>5, ReadingIs
<1>7. /\ CopyLength \in Nat /\ CopyFrom \in 0 .. n - 1 /\ n + CopyLength <= Len(c)
      /\ \A k \in 1 .. CopyLength : c[CopyFrom + k] = c[n + k]
      /\ Point(P, i + 2, a, dbit + 1, n + CopyLength)
  BY <1>1, <1>4, CopyIs
<1>8. IsPart(chunkOut', c, 0) /\ Len(chunkOut') = n + CopyLength
  BY <1>1, <1>5, <1>6, <1>7, DecoderIs, CopiedGives
<1> HIDE DEF i, n
<1>9. ip' - first = i + 2 /\ first <= ip' /\ dbit < Group
  BY <1>1, <1>6 DEF AtToken
<1>10. Point(P, ip' - first, a, dbit', Len(chunkOut')) /\ flag' = b[a]
  BY <1>1, <1>5, <1>7, <1>8, <1>9, Zenon
<1>11. Inside(Q)'
  BY <1>1, <1>5, <1>8, <1>9, <1>10, ReadsOn
<1> QED
  BY <1>1, <1>2, <1>11, Continues

\* No token that Compress wrote is refused.
LEMMA NoBadToken ==
  ASSUME CodecInv, LosslessInv, data # NoData, AtToken
  PROVE  IF BitSet THEN CopyFits ELSE LiteralFits
<1>1. PICK Q : Between(Q) \/ Inside(Q)
  BY DEF LosslessInv, Decoding, AtToken
<1>2. PICK b \in Seq(Nat), c \in Seq(Nat), first \in Nat, a \in Nat :
       \E P : AtBody(Q, b, c, first, a, P)
  BY <1>1, TokenIs, Zenon
<1>3. PICK P : AtBody(Q, b, c, first, a, P)
  BY <1>2
<1>4. CASE BitSet
  <2>1. /\ CopyLength \in Nat /\ CopyFrom \in 0 .. Len(chunkOut) - 1
        /\ Len(chunkOut) + CopyLength <= Len(c) /\ Len(c) <= ChunkMax /\ ip + 2 <= end
    BY <1>3, <1>4, CopyIs
  <2>2. Len(c) \in Nat /\ Len(chunkOut) \in Nat /\ ChunkMax \in Nat
    BY LenProperties, DecoderIs
  <2> QED
    BY <1>4, <2>1, <2>2 DEF CopyFits
<1>5. CASE ~BitSet
  <2>1. /\ Reading(Q, b, c, P, first, a) /\ dbit # Group /\ ~BitOf(b[a], dbit)
        /\ Goes(P, b, c, ip - first, a, dbit, Len(chunkOut))
    BY <1>3, <1>5, Zenon DEF AtBody
  <2>2. Len(chunkOut) < Len(c)
    BY <2>1, Zenon DEF Goes
  <2>3. Len(c) <= ChunkMax /\ Len(c) \in Nat /\ Len(chunkOut) \in Nat /\ ChunkMax \in Nat
    BY <2>1, ReadingIs, DecoderIs
  <2> QED
    BY <1>5, <2>2, <2>3 DEF LiteralFits
<1> QED
  BY <1>4, <1>5

\* All chunks decoded, all of the data is there.
LEMMA DecodeDoneReads ==
  ASSUME CodecInv, LosslessInv, data # NoData, DecodeDone
  PROVE  LosslessInv'
<1>1. /\ pc = "decode" /\ pc' = "done" /\ ip >= end /\ ip >= Len(container)
      /\ out' = out \o chunkOut /\ chunkOut' = << >>
      /\ UNCHANGED << data, container, encoder >>
  BY DEF DecodeDone
<1>2. PICK Q : Chunks(Q, container, data, Encoded) /\ (Between(Q) \/ Inside(Q))
  BY <1>1 DEF LosslessInv, Decoding
<1>3. Between(Q)
  BY <1>1, <1>2, AtEnd
<1>4. /\ out \in Seq(Nat) /\ chunkOut \in Seq(Nat) /\ Len(out) \in Nat /\ Len(chunkOut) \in Nat
      /\ ip \in 0 .. Len(container) /\ Len(container) \in Nat
      /\ data \in Seq(Nat) /\ Len(data) \in Nat
  BY DecoderIs, DataIs, LenProperties
<1>5. Len(out) + Len(chunkOut) = Len(data)
  <2>1. ip = Len(container) /\ Begins(Q, ip, Len(out) + Len(chunkOut)) /\ Len(out) + Len(chunkOut) \in Nat
    BY <1>1, <1>3, <1>4 DEF Between
  <2>2. Len(out) + Len(chunkOut) = Encoded
    BY <1>2, <1>4, <2>1 DEF Chunks
  <2>3. ~(base < Len(data))
    <3>1. base >= Len(data) /\ base \in Nat
      BY <1>1 DEF LosslessInv, CodecInv, TypeOK
    <3> QED
      BY <1>4, <3>1
  <2> QED
    BY <2>2, <2>3 DEF Encoded
<1>6. out \o chunkOut = data
  <2>1. IsPart(out, data, 0) /\ IsPart(chunkOut, data, 0 + Len(out))
    BY <1>3, <1>4 DEF Between
  <2>2. /\ IsPart(out \o chunkOut, data, 0) /\ out \o chunkOut \in Seq(Nat)
        /\ Len(out \o chunkOut) = Len(data)
    BY <1>4, <1>5, <2>1, PartsJoined, Joined
  <2>3. ASSUME NEW k \in 1 .. Len(out \o chunkOut)
        PROVE  (out \o chunkOut)[k] = data[k]
    <3>1. (out \o chunkOut)[k] = data[0 + k] /\ 0 + k = k
      BY <2>2 DEF IsPart
    <3> QED
      BY <3>1, Zenon
  <2> QED
    BY <1>4, <2>2, <2>3, SeqEqual
<1>7. container[1] = Signature
  BY DEF LosslessInv
<1>8. Decoding(Q)'
  BY <1>1, <1>2 DEF Decoding, Encoded, encoder
<1> QED
  BY <1>1, <1>6, <1>7, <1>8 DEF LosslessInv

\* A step of the encoder that writes no chunk.
LEMMA EncodesOn ==
  ASSUME LosslessInv, data # NoData, pc = "encode",
         UNCHANGED << data, container, base, decoder >>,
         pc' \in {"encode", "incompressible"} \/ (pc' = "signature" /\ base >= Len(data))
  PROVE  LosslessInv'
<1>1. PICK Q : Chunks(Q, container, data, Encoded)
  BY DEF LosslessInv, Decoding
<1>2. Encoded' = Encoded /\ out = << >> /\ chunkOut = << >> /\ container[1] = Signature
  BY DEF Encoded, LosslessInv
<1>3. Decoding(Q)'
  BY <1>1, <1>2 DEF Decoding
<1> QED
  BY <1>2, <1>3 DEF LosslessInv, decoder

\* A chunk written: the container still stands for what is encoded.
LEMMA EmitReads ==
  ASSUME CodecInv, BodyInv, LosslessInv, data # NoData, EmitCompressed \/ EmitRaw
  PROVE  LosslessInv'
<1>1. PICK Q : Chunks(Q, container, data, Encoded)
  BY DEF LosslessInv, Decoding
<1>2. PICK R : Chunks(R, container', data', Encoded')
  BY <1>1, ChunkWritten
<1>3. /\ pc = "encode" /\ pc' = "encode" /\ out' = out /\ chunkOut' = chunkOut /\ data' = data
      /\ out = << >> /\ chunkOut = << >> /\ container[1] = Signature
  BY DEF EmitCompressed, EmitRaw, ChunkEncoded, NextChunk, decoder, LosslessInv
<1>4. container'[1] = container[1]
  <2>1. container \in Seq(Nat)
    BY DEF CodecInv, TypeOK
  <2>2. 1 \in 1 .. Len(container)
    <3>1. 1 <= Len(container) /\ Len(container) \in Nat
      BY <1>1, DecoderIs DEF Chunks
    <3> QED
      BY <3>1
  <2>3. PICK cells \in Seq(Nat) : container' = container \o cells
    BY EmittedCells DEF NextChunk
  <2> QED
    BY <2>1, <2>2, <2>3, Joined
<1>5. Decoding(R)'
  BY <1>2, <1>3 DEF Decoding
<1> QED
  BY <1>3, <1>4, <1>5 DEF LosslessInv

\* The start: one byte of signature, nothing encoded, an empty body.
LEMMA InitReads ==
  ASSUME Init
  PROVE  BodyInv /\ LosslessInv
<1>1. CodecInv
  BY InitCodec
<1>2. BodyInv
  <2>1. pc = "encode" => Len(Chunk) \in Nat
    BY <1>1, ChunkIs
  <2>2. pc = "encode" => Written(<< >>, Chunk, 0, 0, 0)
    BY <2>1, EmptyBody
  <2> QED
    BY <2>2 DEF Init, BodyInv
<1>3. LosslessInv
  <2> SUFFICES ASSUME data # NoData
               PROVE  LosslessInv
    BY DEF LosslessInv
  <2>1. pc = "encode" /\ container = << Signature >> /\ base = 0 /\ out = << >> /\ chunkOut = << >>
    BY DEF Init
  <2> DEFINE Q == {<< 1, 0 >>}
  <2>2. \A i, n : Begins(Q, i, n) <=> i = 1 /\ n = 0
    BY DEF Begins
  <2> HIDE DEF Q
  <2>3. Len(container) = 1 /\ container[1] = Signature
    BY <2>1
  <2>4. Encoded = 0
    BY <1>1, <2>1, DataIs DEF Encoded
  <2>5. Chunks(Q, container, data, Encoded)
    <3>1. ASSUME NEW i \in Nat, NEW n \in Nat, Begins(Q, i, n)
          PROVE  /\ 1 <= i /\ i <= Len(container)
                 /\ i = Len(container) => n = Encoded
                 /\ i < Len(container) => ChunkAt(Q, container, data, i, n)
      <4>1. i = 1 /\ n = 0
        BY <2>2, <3>1
      <4> QED
        BY <2>3, <2>4, <4>1
    <3> QED
      BY <2>2, <3>1, Zenon DEF Chunks
  <2> QED
    BY <2>1, <2>3, <2>5 DEF LosslessInv, Decoding
<1> QED
  BY <1>2, <1>3

\* Each step keeps the decoder's account of the container.
LEMMA LosslessKeeps ==
  ASSUME CodecInv, BodyInv, LosslessInv, [Next]_vars
  PROVE  LosslessInv'
<1> USE DEF Next, Encode, Decode
<1>1. data' = data
  BY DEF EncodeLiteral, EncodeCopy, EmitCompressed, EmitRaw, NextChunk, Incompressible, EncodeDone,
         Accept, BadSignature, OpenChunk, CopyRaw, BadChunk, ReadFlag, DecodeLiteral, DecodeCopy,
         BadToken, DecodeDone, Corrupt, vars
<1> SUFFICES ASSUME data # NoData
             PROVE  LosslessInv'
  BY <1>1 DEF LosslessInv
<1>2. CASE EncodeLiteral
  BY <1>2, EncodesOn DEF EncodeLiteral
<1>3. CASE EncodeCopy
  BY <1>3, EncodesOn DEF EncodeCopy
<1>4. CASE EmitCompressed \/ EmitRaw
  BY <1>4, EmitReads
<1>5. CASE Incompressible
  BY <1>5, EncodesOn DEF Incompressible, ChunkEncoded, encoder
<1>6. CASE EncodeDone
  BY <1>6, EncodesOn DEF EncodeDone, encoder
<1>7. CASE Accept
  BY <1>7, AcceptReads
<1>8. CASE OpenChunk
  BY <1>8, OpenChunkReads
<1>9. CASE CopyRaw
  BY <1>9, CopyRawReads
<1>10. CASE ReadFlag
  BY <1>10, ReadFlagReads
<1>11. CASE DecodeLiteral
  BY <1>11, DecodeLiteralReads
<1>12. CASE DecodeCopy
  BY <1>12, DecodeCopyReads
<1>13. CASE DecodeDone
  BY <1>13, DecodeDoneReads
<1>14. CASE BadSignature
  BY <1>14, NoBadSignature DEF BadSignature
<1>15. CASE BadChunk
  BY <1>15, NoBadChunk DEF BadChunk
<1>16. CASE BadToken
  BY <1>16, NoBadToken DEF BadToken
<1>17. CASE UNCHANGED vars
  <2>1. UNCHANGED << pc, data, container, base, ip, end, flag, dbit, chunkOut, out >>
    BY <1>17 DEF vars, encoder, decoder
  <2>2. PICK Q : Decoding(Q)
    BY DEF LosslessInv
  <2>3. Between(Q)' <=> Between(Q)
    BY <2>1 DEF Between
  <2>4. Inside(Q)' <=> Inside(Q)
    BY <2>1 DEF Inside, Reading, Group
  <2>5. Encoded' = Encoded
    BY <2>1 DEF Encoded
  <2>6. Decoding(Q)'
    BY <2>1, <2>2, <2>3, <2>4, <2>5 DEF Decoding
  <2> QED
    BY <2>1, <2>6 DEF LosslessInv
<1> QED
  BY <1>2, <1>3, <1>4, <1>5, <1>6, <1>7, <1>8, <1>9, <1>10, <1>11, <1>12, <1>13, <1>14, <1>15,
     <1>16, <1>17

\* The invariant: the decoder reads what is encoded so far, of the open body and
\* of the container, as the data it stands for; and it is at a place from which
\* it does.
THEOREM LosslessInvariant == Spec => [](BodyInv /\ LosslessInv)
<1>1. Init => BodyInv /\ LosslessInv
  BY InitReads
<1>2. CodecInv /\ CodecInv' /\ BodyInv /\ LosslessInv /\ [Next]_vars => (BodyInv /\ LosslessInv)'
  BY BodyKeeps, LosslessKeeps
<1> QED
  BY <1>1, <1>2, CodecInvariant, PTL DEF Spec

\* Decompress is the inverse of Compress, on every input and for every geometry: it
\* accepts what Compress returns, all along its output is a beginning of the
\* data, and in the end it is the data.
THEOREM DecompressInverts == Spec => []Lossless
<1>1. CodecInv /\ LosslessInv => Lossless
  <2> SUFFICES ASSUME CodecInv, LosslessInv, data # NoData
               PROVE  pc # "corrupt" /\ IsPrefix(out \o chunkOut, data) /\ (pc = "done" => out = data)
    BY DEF Lossless
  <2>1. pc # "corrupt" /\ (pc = "done" => out = data /\ chunkOut = << >>)
        /\ (pc \in {"encode", "incompressible", "signature"} => out = << >> /\ chunkOut = << >>)
    BY DEF LosslessInv
  <2>2. /\ out \in Seq(Nat) /\ chunkOut \in Seq(Nat) /\ data \in Seq(Nat)
        /\ Len(out) \in Nat /\ Len(chunkOut) \in Nat /\ Len(data) \in Nat
    BY DecoderIs, DataIs, LenProperties
  <2>3. IsPart(out \o chunkOut, data, 0)
    <3>1. CASE pc = "decode"
      <4>1. PICK Q : Between(Q) \/ Inside(Q)
        BY <3>1 DEF LosslessInv, Decoding
      <4>2. IsPart(out, data, 0) /\ IsPart(chunkOut, data, Len(out))
        <5>1. CASE Between(Q)
          BY <5>1 DEF Between
        <5>2. CASE Inside(Q)
          <6>1. PICK b \in Seq(Nat), c \in Seq(Nat), first \in Nat, a \in Nat :
                 \E P : Reading(Q, b, c, P, first, a)
            BY <5>2, Zenon DEF Inside
          <6>2. PICK P : Reading(Q, b, c, P, first, a)
            BY <6>1
          <6>3. IsPart(out, data, 0) /\ IsPart(chunkOut, c, 0) /\ IsPart(c, data, Len(out))
            BY <6>2 DEF Reading, Body
          <6>4. Len(c) \in Nat
            BY LenProperties
          <6> QED
            BY <2>2, <6>3, <6>4, PartOfPart
        <5> QED
          BY <4>1, <5>1, <5>2
      <4> QED
        BY <2>2, <4>2, PartsJoined
    <3>2. CASE pc = "done"
      <4>1. out \o chunkOut = data
        BY <2>1, <2>2, <3>2, ConcatEmptySeq
      <4> QED
        BY <2>2, <4>1 DEF IsPart
    <3>3. CASE pc \in {"encode", "incompressible", "signature"}
      <4>1. out \o chunkOut = << >>
        BY <2>1, <2>2, <3>3, ConcatEmptySeq
      <4>2. 0 <= Len(data)
        BY <2>2
      <4> QED
        BY <2>2, <4>1, <4>2, NothingIsPart
    <3> QED
      BY <2>1, <3>1, <3>2, <3>3 DEF CodecInv, TypeOK
  <2>4. IsPrefix(out \o chunkOut, data)
    <3> DEFINE s == out \o chunkOut
    <3>1. s \in Seq(Nat) /\ Len(s) \in Nat
      BY <2>2, ConcatProperties, LenProperties
    <3> HIDE DEF s
    <3>2. Len(s) <= Len(data) /\ \A k \in 1 .. Len(s) : s[k] = data[0 + k] /\ 0 + k = k
      BY <2>2, <2>3, <3>1 DEF IsPart, s
    <3>3. SubSeq(s, 1, Len(s)) = SubSeq(data, 1, Len(s))
      BY <3>1, <3>2
    <3> QED
      BY <3>2, <3>3 DEF IsPrefix, s
  <2> QED
    BY <2>1, <2>4
<1> QED
  BY <1>1, CodecInvariant, LosslessInvariant, PTL
=============================================================================
