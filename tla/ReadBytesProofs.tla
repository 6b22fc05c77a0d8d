--------------------------- MODULE ReadBytesProofs ---------------------------
(***************************************************************************)
(* A protection record is never misread (ProtectionRead of                 *)
(* DataEncryption), the walk over a dir stream, whole or cut off, finds    *)
(* the records that are there (WalkFindsRecords of ReadBytes), what the    *)
(* loop over any bytes computes is what DirStream declares of the records  *)
(* found (ParsesAsDeclared), and what Write splices is read back           *)
(* (SpliceStable), for every base, every exclusive or, every input. First  *)
(* ProtectionRead: numbers and their digits; the bytes of an encryption;   *)
(* deciphering as its inverse, in both directions; the inductive           *)
(* invariant; the steps. Then WalkFindsRecords: concatenations, grown part *)
(* by part; the bytes of a record; the records of a stream; the inductive  *)
(* invariant of the walk; its steps. Then ParsesAsDeclared: records by     *)
(* their position; the walk as a function; what the loop has left behind   *)
(* some of the records; what DirStream declares of all; the inductive      *)
(* invariant of the parser; its steps. Then SpliceStable: the bytes Write  *)
(* makes of a module, walked; where records stand; what a second Read      *)
(* gives beside the first; the inductive invariant through both Reads; its *)
(* steps.                                                                  *)
(***************************************************************************)
EXTENDS ReadBytes, SequenceTheorems, FiniteSetTheorems, WellFoundedInduction, TLAPS

DP == INSTANCE DirStreamProofs WITH
        CountLimit <- Base * Base, AnyName <- Seq(Byte), NoName <- << >>

\* A non-empty set of numbers has a least element.
LEMMA LeastOf ==
  ASSUME NEW T \in SUBSET Nat, T # {}
  PROVE  \E x \in T : \A y \in T : x <= y
<1> DEFINE Below == OpToRel(<, Nat)
<1>1. IsWellFoundedOn(Below, Nat)
  BY NatLessThanWellFounded
<1>2. \E x \in T : \A y \in T : ~(<< y, x >> \in Below)
  <2> HIDE DEF Below
  <2> QED
    BY <1>1, WFMin
<1>3. \A x, y \in Nat : x < y => << x, y >> \in Below
  BY DEF OpToRel
<1> HIDE DEF Below
<1>4. PICK x \in T : \A y \in T : ~(y < x)
  BY <1>2, <1>3
<1> QED
  BY <1>4

\* Quotient and remainder of a number written with them.
LEMMA Division ==
  ASSUME NEW a \in Nat \ {0}, NEW q \in Nat, NEW r \in 0 .. a - 1
  PROVE  (a * q + r) \div a = q /\ (a * q + r) % a = r
<1> DEFINE n == a * q + r
           d == n \div a
           m == n % a
<1>1. a * q \in Nat /\ n \in Nat
  OBVIOUS
<1>2. d \in Int /\ m \in 0 .. a - 1 /\ n = (a * d) + m
  BY <1>1
<1> HIDE DEF d, m
<1>3. ~(d <= q - 1)
  <2> SUFFICES ASSUME d <= q - 1
               PROVE  FALSE
    OBVIOUS
  <2>1. a * d <= a * (q - 1) /\ a * (q - 1) = a * q - a /\ a * d \in Int
    BY <1>2
  <2> QED
    BY <1>1, <1>2, <2>1
<1>4. ~(d >= q + 1)
  <2> SUFFICES ASSUME d >= q + 1
               PROVE  FALSE
    OBVIOUS
  <2>1. a * d >= a * (q + 1) /\ a * (q + 1) = a * q + a /\ a * d \in Int
    BY <1>2
  <2> QED
    BY <1>1, <1>2, <2>1
<1>5. d = q
  BY <1>2, <1>3, <1>4
<1> QED
  BY <1>1, <1>2, <1>5 DEF d, m

\* The quotient and the remainder of a number are numbers.
LEMMA Divided ==
  ASSUME NEW n \in Nat, NEW a \in Nat \ {0}
  PROVE  n \div a \in Nat /\ n % a \in 0 .. a - 1 /\ n = a * (n \div a) + (n % a)
<1>1. n \div a \in Int /\ n % a \in 0 .. a - 1 /\ n = a * (n \div a) + (n % a)
  OBVIOUS
<1>2. n \div a >= 0
  <2> DEFINE d == n \div a
             m == n % a
  <2> HIDE DEF d, m
  <2>1. d \in Int /\ m \in 0 .. a - 1 /\ n = a * d + m
    BY <1>1 DEF d, m
  <2>2. ~(d <= -1)
    <3> SUFFICES ASSUME d <= -1
                 PROVE  FALSE
      OBVIOUS
    <3>1. a * d <= a * (-1) /\ a * (-1) = -a /\ a * d \in Int
      BY <2>1
    <3> QED
      BY <2>1, <3>1
  <2> QED
    BY <2>1, <2>2 DEF d
<1> QED
  BY <1>1, <1>2

\* Dividing by a product is dividing twice.
LEMMA DivTwice ==
  ASSUME NEW n \in Nat, NEW a \in Nat \ {0}, NEW c \in Nat \ {0}
  PROVE  n \div (a * c) = (n \div a) \div c
<1> DEFINE q == n \div a
           r == n % a
           p == q \div c
           s == q % c
<1>1. q \in Nat /\ r \in 0 .. a - 1 /\ n = a * q + r
  BY Divided
<1> HIDE DEF q, r
<1>2. p \in Nat /\ s \in 0 .. c - 1 /\ q = c * p + s
  BY <1>1, Divided
<1> HIDE DEF p, s
<1>3. a * c \in Nat \ {0} /\ a * s + r \in 0 .. (a * c) - 1
  <2>1. a * c > 0 /\ a * c \in Nat
    OBVIOUS
  <2>2. a * s <= a * (c - 1) /\ a * (c - 1) = a * c - a /\ a * s \in Nat
    BY <1>2
  <2> QED
    BY <1>1, <2>1, <2>2
<1>4. n = (a * c) * p + (a * s + r)
  <2>1. a * q = a * (c * p) + a * s /\ a * (c * p) = (a * c) * p
    BY <1>2
  <2>2. a * s \in Nat /\ (a * c) * p \in Nat
    BY <1>2
  <2> QED
    BY <1>1, <2>1, <2>2
<1>5. n \div (a * c) = p
  BY <1>2, <1>3, <1>4, Division
<1> QED
  BY <1>5 DEF p, q

\* The places of four digits are positive.
LEMMA Bases ==
  /\ Base \in Nat \ {0} /\ Base * Base \in Nat \ {0} /\ Base * Base * Base \in Nat \ {0}
  /\ Base * Base * Base * Base \in Nat \ {0}
<1>1. Base \in Nat /\ Base >= 8
  BY BaseAssumption DEF BaseAssumption
<1>2. Base * Base \in Nat /\ Base * Base > 0
  BY <1>1
<1>3. Base * Base * Base \in Nat /\ Base * Base * Base > 0
  BY <1>1, <1>2
<1>4. Base * Base * Base * Base \in Nat /\ Base * Base * Base * Base > 0
  BY <1>1, <1>3
<1> QED
  BY <1>1, <1>2, <1>3, <1>4

\* The quotients by the places of four digits, each from the one before.
LEMMA Quotients ==
  ASSUME NEW n \in Nat
  PROVE  /\ n \div Place[1] = n
         /\ n \div Place[2] = n \div Base
         /\ n \div Place[3] = (n \div Base) \div Base
         /\ n \div Place[4] = ((n \div Base) \div Base) \div Base
<1>1. Place[1] = 1 /\ Place[2] = Base /\ Place[3] = Base * Base /\ Place[4] = (Base * Base) * Base
  BY DEF Place
<1>2. n \div 1 = n
  OBVIOUS
<1>3. n \div (Base * Base) = (n \div Base) \div Base
  BY Bases, DivTwice
<1>4. n \div ((Base * Base) * Base) = (n \div (Base * Base)) \div Base
  BY Bases, DivTwice
<1> HIDE DEF Place
<1> QED
  BY <1>1, <1>2, <1>3, <1>4

\* A slice of a sequence.
LEMMA SliceIs ==
  ASSUME NEW S, NEW s \in Seq(S), NEW m \in Nat, NEW n \in m .. Len(s)
  PROVE  /\ Slice(s, m, n) \in Seq(S) /\ Len(Slice(s, m, n)) = n - m
         /\ \A j \in 1 .. n - m : Slice(s, m, n)[j] = s[m + j]
<1>1. Len(s) \in Nat /\ n \in Nat /\ m <= n /\ n <= Len(s)
  BY LenProperties
<1>2. \A j \in m + 1 .. n : s[j] \in S
  BY <1>1, ElementOfSeq
<1> DEFINE w == SubSeq(s, m + 1, n)
<1>3. w = [j \in 1 .. n - m |-> s[m + j]]
  <2>1. w = [j \in 1 .. 1 + n - (m + 1) |-> s[j + (m + 1) - 1]]
    BY <1>1
  <2> QED
    BY <1>1, <2>1
<1> HIDE DEF w
<1>4. w \in Seq(S) /\ Len(w) = n - m
  BY <1>1, <1>2, <1>3
<1> QED
  BY <1>1, <1>3, <1>4 DEF Slice, w

\* The high half of a number of four bytes.
LEMMA HighHalf ==
  ASSUME NEW s \in Seq(Byte), Len(s) = 4
  PROVE  le16(Slice(s, 2, 4)) = s[3] + Base * s[4]
<1> DEFINE w == Slice(s, 2, 4)
<1>1. 2 \in Nat /\ 4 \in 2 .. Len(s)
  OBVIOUS
<1>2. Len(w) = 4 - 2 /\ \A j \in 1 .. 4 - 2 : w[j] = s[2 + j]
  BY <1>1, SliceIs
<1> HIDE DEF w
<1>3. Len(w) = 2 /\ w[1] = s[3] /\ w[2] = s[4]
  <2>1. 1 \in 1 .. 4 - 2 /\ 2 \in 1 .. 4 - 2
    OBVIOUS
  <2>2. w[1] = s[2 + 1] /\ w[2] = s[2 + 2]
    BY <1>2, <2>1
  <2> QED
    BY <1>2, <2>2
<1>4. le16(w) = w[1] + Base * w[2]
  BY <1>3 DEF le16
<1> QED
  BY <1>3, <1>4 DEF w

\* Four bytes are the digits of their value, from the low one on.
LEMMA FourDigits ==
  ASSUME NEW s \in Seq(Byte), Len(s) = 4
  PROVE  le32(s) \in Nat /\ LE(le32(s), 4) = s
<1> DEFINE n3 == s[4]
           n2 == s[3] + Base * n3
           n1 == s[2] + Base * n2
           n0 == s[1] + Base * n1
<1>1. \A j \in 1 .. 4 : s[j] \in 0 .. Base - 1
  <2>1. \A j \in 1 .. 4 : s[j] \in Byte
    BY ElementOfSeq
  <2> QED
    BY <2>1 DEF Byte
<1>2. Base \in Nat \ {0}
  BY Bases
<1>3. n3 \in Nat /\ n2 \in Nat /\ n1 \in Nat /\ n0 \in Nat
  <2>0. \A x \in Nat, y \in Nat : x + Base * y \in Nat
    BY <1>2
  <2>1. n3 \in Nat /\ s[3] \in Nat /\ s[2] \in Nat /\ s[1] \in Nat
    BY <1>1, <1>2
  <2>2. n2 \in Nat
    BY <2>0, <2>1
  <2>3. n1 \in Nat
    BY <2>0, <2>1, <2>2
  <2>4. n0 \in Nat
    BY <2>0, <2>1, <2>3
  <2> QED
    BY <2>1, <2>2, <2>3, <2>4
<1>4. le32(s) = n0
  <2>2. le16(Slice(s, 2, 4)) = s[3] + Base * s[4]
    BY HighHalf
  <2>3. le32(s) = (s[1] + Base * s[2]) + Base * Base * (s[3] + Base * s[4])
    BY <2>2 DEF le32, le16
  <2> HIDE DEF n2
  <2>4. n1 = s[2] + Base * n2 /\ le32(s) = (s[1] + Base * s[2]) + Base * Base * n2
    BY <2>3 DEF n2
  <2>5. Base * n1 = Base * s[2] + Base * Base * n2
    BY <1>1, <1>2, <1>3
  <2> HIDE DEF n1
  <2>6. s[1] \in Nat /\ Base * s[2] \in Nat /\ Base * Base * n2 \in Nat
    BY <1>1, <1>2, <1>3
  <2> QED
    BY <2>4, <2>5, <2>6
<1>5. /\ n0 = Base * n1 + s[1] /\ n1 = Base * n2 + s[2]
      /\ n2 = Base * n3 + s[3] /\ n3 = Base * 0 + s[4]
  <2>1. \A x \in Nat, y \in Nat : x + Base * y = Base * y + x
    BY <1>2
  <2>2. \A j \in 1 .. 4 : s[j] \in Nat
    BY <1>1, <1>2
  <2>3. n3 = Base * 0 + s[4]
    BY <1>2, <2>2
  <2> QED
    BY <1>3, <2>1, <2>2, <2>3
<1> HIDE DEF n0, n1, n2, n3
<1>6. n0 \div Base = n1 /\ n0 % Base = s[1]
  <2>1. n1 \in Nat /\ s[1] \in 0 .. Base - 1 /\ n0 = Base * n1 + s[1]
    BY <1>1, <1>3, <1>5
  <2> QED
    BY <1>2, <2>1, Division
<1>7. n1 \div Base = n2 /\ n1 % Base = s[2]
  <2>1. n2 \in Nat /\ s[2] \in 0 .. Base - 1 /\ n1 = Base * n2 + s[2]
    BY <1>1, <1>3, <1>5
  <2> QED
    BY <1>2, <2>1, Division
<1>8. n2 \div Base = n3 /\ n2 % Base = s[3]
  <2>1. n3 \in Nat /\ s[3] \in 0 .. Base - 1 /\ n2 = Base * n3 + s[3]
    BY <1>1, <1>3, <1>5
  <2> QED
    BY <1>2, <2>1, Division
<1>9. n3 % Base = s[4]
  <2>1. s[4] \in 0 .. Base - 1 /\ n3 = Base * 0 + s[4] /\ 0 \in Nat
    BY <1>1, <1>5
  <2> QED
    BY <1>2, <2>1, Division
<1>10. \A j \in 1 .. 4 : (n0 \div Place[j]) % Base = s[j]
  <2>1. /\ n0 \div Place[1] = n0 /\ n0 \div Place[2] = n1
        /\ n0 \div Place[3] = n2 /\ n0 \div Place[4] = n3
    BY <1>3, <1>6, <1>7, <1>8, Quotients
  <2> QED
    BY <1>6, <1>7, <1>8, <1>9, <2>1
<1>11. LE(n0, 4) = s
  <2>1. s = [j \in 1 .. 4 |-> s[j]]
    OBVIOUS
  <2> QED
    BY <1>10, <2>1 DEF LE
<1> QED
  BY <1>3, <1>4, <1>11

\* A number that four bytes hold is the value of its digits.
LEMMA FourBack ==
  ASSUME NEW n \in Nat, n < Base * Base * Base * Base
  PROVE  LE(n, 4) \in Seq(Byte) /\ Len(LE(n, 4)) = 4 /\ le32(LE(n, 4)) = n
<1> DEFINE n1 == n \div Base
           n2 == n1 \div Base
           n3 == n2 \div Base
           s == LE(n, 4)
<1>2. Base \in Nat \ {0}
  BY Bases
<1>3. n1 \in Nat /\ n % Base \in 0 .. Base - 1 /\ n = Base * n1 + (n % Base)
  BY <1>2, Divided
<1>4. n2 \in Nat /\ n1 % Base \in 0 .. Base - 1 /\ n1 = Base * n2 + (n1 % Base)
  <2> HIDE DEF n1
  <2> QED
    BY <1>2, <1>3, Divided
<1>5. n3 \in Nat /\ n2 % Base \in 0 .. Base - 1 /\ n2 = Base * n3 + (n2 % Base)
  <2> HIDE DEF n2
  <2> QED
    BY <1>2, <1>4, Divided
<1>6. /\ n \div Place[1] = n /\ n \div Place[2] = n1
      /\ n \div Place[3] = n2 /\ n \div Place[4] = n3
  BY Quotients
<1>6a. (((n \div Base) \div Base) \div Base) = n3
  OBVIOUS
<1> HIDE DEF n1, n2, n3
<1>7. n3 < Base
  <2> SUFFICES ASSUME n3 >= Base
               PROVE  FALSE
    BY <1>2, <1>5
  <2>1. n2 >= Base * n3 /\ Base * n3 >= Base * Base /\ Base * n3 \in Nat
    BY <1>2, <1>5
  <2>2. n2 >= Base * Base /\ Base * Base \in Nat
    BY <1>2, <1>4, <2>1
  <2>3. n1 >= Base * n2 /\ Base * n2 >= Base * (Base * Base) /\ Base * n2 \in Nat
    BY <1>2, <1>4, <2>2
  <2>4. n1 >= Base * (Base * Base) /\ Base * (Base * Base) \in Nat
    BY <1>2, <1>3, <2>2, <2>3
  <2>5. n >= Base * n1 /\ Base * n1 >= Base * (Base * (Base * Base)) /\ Base * n1 \in Nat
    BY <1>2, <1>3, <2>4
  <2>6. Base * (Base * (Base * Base)) = Base * Base * Base * Base
    BY <1>2
  <2>7. Base * (Base * (Base * Base)) \in Nat
    BY <1>2, <2>4
  <2> QED
    BY <2>5, <2>6, <2>7
<1>8. n3 % Base = n3
  BY <1>2, <1>5, <1>7
<1>9. /\ s = [j \in 1 .. 4 |-> (n \div Place[j]) % Base]
      /\ s[1] = n % Base /\ s[2] = n1 % Base /\ s[3] = n2 % Base /\ s[4] = n3
  BY <1>6, <1>8 DEF LE
<1>10. s \in Seq(Byte) /\ Len(s) = 4
  <2>1. \A j \in 1 .. 4 : s[j] \in Byte
    <3>1. s[1] \in Byte /\ s[2] \in Byte /\ s[3] \in Byte /\ s[4] \in Byte
      BY <1>2, <1>3, <1>4, <1>5, <1>7, <1>9 DEF Byte
    <3> QED
      BY <3>1
  <2> DEFINE g(j) == (n \div Place[j]) % Base
  <2>2. s = [j \in 1 .. 4 |-> g(j)]
    BY <1>9
  <2> HIDE DEF g, s
  <2>3. \A j \in 1 .. 4 : g(j) \in Byte
    BY <2>1, <2>2
  <2> QED
    BY <2>2, <2>3
<1> HIDE DEF s
<1>11. le32(s) = (s[1] + Base * s[2]) + Base * Base * (s[3] + Base * s[4])
  <2>2. le16(Slice(s, 2, 4)) = s[3] + Base * s[4]
    BY <1>10, HighHalf
  <2> QED
    BY <1>10, <2>2 DEF le32, le16
<1>12. s[3] + Base * s[4] = n2
  <2>1. Base * n3 \in Nat /\ n2 % Base \in Nat
    BY <1>2, <1>5
  <2> QED
    BY <1>5, <1>9, <2>1
<1>13. le32(s) = (s[1] + Base * s[2]) + Base * Base * n2
  BY <1>11, <1>12
<1>14. Base * n1 = Base * s[2] + Base * Base * n2
  <2>1. Base * n1 = Base * (Base * n2 + s[2]) /\ s[2] \in Nat
    BY <1>2, <1>4, <1>9
  <2> QED
    BY <1>2, <1>4, <2>1
<1> QED
  <2>1. s[1] \in Nat /\ Base * s[2] \in Nat /\ Base * Base * n2 \in Nat
    BY <1>2, <1>3, <1>4, <1>9
  <2>2. n = Base * n1 + s[1]
    BY <1>3, <1>9
  <2>3. le32(s) = n
    BY <1>13, <1>14, <2>1, <2>2
  <2> QED
    BY <1>10, <2>3 DEF s

-----------------------------------------------------------------------------
(***************************************************************************)
(* The bytes of an encryption.                                             *)
(***************************************************************************)

\* The clear byte before the one at m + 1; the first has the project key there.
Clear(key, clear, m) == IF m = 0 THEN key ELSE clear[m]

\* Byte j of an encryption, given the byte two places before it.
EncByte(seed, key, clear, prev, j) ==
  CASE j = 1 -> seed
    [] j = 2 -> XorByte(seed, 2)
    [] j = 3 -> XorByte(seed, key)
    [] OTHER -> XorByte(clear[j - 3], (prev + (IF j - 4 = 0 THEN key ELSE clear[j - 4])) % Base)

\* The recursion of Encrypted, over n bytes.
IsEncryption(f, seed, key, clear, n) ==
  f = [j \in 1 .. n |-> EncByte(seed, key, clear, f[j - 2], j)]

\* The first three bytes do not depend on another.
LEMMA EncByteHead ==
  ASSUME NEW seed, NEW key, NEW clear, NEW p, NEW q, NEW j \in 1 .. 2
  PROVE  EncByte(seed, key, clear, p, j) = EncByte(seed, key, clear, q, j)
<1>1. CASE j = 1
  BY <1>1 DEF EncByte
<1>2. CASE j = 2
  BY <1>2 DEF EncByte
<1> QED
  BY <1>1, <1>2

\* The recursion defines a function, of every length.
LEMMA EncryptionExists ==
  ASSUME NEW seed, NEW key, NEW clear
  PROVE  \A n \in Nat : \E f : IsEncryption(f, seed, key, clear, n)
<1> DEFINE Is(f, n) == IsEncryption(f, seed, key, clear, n)
           At(prev, j) == EncByte(seed, key, clear, prev, j)
           Bad == {n \in Nat : ~ \E f : Is(f, n)}
<1>0. \A f, n : Is(f, n) <=> f = [j \in 1 .. n |-> At(f[j - 2], j)]
  BY DEF IsEncryption
<1>10. \A p, q : \A j \in 1 .. 2 : At(p, j) = At(q, j)
  BY EncByteHead
<1> HIDE DEF Is, At
<1> SUFFICES ASSUME Bad # {}
             PROVE  FALSE
  BY DEF Is
<1>1. PICK n \in Bad : \A y \in Bad : n <= y
  <2>1. Bad \in SUBSET Nat
    OBVIOUS
  <2> HIDE DEF Bad
  <2> QED
    BY <2>1, LeastOf
<1>2. n \in Nat /\ ~ \E f : Is(f, n)
  BY <1>1
<1>3. n # 0
  <2> SUFFICES ASSUME n = 0
               PROVE  \E f : Is(f, n)
    BY <1>2
  <2> DEFINE e == [j \in 1 .. 0 |-> j]
  <2>1. e = [j \in 1 .. 0 |-> At(e[j - 2], j)]
    OBVIOUS
  <2> HIDE DEF e
  <2> QED
    BY <1>0, <2>1
<1>4. n - 1 \in Nat /\ n - 1 \notin Bad
  <2>1. n \in Nat /\ n # 0 /\ \A y \in Bad : n <= y
    BY <1>1, <1>2, <1>3
  <2> HIDE DEF Bad
  <2>2. n - 1 \in Nat /\ ~(n <= n - 1)
    BY <2>1
  <2> QED
    BY <2>1, <2>2
<1>5. PICK f : Is(f, n - 1)
  BY <1>4
<1> DEFINE g == [j \in 1 .. n |-> IF j < n THEN f[j] ELSE At(f[j - 2], j)]
<1>6. \A j \in 1 .. n - 1 : f[j] = At(f[j - 2], j)
  <2>1. f = [j \in 1 .. n - 1 |-> At(f[j - 2], j)]
    BY <1>0, <1>5
  <2> QED
    BY <2>1
<1>7. ASSUME NEW j \in 1 .. n
      PROVE  g[j] = At(g[j - 2], j)
  <2>1. g[j] = At(f[j - 2], j)
    <3>1. CASE j < n
      <4>1. j \in 1 .. n - 1 /\ g[j] = f[j]
        BY <1>2, <3>1
      <4> HIDE DEF g
      <4> QED
        BY <1>6, <4>1
    <3>2. CASE j = n
      <4> QED
        BY <1>2, <3>2
    <3> QED
      BY <1>2, <3>1, <3>2
  <2>2. CASE j <= 2
    <3>1. j \in 1 .. 2
      BY <1>2, <2>2
    <3> HIDE DEF g
    <3> QED
      BY <1>10, <2>1, <3>1
  <2>3. CASE j > 2
    <3>1. j - 2 \in 1 .. n /\ j - 2 < n
      BY <1>2, <2>3
    <3>2. g[j - 2] = f[j - 2]
      BY <3>1
    <3> HIDE DEF g
    <3> QED
      BY <2>1, <3>2
  <2> QED
    BY <1>2, <2>2, <2>3
<1>8. g = [j \in 1 .. n |-> At(g[j - 2], j)]
  <2>1. g = [j \in 1 .. n |-> g[j]]
    OBVIOUS
  <2> HIDE DEF g
  <2> QED
    BY <1>7, <2>1
<1> HIDE DEF g
<1> QED
  BY <1>0, <1>2, <1>8

\* The cipher adds bytes modulo the base.
LEMMA ByteSum ==
  ASSUME NEW a \in Byte, NEW b \in Byte
  PROVE  (a + b) % Base \in Byte
<1>1. Base \in Nat \ {0} /\ a + b \in Nat
  BY Bases DEF Byte
<1>2. \A x \in Nat : x % Base \in 0 .. Base - 1
  BY <1>1
<1> QED
  BY <1>1, <1>2 DEF Byte

\* The exclusive or of two bytes, as it is assumed.
LEMMA XorIs ==
  ASSUME NEW a \in Byte, NEW b \in Byte
  PROVE  XorByte(a, b) \in Byte /\ XorByte(a, b) = XorByte(b, a) /\ XorByte(a, XorByte(a, b)) = b
BY XorAssumption DEF XorAssumption

\* The version is a byte.
LEMMA Two == 2 \in Byte
BY BaseAssumption DEF BaseAssumption, Byte

\* Encrypted satisfies its recursion.
LEMMA EncryptedUnfolds ==
  ASSUME NEW seed, NEW key, NEW clear, Len(clear) \in Nat
  PROVE  LET raw == Encrypted(seed, key, clear)
         IN  raw = [j \in 1 .. Len(clear) + 3 |-> EncByte(seed, key, clear, raw[j - 2], j)]
<1> DEFINE n == Len(clear) + 3
           raw == CHOOSE f : IsEncryption(f, seed, key, clear, n)
<1>1. Encrypted(seed, key, clear) = raw
  BY DEF Encrypted, IsEncryption, EncByte
<1>2. IsEncryption(raw, seed, key, clear, n)
  <2>1. n \in Nat
    OBVIOUS
  <2>2. \E f : IsEncryption(f, seed, key, clear, n)
    <3> HIDE DEF n
    <3> QED
      BY <2>1, EncryptionExists
  <2> QED
    BY <2>2
<1> HIDE DEF raw
<1> QED
  BY <1>1, <1>2 DEF IsEncryption

\* raw is the encryption of clear.
Enciphers(raw, seed, key, clear) ==
  /\ raw \in Seq(Byte) /\ Len(raw) = Len(clear) + 3
  /\ raw[1] = seed /\ raw[2] = XorByte(seed, 2) /\ raw[3] = XorByte(seed, key)
  /\ \A j \in 1 .. Len(clear) :
       raw[j + 3] = XorByte(clear[j], (raw[j + 1] + Clear(key, clear, j - 1)) % Base)

\* What Encrypted returns, byte by byte.
LEMMA EncryptedIs ==
  ASSUME NEW seed \in Byte, NEW key \in Byte, NEW clear \in Seq(Byte)
  PROVE  Enciphers(Encrypted(seed, key, clear), seed, key, clear)
<1> DEFINE n == Len(clear) + 3
           raw == Encrypted(seed, key, clear)
           At(prev, j) == EncByte(seed, key, clear, prev, j)
<1>2. Len(clear) \in Nat /\ n \in Nat /\ n >= 3
  BY LenProperties
<1>4. raw = [j \in 1 .. n |-> At(raw[j - 2], j)]
  BY <1>2, EncryptedUnfolds
<1> HIDE DEF raw
<1>5. \A j \in 1 .. n : raw[j] = At(raw[j - 2], j)
  <2> HIDE DEF At
  <2> QED
    BY <1>4
<1>6. raw[1] = seed /\ raw[2] = XorByte(seed, 2) /\ raw[3] = XorByte(seed, key)
  <2>1. 1 \in 1 .. n /\ 2 \in 1 .. n /\ 3 \in 1 .. n
    BY <1>2
  <2>2. raw[1] = At(raw[1 - 2], 1) /\ raw[2] = At(raw[2 - 2], 2) /\ raw[3] = At(raw[3 - 2], 3)
    BY <1>5, <2>1
  <2>3. \A p : At(p, 1) = seed /\ At(p, 2) = XorByte(seed, 2) /\ At(p, 3) = XorByte(seed, key)
    BY DEF EncByte
  <2> HIDE DEF At
  <2> QED
    BY <2>2, <2>3
<1>7. ASSUME NEW j \in 1 .. Len(clear)
      PROVE  raw[j + 3] = XorByte(clear[j], (raw[j + 1] + Clear(key, clear, j - 1)) % Base)
  <2>1. j + 3 \in 1 .. n /\ (j + 3) - 2 = j + 1 /\ (j + 3) - 3 = j /\ (j + 3) - 4 = j - 1
        /\ j + 3 # 1 /\ j + 3 # 2 /\ j + 3 # 3
    BY <1>2
  <2>2. raw[j + 3] = At(raw[j + 1], j + 3)
    <3> HIDE DEF At
    <3> QED
      BY <1>5, <2>1
  <2>3. At(raw[j + 1], j + 3) = XorByte(clear[j], (raw[j + 1] + Clear(key, clear, j - 1)) % Base)
    BY <2>1 DEF EncByte, Clear
  <2> QED
    BY <2>2, <2>3
<1>8. \A j \in 1 .. n : raw[j] \in Byte
  <2> DEFINE Bad == {j \in 1 .. n : raw[j] \notin Byte}
  <2> SUFFICES ASSUME Bad # {}
               PROVE  FALSE
    OBVIOUS
  <2>1. PICK j \in Bad : \A y \in Bad : j <= y
    <3>1. Bad \in SUBSET Nat
      BY <1>2
    <3> HIDE DEF Bad
    <3> QED
      BY <3>1, LeastOf
  <2>2. j \in Nat /\ 1 <= j /\ j <= n /\ raw[j] \notin Byte
    BY <1>2, <2>1
  <2>3. j # 1 /\ j # 2 /\ j # 3
    <3>1. raw[1] \in Byte /\ raw[2] \in Byte /\ raw[3] \in Byte
      BY <1>6, XorIs, Two
    <3> QED
      BY <2>2, <3>1
  <2>4. j - 2 \in 1 .. n /\ j - 2 < j
    BY <1>2, <2>2, <2>3
  <2>5. raw[j - 2] \in Byte
    <3>1. j - 2 \notin Bad
      BY <2>1, <2>2, <2>4
    <3> QED
      BY <2>4, <3>1
  <2>6. j - 3 \in 1 .. Len(clear) /\ (j - 3) + 3 = j /\ (j - 3) + 1 = j - 2
    BY <1>2, <2>2, <2>3
  <2>7. raw[j] = XorByte(clear[j - 3], (raw[j - 2] + Clear(key, clear, (j - 3) - 1)) % Base)
    BY <1>7, <2>6
  <2>8. clear[j - 3] \in Byte
    BY <2>6, ElementOfSeq
  <2>9. Clear(key, clear, (j - 3) - 1) \in Byte
    <3>1. CASE j = 4
      BY <3>1 DEF Clear
    <3>2. CASE j # 4
      <4>1. (j - 3) - 1 \in 1 .. Len(clear) /\ (j - 3) - 1 # 0
        BY <1>2, <2>2, <2>3, <3>2
      <4> QED
        BY <4>1, ElementOfSeq DEF Clear
    <3> QED
      BY <3>1, <3>2
  <2> QED
    BY <2>2, <2>5, <2>7, <2>8, <2>9, ByteSum, XorIs
<1>9. raw \in Seq(Byte) /\ Len(raw) = n
  <2> HIDE DEF At, n
  <2> QED
    BY <1>2, <1>4, <1>8
<1> QED
  BY <1>6, <1>7, <1>9 DEF Enciphers, raw

\* The equation by which DecryptData computes a byte.
Deciphers(raw, key, clear) ==
  \A j \in 1 .. Len(clear) :
    clear[j] = XorByte(raw[j + 3], (raw[j + 1] + Clear(key, clear, j - 1)) % Base)

\* The clear byte before each byte is a byte.
LEMMA ClearByte ==
  ASSUME NEW key \in Byte, NEW clear \in Seq(Byte), NEW j \in 0 .. Len(clear)
  PROVE  Clear(key, clear, j) \in Byte
<1>1. CASE j = 0
  BY <1>1 DEF Clear
<1>2. CASE j # 0
  <2>1. j \in 1 .. Len(clear)
    BY <1>2, LenProperties
  <2> QED
    BY <1>2, <2>1, ElementOfSeq DEF Clear
<1> QED
  BY <1>1, <1>2

\* What was deciphered gives back, encrypted, the bytes it was read from.
LEMMA Reencrypts ==
  ASSUME NEW raw \in Seq(Byte), NEW clear \in Seq(Byte), Len(clear) + 3 <= Len(raw),
         XorByte(raw[1], raw[2]) = 2, Deciphers(raw, XorByte(raw[1], raw[3]), clear)
  PROVE  Encrypted(raw[1], XorByte(raw[1], raw[3]), clear) = Slice(raw, 0, Len(clear) + 3)
<1> DEFINE key == XorByte(raw[1], raw[3])
           n == Len(clear) + 3
           e == Encrypted(raw[1], key, clear)
           Bad == {j \in 1 .. n : e[j] # raw[j]}
<1>1. Len(raw) \in Nat /\ Len(clear) \in Nat /\ n \in Nat /\ n >= 3 /\ n <= Len(raw)
  BY LenProperties
<1>2. \A j \in 1 .. n : raw[j] \in Byte
  <2>1. \A j \in 1 .. n : j \in 1 .. Len(raw)
    BY <1>1
  <2> QED
    BY <2>1, ElementOfSeq
<1>3. raw[1] \in Byte /\ raw[2] \in Byte /\ raw[3] \in Byte
  BY <1>1, <1>2
<1>4. key \in Byte
  BY <1>3, XorIs
<1>5. /\ e \in Seq(Byte) /\ Len(e) = n
      /\ e[1] = raw[1] /\ e[2] = XorByte(raw[1], 2) /\ e[3] = XorByte(raw[1], key)
      /\ \A j \in 1 .. Len(clear) :
           e[j + 3] = XorByte(clear[j], (e[j + 1] + Clear(key, clear, j - 1)) % Base)
  <2> HIDE DEF key
  <2>1. Enciphers(e, raw[1], key, clear)
    BY <1>3, <1>4, EncryptedIs
  <2> HIDE DEF e
  <2> QED
    BY <2>1 DEF Enciphers
<1>6. e[2] = raw[2] /\ e[3] = raw[3]
  BY <1>3, <1>5, XorIs
<1>7. \A j \in 1 .. Len(clear) :
        clear[j] = XorByte(raw[j + 3], (raw[j + 1] + Clear(key, clear, j - 1)) % Base)
  BY DEF Deciphers
<1> HIDE DEF e, key
<1>8. Bad = {}
  <2> SUFFICES ASSUME Bad # {}
               PROVE  FALSE
    OBVIOUS
  <2>1. PICK j \in Bad : \A y \in Bad : j <= y
    <3>1. Bad \in SUBSET Nat
      BY <1>1
    <3> HIDE DEF Bad
    <3> QED
      BY <3>1, LeastOf
  <2>2. j \in Nat /\ 1 <= j /\ j <= n /\ e[j] # raw[j]
    BY <1>1, <2>1
  <2>3. j # 1 /\ j # 2 /\ j # 3
    BY <1>5, <1>6, <2>2
  <2>4. j - 2 \in 1 .. n /\ ~(j <= j - 2)
    BY <1>1, <2>2, <2>3
  <2>5. e[j - 2] = raw[j - 2]
    BY <2>1, <2>4
  <2>6. j - 3 \in 1 .. Len(clear) /\ (j - 3) + 3 = j /\ (j - 3) + 1 = j - 2
        /\ (j - 3) - 1 \in 0 .. Len(clear)
    BY <1>1, <2>2, <2>3
  <2> DEFINE mask == (raw[j - 2] + Clear(key, clear, (j - 3) - 1)) % Base
  <2>7. mask \in Byte /\ raw[j] \in Byte
    <3>1. Clear(key, clear, (j - 3) - 1) \in Byte
      BY <1>4, <2>6, ClearByte
    <3>2. raw[j - 2] \in Byte
      BY <1>2, <2>4
    <3>3. raw[j] \in Byte
      BY <1>2, <2>1
    <3> QED
      BY <3>1, <3>2, <3>3, ByteSum
  <2>8. clear[j - 3] = XorByte(raw[j], mask)
    BY <1>7, <2>6
  <2>9. e[j] = XorByte(clear[j - 3], mask)
    BY <1>5, <2>5, <2>6
  <2> HIDE DEF mask
  <2>10. XorByte(XorByte(raw[j], mask), mask) = raw[j]
    <3>1. XorByte(raw[j], mask) = XorByte(mask, raw[j]) /\ XorByte(mask, raw[j]) \in Byte
      BY <2>7, XorIs
    <3>2. XorByte(XorByte(mask, raw[j]), mask) = XorByte(mask, XorByte(mask, raw[j]))
      BY <2>7, <3>1, XorIs
    <3> QED
      BY <2>7, <3>1, <3>2, XorIs
  <2> QED
    BY <2>2, <2>8, <2>9, <2>10
<1>9. \A j \in 1 .. n : e[j] = raw[j]
  BY <1>8
<1> DEFINE w == Slice(raw, 0, n)
<1>10. w \in Seq(Byte) /\ Len(w) = n /\ \A j \in 1 .. n : w[j] = raw[j]
  <2>1. 0 \in Nat /\ n \in 0 .. Len(raw) /\ n - 0 = n /\ \A j \in 1 .. n : 0 + j = j
    BY <1>1
  <2>2. /\ w \in Seq(Byte) /\ Len(w) = n - 0
        /\ \A j \in 1 .. n - 0 : w[j] = raw[0 + j]
    <3> HIDE DEF n
    <3> QED
      BY <2>1, SliceIs
  <2> QED
    BY <2>1, <2>2
<1> HIDE DEF w, n
<1>11. e = w
  BY <1>5, <1>9, <1>10, SeqEqual
<1> QED
  BY <1>11 DEF e, w, n, key

\* Deciphering an encryption gives back what went into it, from the first byte on.
LEMMA Decrypts ==
  ASSUME NEW raw \in Seq(Byte), NEW clear \in Seq(Byte), Len(clear) + 3 <= Len(raw),
         NEW key \in Byte, NEW given \in Seq(Byte), raw = Encrypted(raw[1], key, given),
         Deciphers(raw, XorByte(raw[1], raw[3]), clear)
  PROVE  \A j \in 1 .. Len(clear) : clear[j] = given[j]
<1> DEFINE n == Len(clear)
           Bad == {j \in 1 .. n : clear[j] # given[j]}
<1>1. Len(raw) \in Nat /\ n \in Nat /\ Len(given) \in Nat /\ raw[1] \in Byte
  <2>1. Len(raw) \in Nat /\ n \in Nat /\ Len(given) \in Nat
    BY LenProperties
  <2>2. 1 \in 1 .. Len(raw)
    BY <2>1
  <2> QED
    BY <2>1, <2>2, ElementOfSeq
<1>2. /\ Len(raw) = Len(given) + 3 /\ raw[3] = XorByte(raw[1], key)
      /\ \A j \in 1 .. Len(given) :
           raw[j + 3] = XorByte(given[j], (raw[j + 1] + Clear(key, given, j - 1)) % Base)
  <2> DEFINE e == Encrypted(raw[1], key, given)
  <2>1. Enciphers(e, raw[1], key, given)
    BY <1>1, EncryptedIs
  <2>2. e = raw
    OBVIOUS
  <2> HIDE DEF e
  <2> QED
    BY <2>1, <2>2 DEF Enciphers
<1>3. XorByte(raw[1], raw[3]) = key
  BY <1>1, <1>2, XorIs
<1>4. \A j \in 1 .. n :
        clear[j] = XorByte(raw[j + 3], (raw[j + 1] + Clear(key, clear, j - 1)) % Base)
  BY <1>3 DEF Deciphers
<1>5. n <= Len(given)
  BY <1>1, <1>2
<1>6. Bad = {}
  <2> SUFFICES ASSUME Bad # {}
               PROVE  FALSE
    OBVIOUS
  <2>1. PICK j \in Bad : \A y \in Bad : j <= y
    <3>1. Bad \in SUBSET Nat
      BY <1>1
    <3> HIDE DEF Bad
    <3> QED
      BY <3>1, LeastOf
  <2>2. j \in 1 .. n /\ j \in Nat /\ 1 <= j /\ j <= n /\ clear[j] # given[j]
    BY <1>1, <2>1
  <2>3. Clear(key, clear, j - 1) = Clear(key, given, j - 1)
    <3>1. CASE j = 1
      BY <3>1 DEF Clear
    <3>2. CASE j # 1
      <4>1. j - 1 \in 1 .. n /\ ~(j <= j - 1) /\ j - 1 # 0
        BY <1>1, <2>2, <3>2
      <4>2. clear[j - 1] = given[j - 1]
        BY <2>1, <4>1
      <4> QED
        BY <4>1, <4>2 DEF Clear
    <3> QED
      BY <3>1, <3>2
  <2> DEFINE mask == (raw[j + 1] + Clear(key, given, j - 1)) % Base
  <2>4. j \in 1 .. Len(given) /\ j - 1 \in 0 .. Len(given) /\ j + 1 \in 1 .. Len(raw)
    BY <1>1, <1>2, <1>5, <2>2
  <2>5. mask \in Byte /\ given[j] \in Byte
    <3>1. Clear(key, given, j - 1) \in Byte
      BY <2>4, ClearByte
    <3>2. raw[j + 1] \in Byte /\ given[j] \in Byte
      BY <2>4, ElementOfSeq
    <3> QED
      BY <3>1, <3>2, ByteSum
  <2>6. clear[j] = XorByte(raw[j + 3], mask)
    BY <1>4, <2>2, <2>3
  <2>7. raw[j + 3] = XorByte(given[j], mask)
    BY <1>2, <2>4
  <2> HIDE DEF mask
  <2>8. XorByte(XorByte(given[j], mask), mask) = given[j]
    <3>1. XorByte(given[j], mask) = XorByte(mask, given[j]) /\ XorByte(mask, given[j]) \in Byte
      BY <2>5, XorIs
    <3>2. XorByte(XorByte(mask, given[j]), mask) = XorByte(mask, XorByte(mask, given[j]))
      BY <2>5, <3>1, XorIs
    <3> QED
      BY <2>5, <3>1, <3>2, XorIs
  <2> QED
    BY <2>2, <2>6, <2>7, <2>8
<1> QED
  BY <1>6

-----------------------------------------------------------------------------
(***************************************************************************)
(* The inductive invariant: where the three bytes of the cipher stand, and *)
(* that every byte deciphered so far satisfies the equation of the format. *)
(***************************************************************************)

\* The project key, as it follows from the head.
ProjectKey == XorByte(Seed, Raw[3])

\* In the loop of DecryptData.
Reading ==
  /\ HeadFits
  /\ enc.caller = "isProtected" => enc.text = "hex" /\ LengthFits
  /\ decrypted \in Seq(Byte) /\ pos = Len(decrypted) + 3 /\ pos <= Len(Raw)
  /\ unencByte1 = Clear(ProjectKey, decrypted, Len(decrypted))
  /\ encByte1 = Raw[pos] /\ encByte2 = Raw[pos - 1]
  /\ Deciphers(Raw, ProjectKey, decrypted)

\* The inductive invariant.
EncInv ==
  /\ IsRecord(enc)
  /\ verdict \in {"idle", "called", "decrypt"} \cup Results
  /\ verdict = "called" => pos = 0 /\ decrypted = << >>
  /\ verdict = "decrypt" => Reading
  /\ ProtectionRead

\* ProtectionRead, for a result that is about to be returned.
ReadAs(result) ==
  /\ result \in {"clear", "locked", "data"} /\ enc.text = "hex" =>
       /\ Encrypted(Seed, ProjectKey, decrypted) = Slice(Raw, 0, pos)
       /\ Slice(decrypted, Lead - 4, Lead) = LE(Len(out), 4)
       /\ enc.caller = "isProtected" => Len(out) = 4 /\ pos = Len(Raw)
  /\ \A m \in ToSet(enc.made) :
       /\ result # "error"
       /\ result = "data" => out = m.data
       /\ result \in {"clear", "locked"} => (result = "locked" <=> Locked(m.data))

\* ignoredLen is at most three.
LEMMA LeadIs ==
  ASSUME NEW seed \in Byte
  PROVE  ignoredLen(seed) \in 0 .. 3
<1>1. seed \in Nat
  BY Bases DEF Byte
<1>2. seed \div 2 \in Nat
  BY <1>1, Divided
<1>3. (seed \div 2) % 4 \in 0 .. 3
  BY <1>2
<1> QED
  BY <1>3 DEF ignoredLen

\* What a record is, in the terms of the cipher.
LEMMA Heads ==
  ASSUME IsRecord(enc), Reading
  PROVE  /\ Raw \in Seq(Byte) /\ Len(Raw) \in Nat /\ Len(Raw) >= 3
         /\ Raw[1] \in Byte /\ Raw[2] \in Byte /\ Raw[3] \in Byte
         /\ ProjectKey \in Byte /\ XorByte(Raw[1], Raw[2]) = 2
         /\ Lead = ignoredLen(Seed) + 4 /\ Lead \in 4 .. 7 /\ ignoredLen(Seed) \in 0 .. 3
         /\ decrypted \in Seq(Byte) /\ Len(decrypted) \in Nat
         /\ pos = Len(decrypted) + 3 /\ pos <= Len(Raw) /\ pos \in Nat
<1>1. Raw \in Seq(Byte)
  BY DEF IsRecord, Raw
<1>2. decrypted \in Seq(Byte) /\ pos = Len(decrypted) + 3 /\ pos <= Len(Raw)
      /\ Len(Raw) >= 3 /\ XorByte(Raw[1], Raw[2]) = 2
  BY DEF Reading, HeadFits, Seed
<1>3. Len(Raw) \in Nat /\ Len(decrypted) \in Nat /\ pos \in Nat
  <2>1. Len(Raw) \in Nat /\ Len(decrypted) \in Nat
    BY <1>1, <1>2, LenProperties
  <2> QED
    BY <1>2, <2>1
<1>4. Raw[1] \in Byte /\ Raw[2] \in Byte /\ Raw[3] \in Byte
  <2>1. 1 \in 1 .. Len(Raw) /\ 2 \in 1 .. Len(Raw) /\ 3 \in 1 .. Len(Raw)
    BY <1>2, <1>3
  <2> QED
    BY <1>1, <2>1, ElementOfSeq
<1>5. ProjectKey \in Byte
  BY <1>4, XorIs DEF ProjectKey, Seed
<1>6. ignoredLen(Seed) \in 0 .. 3
  BY <1>4, LeadIs DEF Seed
<1>7. Lead = ignoredLen(Seed) + 4 /\ Lead \in 4 .. 7
  BY <1>6 DEF Lead
<1> QED
  BY <1>1, <1>2, <1>3, <1>4, <1>5, <1>6, <1>7

\* The length field, once it is there.
LEMMA LengthField ==
  ASSUME IsRecord(enc), Reading, ~InLead
  PROVE  /\ Slice(decrypted, Lead - 4, Lead) \in Seq(Byte)
         /\ Len(Slice(decrypted, Lead - 4, Lead)) = 4
         /\ \A j \in 1 .. 4 : Slice(decrypted, Lead - 4, Lead)[j] = decrypted[(Lead - 4) + j]
         /\ dataLen \in Nat /\ LE(dataLen, 4) = Slice(decrypted, Lead - 4, Lead)
         /\ out \in Seq(Byte) /\ Len(out) = Len(decrypted) - Lead
         /\ \A j \in 1 .. Len(decrypted) - Lead : out[j] = decrypted[Lead + j]
<1>1. Lead \in 4 .. 7 /\ decrypted \in Seq(Byte) /\ Len(decrypted) \in Nat
  BY Heads
<1>2. Lead <= Len(decrypted)
  BY <1>1 DEF InLead
<1> DEFINE a == Lead
           s == Slice(decrypted, a - 4, a)
<1> HIDE DEF a
<1>3. a \in Nat /\ a - 4 \in Nat /\ a \in a - 4 .. Len(decrypted) /\ a - (a - 4) = 4
      /\ Len(decrypted) \in a .. Len(decrypted)
  BY <1>1, <1>2 DEF a
<1>4. s \in Seq(Byte) /\ Len(s) = 4 /\ \A j \in 1 .. 4 : s[j] = decrypted[(a - 4) + j]
  <2>1. /\ s \in Seq(Byte) /\ Len(s) = a - (a - 4)
        /\ \A j \in 1 .. a - (a - 4) : s[j] = decrypted[(a - 4) + j]
    BY <1>1, <1>3, SliceIs
  <2> HIDE DEF s
  <2> QED
    BY <1>3, <2>1
<1> HIDE DEF s
<1>5. le32(s) \in Nat /\ LE(le32(s), 4) = s
  BY <1>4, FourDigits
<1>6. /\ Slice(decrypted, a, Len(decrypted)) \in Seq(Byte)
      /\ Len(Slice(decrypted, a, Len(decrypted))) = Len(decrypted) - a
      /\ \A j \in 1 .. Len(decrypted) - a :
           Slice(decrypted, a, Len(decrypted))[j] = decrypted[a + j]
  BY <1>1, <1>3, SliceIs
<1> QED
  BY <1>4, <1>5, <1>6 DEF dataLen, out, a, s

\* What is accepted is an encryption of what is returned.
LEMMA AcceptedRead ==
  ASSUME IsRecord(enc), Reading, LengthKept, Len(decrypted) = Goal
  PROVE  /\ ~InLead /\ Len(out) = dataLen /\ Len(decrypted) = Lead + dataLen
         /\ Encrypted(Seed, ProjectKey, decrypted) = Slice(Raw, 0, pos)
         /\ Slice(decrypted, Lead - 4, Lead) = LE(Len(out), 4)
<1>1. ~InLead
  BY Heads DEF Goal, InLead
<1>2. Lead \in Nat /\ dataLen \in Nat
  <2>1. Lead \in 4 .. 7
    BY Heads
  <2>2. dataLen \in Nat
    BY <1>1, LengthField
  <2> QED
    BY <2>1, <2>2
<1>3. Len(decrypted) = Lead + dataLen /\ Len(out) = dataLen
  <2>1. Len(decrypted) = Lead + dataLen
    BY <1>1 DEF Goal
  <2>2. Len(out) = Len(decrypted) - Lead
    BY <1>1, LengthField
  <2> QED
    BY <1>2, <2>1, <2>2
<1>4. Slice(decrypted, Lead - 4, Lead) = LE(Len(out), 4)
  BY <1>1, <1>3, LengthField
<1>5. Encrypted(Seed, ProjectKey, decrypted) = Slice(Raw, 0, pos)
  <2>1. Deciphers(Raw, XorByte(Raw[1], Raw[3]), decrypted)
    BY DEF Reading, ProjectKey, Seed
  <2>2. Encrypted(Raw[1], XorByte(Raw[1], Raw[3]), decrypted) = Slice(Raw, 0, Len(decrypted) + 3)
    BY <2>1, Heads, Reencrypts
  <2> QED
    BY <2>2, Heads DEF ProjectKey, Seed
<1> QED
  BY <1>1, <1>3, <1>4, <1>5

\* Where the parts of a concatenation stand.
LEMMA Joined ==
  ASSUME NEW a \in Seq(Byte), NEW c \in Seq(Byte)
  PROVE  /\ Len(a) \in Nat /\ Len(c) \in Nat
         /\ a \o c \in Seq(Byte) /\ Len(a \o c) = Len(a) + Len(c)
         /\ \A j \in 1 .. Len(a) : (a \o c)[j] = a[j]
         /\ \A j \in 1 .. Len(c) : (a \o c)[Len(a) + j] = c[j]
<1> DEFINE w == a \o c
<1>1. Len(a) \in Nat /\ Len(c) \in Nat
  BY LenProperties
<1>2. /\ w \in Seq(Byte) /\ Len(w) = Len(a) + Len(c)
      /\ \A j \in 1 .. Len(a) + Len(c) : w[j] = IF j <= Len(a) THEN a[j] ELSE c[j - Len(a)]
  BY ConcatProperties
<1> HIDE DEF w
<1>3. \A j \in 1 .. Len(a) : w[j] = a[j]
  BY <1>1, <1>2
<1>4. ASSUME NEW j \in 1 .. Len(c)
      PROVE  w[Len(a) + j] = c[j]
  <2>1. /\ Len(a) + j \in 1 .. Len(a) + Len(c) /\ ~(Len(a) + j <= Len(a))
        /\ (Len(a) + j) - Len(a) = j
    BY <1>1
  <2> QED
    BY <1>2, <2>1
<1> QED
  BY <1>1, <1>2, <1>3, <1>4 DEF w

\* Where the parts of the clear bytes of a structure stand.
LEMMA Parts ==
  ASSUME NEW a \in Seq(Byte), NEW c \in Seq(Byte), NEW d \in Seq(Byte)
  PROVE  /\ Len(a) \in Nat /\ Len(c) \in Nat /\ Len(d) \in Nat
         /\ a \o c \o d \in Seq(Byte) /\ Len(a \o c \o d) = Len(a) + Len(c) + Len(d)
         /\ \A j \in 1 .. Len(c) : (a \o c \o d)[Len(a) + j] = c[j]
         /\ \A j \in 1 .. Len(d) : (a \o c \o d)[Len(a) + Len(c) + j] = d[j]
<1> DEFINE p == a \o c
<1>1. Len(a) \in Nat /\ Len(c) \in Nat /\ Len(d) \in Nat
  BY LenProperties
<1>2. /\ p \in Seq(Byte) /\ Len(p) = Len(a) + Len(c)
      /\ \A j \in 1 .. Len(c) : p[Len(a) + j] = c[j]
  BY Joined
<1> HIDE DEF p
<1>3. /\ p \o d \in Seq(Byte) /\ Len(p \o d) = Len(p) + Len(d)
      /\ \A j \in 1 .. Len(p) : (p \o d)[j] = p[j]
      /\ \A j \in 1 .. Len(d) : (p \o d)[Len(p) + j] = d[j]
  BY <1>2, Joined
<1>4. ASSUME NEW j \in 1 .. Len(c)
      PROVE  (p \o d)[Len(a) + j] = c[j]
  <2>1. Len(a) + j \in 1 .. Len(p)
    BY <1>1, <1>2
  <2> QED
    BY <1>2, <1>3, <2>1
<1> QED
  BY <1>1, <1>2, <1>3, <1>4 DEF p

\* The clear bytes of a structure and where their parts stand.
ClearOf(ignored, data) == ignored \o LE(Len(data), 4) \o data

HasParts(clear, ignored, size, data) ==
  /\ Len(ignored) \in Nat /\ clear \in Seq(Byte) /\ Len(clear) = Len(ignored) + 4 + Len(data)
  /\ \A j \in 1 .. 4 : clear[Len(ignored) + j] = size[j]
  /\ \A j \in 1 .. Len(data) : clear[Len(ignored) + 4 + j] = data[j]
  /\ size \in Seq(Byte) /\ Len(size) = 4 /\ le32(size) = Len(data)

\* The parts of a structure, of any seed.
LEMMA StructureIs ==
  ASSUME NEW raw \in Seq(Byte), NEW key \in Byte, NEW ignored \in Seq(Byte), NEW data \in Seq(Byte),
         Len(data) < Base * Base * Base * Base,
         raw = Structure(raw[1], key, ignored, data)
  PROVE  /\ HasParts(ClearOf(ignored, data), ignored, LE(Len(data), 4), data)
         /\ Len(data) \in Nat /\ raw = Encrypted(raw[1], key, ClearOf(ignored, data))
         /\ Len(raw) = Len(ClearOf(ignored, data)) + 3
         /\ XorByte(raw[1], raw[2]) = 2 /\ raw[1] \in Byte
<1> DEFINE size == LE(Len(data), 4)
           clear == ClearOf(ignored, data)
<1>1. Len(data) \in Nat
  BY LenProperties
<1>2. size \in Seq(Byte) /\ Len(size) = 4 /\ le32(size) = Len(data)
  BY <1>1, FourBack
<1>3. raw = Encrypted(raw[1], key, clear)
  BY DEF Structure, ClearOf
<1>7. clear = ignored \o size \o data
  BY DEF ClearOf
<1> HIDE DEF size, clear
<1>4. /\ Len(ignored) \in Nat /\ clear \in Seq(Byte) /\ Len(clear) = Len(ignored) + 4 + Len(data)
      /\ \A j \in 1 .. 4 : clear[Len(ignored) + j] = size[j]
      /\ \A j \in 1 .. Len(data) : clear[Len(ignored) + 4 + j] = data[j]
  <2>1. /\ Len(ignored) \in Nat /\ clear \in Seq(Byte)
        /\ Len(clear) = Len(ignored) + Len(size) + Len(data)
        /\ \A j \in 1 .. Len(size) : clear[Len(ignored) + j] = size[j]
        /\ \A j \in 1 .. Len(data) : clear[Len(ignored) + Len(size) + j] = data[j]
    <3> DEFINE w == ignored \o size \o data
    <3>1. /\ Len(ignored) \in Nat /\ w \in Seq(Byte)
          /\ Len(w) = Len(ignored) + Len(size) + Len(data)
          /\ \A j \in 1 .. Len(size) : w[Len(ignored) + j] = size[j]
          /\ \A j \in 1 .. Len(data) : w[Len(ignored) + Len(size) + j] = data[j]
      <4>1. size \in Seq(Byte)
        BY <1>2
      <4> QED
        BY <4>1, Parts
    <3>2. w = clear
      BY <1>7
    <3> HIDE DEF w
    <3> QED
      BY <3>1, <3>2
  <2> QED
    BY <1>2, <2>1
<1>5. raw[1] \in Byte
  <2> DEFINE e == Encrypted(raw[1], key, clear)
             n == Len(clear) + 3
             at(j) == EncByte(raw[1], key, clear, e[j - 2], j)
  <2>1. Len(clear) \in Nat
    BY <1>4, LenProperties
  <2>2. e = [j \in 1 .. n |-> at(j)]
    BY <2>1, EncryptedUnfolds
  <2> HIDE DEF at
  <2>3. DOMAIN e = 1 .. n
    BY <2>2
  <2>4. e = raw
    BY <1>3
  <2> HIDE DEF e
  <2>5. 1 \in 1 .. n
    BY <2>1
  <2>6. DOMAIN raw = 1 .. Len(raw)
    BY LenProperties
  <2>7. 1 \in 1 .. Len(raw)
    BY <2>3, <2>4, <2>5, <2>6
  <2> QED
    BY <2>7, ElementOfSeq
<1>6. Len(raw) = Len(clear) + 3 /\ XorByte(raw[1], raw[2]) = 2
  <2> DEFINE e == Encrypted(raw[1], key, clear)
  <2>1. Enciphers(e, raw[1], key, clear)
    BY <1>4, <1>5, EncryptedIs
  <2>2. e = raw
    BY <1>3
  <2> HIDE DEF e
  <2>3. Len(raw) = Len(clear) + 3 /\ raw[2] = XorByte(raw[1], 2)
    BY <2>1, <2>2 DEF Enciphers
  <2> QED
    BY <1>5, <2>3, XorIs, Two
<1> QED
  BY <1>1, <1>2, <1>3, <1>4, <1>5, <1>6 DEF clear, size, HasParts

\* What is known of an input that is an encryption.
LEMMA MadeIs ==
  ASSUME IsRecord(enc), NEW m \in ToSet(enc.made)
  PROVE  /\ enc.text = "hex" /\ (enc.caller = "isProtected" => Len(m.data) = 4)
         /\ m.key \in Byte /\ m.data \in Seq(Byte) /\ m.ignored \in Seq(Byte)
         /\ Len(m.data) < Base * Base * Base * Base
         /\ Raw \in Seq(Byte) /\ Len(m.ignored) = ignoredLen(Raw[1])
         /\ Raw = Structure(Raw[1], m.key, m.ignored, m.data)
BY DEF IsRecord, Raw

\* An encryption has the head and the length that are asked for.
LEMMA MadeFits ==
  ASSUME IsRecord(enc), NEW m \in ToSet(enc.made)
  PROVE  /\ HeadFits /\ Len(m.data) \in Nat /\ ignoredLen(Seed) \in 0 .. 3
         /\ Len(Raw) = 3 + ignoredLen(Seed) + 4 + Len(m.data)
         /\ enc.caller = "isProtected" => LengthFits
<1> DEFINE clear == ClearOf(m.ignored, m.data)
           g == ignoredLen(Seed)
<1>0. Raw[1] = Seed
  BY DEF Seed
<1>1. /\ HasParts(clear, m.ignored, LE(Len(m.data), 4), m.data)
      /\ Len(m.data) \in Nat /\ Len(Raw) = Len(clear) + 3
      /\ XorByte(Raw[1], Raw[2]) = 2 /\ Raw[1] \in Byte
  BY MadeIs, StructureIs
<1> HIDE DEF clear
<1>2. g \in 0 .. 3 /\ Len(m.ignored) = g
  BY <1>0, <1>1, MadeIs, LeadIs
<1> HIDE DEF g
<1>3. Len(Raw) = 3 + g + 4 + Len(m.data) /\ Len(Raw) \in Nat
  <2>1. Len(clear) = Len(m.ignored) + 4 + Len(m.data)
    BY <1>1 DEF HasParts
  <2> DEFINE d == Len(m.data)
             c == Len(clear)
             r == Len(Raw)
  <2>2. c = g + 4 + d /\ d \in Nat /\ r = c + 3 /\ g \in Nat
    BY <1>1, <1>2, <2>1
  <2> HIDE DEF d, c, r
  <2>3. r = 3 + g + 4 + d /\ r \in Nat
    BY <2>2
  <2> QED
    BY <2>3 DEF d, r
<1>4. HeadFits
  <2>1. Len(Raw) >= 3
    BY <1>1, <1>2, <1>3
  <2> QED
    BY <1>0, <1>1, <2>1 DEF HeadFits
<1>5. enc.caller = "isProtected" => LengthFits
  <2>1. enc.caller = "isProtected" => Len(m.data) = 4
    BY MadeIs
  <2>2. Len(m.data) = 4 => Len(Raw) >= 11 /\ Len(Raw) = 3 + g + 4 + 4
    BY <1>2, <1>3
  <2> QED
    BY <2>1, <2>2 DEF LengthFits, g
<1> QED
  BY <1>1, <1>2, <1>3, <1>4, <1>5 DEF g

\* Deciphering an encryption: its length field, once it is read, is the length of
\* the data, and when all is read the data has been found.
LEMMA MadeRead ==
  ASSUME IsRecord(enc), Reading, NEW m \in ToSet(enc.made), ~InLead
  PROVE  /\ dataLen = Len(m.data)
         /\ Len(decrypted) = Lead + Len(m.data) => out = m.data
<1> DEFINE size == LE(Len(m.data), 4)
           clear == ClearOf(m.ignored, m.data)
           s == Slice(decrypted, Lead - 4, Lead)
<1>0. /\ m.key \in Byte /\ m.data \in Seq(Byte) /\ m.ignored \in Seq(Byte) /\ Raw \in Seq(Byte)
      /\ Len(m.ignored) = ignoredLen(Raw[1])
  BY MadeIs
<1>1. /\ clear \in Seq(Byte) /\ Len(m.ignored) \in Nat /\ Len(m.data) \in Nat
      /\ Len(clear) = Len(m.ignored) + 4 + Len(m.data)
      /\ \A j \in 1 .. 4 : clear[Len(m.ignored) + j] = size[j]
      /\ \A j \in 1 .. Len(m.data) : clear[Len(m.ignored) + 4 + j] = m.data[j]
      /\ Raw = Encrypted(Raw[1], m.key, clear)
      /\ size \in Seq(Byte) /\ Len(size) = 4 /\ le32(size) = Len(m.data)
  <2>1. HasParts(clear, m.ignored, size, m.data) /\ Len(m.data) \in Nat
        /\ Raw = Encrypted(Raw[1], m.key, clear)
    BY MadeIs, StructureIs
  <2> HIDE DEF clear, size
  <2> QED
    BY <2>1 DEF HasParts
<1> HIDE DEF clear, size
<1>2. decrypted \in Seq(Byte) /\ Len(decrypted) + 3 <= Len(Raw) /\ Len(decrypted) \in Nat
      /\ Lead \in 4 .. 7 /\ Lead = Len(m.ignored) + 4
      /\ Len(m.ignored) \in Nat /\ Len(m.data) \in Nat
  BY <1>0, <1>1, Heads DEF Seed
<1>3. \A j \in 1 .. Len(decrypted) : decrypted[j] = clear[j]
  <2>1. Deciphers(Raw, XorByte(Raw[1], Raw[3]), decrypted)
    BY DEF Reading, ProjectKey, Seed
  <2>2. decrypted \in Seq(Byte) /\ Len(decrypted) + 3 <= Len(Raw)
    BY <1>2
  <2>3. Raw \in Seq(Byte) /\ m.key \in Byte
    BY <1>0
  <2>4. clear \in Seq(Byte) /\ Raw = Encrypted(Raw[1], m.key, clear)
    BY <1>1
  <2> QED
    BY <2>1, <2>2, <2>3, <2>4, Decrypts
<1>4. Lead <= Len(decrypted)
  BY <1>2 DEF InLead
<1>5. s \in Seq(Byte) /\ Len(s) = 4 /\ \A j \in 1 .. 4 : s[j] = decrypted[(Lead - 4) + j]
  BY LengthField
<1> HIDE DEF s
<1>6. s = size
  <2>1. ASSUME NEW j \in 1 .. 4
        PROVE  s[j] = size[j]
    <3>1. (Lead - 4) + j = Len(m.ignored) + j /\ Len(m.ignored) + j \in 1 .. Len(decrypted)
      BY <1>1, <1>2, <1>4
    <3>2. decrypted[(Lead - 4) + j] = clear[Len(m.ignored) + j]
      BY <1>3, <3>1
    <3>3. s[j] = decrypted[(Lead - 4) + j]
      BY <1>5
    <3>4. clear[Len(m.ignored) + j] = size[j]
      BY <1>1
    <3> QED
      BY <3>2, <3>3, <3>4
  <2> QED
    BY <1>1, <1>5, <2>1, SeqEqual
<1>7. dataLen = Len(m.data)
  BY <1>1, <1>6 DEF dataLen, s
<1>8. ASSUME Len(decrypted) = Lead + Len(m.data)
      PROVE  out = m.data
  <2>1. /\ out \in Seq(Byte) /\ Len(out) = Len(decrypted) - Lead
        /\ \A j \in 1 .. Len(decrypted) - Lead : out[j] = decrypted[Lead + j]
    BY LengthField
  <2>2. Len(out) = Len(m.data) /\ Len(decrypted) - Lead = Len(m.data)
    BY <1>1, <1>2, <1>8, <2>1
  <2>3. ASSUME NEW j \in 1 .. Len(m.data)
        PROVE  out[j] = m.data[j]
    <3>0. j \in Nat /\ 1 <= j /\ j <= Len(m.data)
      BY <1>2
    <3>1. Lead + j \in 1 .. Len(decrypted) /\ Lead + j = Len(m.ignored) + 4 + j
      <4> DEFINE a == Lead
                 c == Len(decrypted)
                 d == Len(m.data)
                 g == Len(m.ignored)
      <4>1. a \in Nat /\ g \in Nat /\ d \in Nat /\ c = a + d /\ a = g + 4 /\ j <= d
        BY <1>2, <1>8, <3>0
      <4> HIDE DEF a, c, d, g
      <4>2. a + j \in 1 .. c /\ a + j = g + 4 + j
        BY <3>0, <4>1
      <4> QED
        BY <4>2 DEF a, c, d, g
    <3>2. decrypted[Lead + j] = clear[Len(m.ignored) + 4 + j]
      BY <1>3, <3>1
    <3>3. out[j] = decrypted[Lead + j]
      BY <2>1, <2>2
    <3>4. clear[Len(m.ignored) + 4 + j] = m.data[j]
      BY <1>1
    <3> QED
      BY <3>2, <3>3, <3>4
  <2> QED
    BY <1>0, <2>1, <2>2, <2>3, SeqEqual
<1> QED
  BY <1>7, <1>8

-----------------------------------------------------------------------------
(***************************************************************************)
(* The steps.                                                              *)
(***************************************************************************)

\* A step that leaves the input and the cipher as they are keeps what is said of them.
LEMMA CipherKept ==
  ASSUME UNCHANGED << enc, pos, cipher, decrypted >>
  PROVE  /\ Raw' = Raw /\ Seed' = Seed /\ Lead' = Lead /\ out' = out /\ ProjectKey' = ProjectKey
         /\ (IsRecord(enc))' = IsRecord(enc)
<1>1. enc' = enc /\ decrypted' = decrypted
  OBVIOUS
<1>2. Raw' = Raw
  BY <1>1 DEF Raw
<1>3. Seed' = Seed
  BY <1>2 DEF Seed
<1>4. Lead' = Lead
  BY <1>3 DEF Lead
<1>5. out' = out
  BY <1>1, <1>4 DEF out
<1>6. ProjectKey' = ProjectKey
  BY <1>2, <1>3 DEF ProjectKey
<1> QED
  BY <1>1, <1>2, <1>3, <1>4, <1>5, <1>6

\* A return keeps the invariant if what it returns is right.
LEMMA ReturnKeeps ==
  ASSUME IsRecord(enc), NEW result \in Results, Returns(result), ReadAs(result)
  PROVE  EncInv'
<1>1. UNCHANGED << enc, pos, cipher, decrypted >> /\ verdict' = result
  BY DEF Returns
<1>2. /\ Raw' = Raw /\ Seed' = Seed /\ Lead' = Lead /\ out' = out /\ ProjectKey' = ProjectKey
      /\ (IsRecord(enc))' /\ enc' = enc /\ decrypted' = decrypted /\ pos' = pos
  BY <1>1, CipherKept
<1>3. ProtectionRead'
  BY <1>1, <1>2 DEF ProtectionRead, ReadAs, ProjectKey
<1>4. /\ result # "called" /\ result # "decrypt"
      /\ result \in {"idle", "called", "decrypt"} \cup Results
  BY DEF Results
<1> QED
  BY <1>1, <1>2, <1>3, <1>4 DEF EncInv

\* The refusals of isProtected and of the head of the input.
LEMMA RefusalKeeps ==
  ASSUME EncInv, NoRecord \/ NotHex \/ BadLength \/ BadHead
  PROVE  EncInv'
<1>0. IsRecord(enc) /\ "error" \in Results /\ "clear" \in Results
  BY DEF EncInv, Results
<1>1. CASE NoRecord
  <2>1. enc.text = "empty" /\ Returns("clear")
    BY <1>1 DEF NoRecord, Guarded
  <2>2. \A m \in ToSet(enc.made) : FALSE
    BY <1>0, <2>1, MadeIs
  <2>3. ReadAs("clear")
    BY <2>1, <2>2 DEF ReadAs
  <2> QED
    BY <1>0, <2>1, <2>3, ReturnKeeps
<1>2. CASE NotHex
  <2>1. enc.text = "other" /\ Returns("error")
    BY <1>2 DEF NotHex, Guarded
  <2>2. \A m \in ToSet(enc.made) : FALSE
    BY <1>0, <2>1, MadeIs
  <2>3. ReadAs("error")
    BY <2>1, <2>2 DEF ReadAs
  <2> QED
    BY <1>0, <2>1, <2>3, ReturnKeeps
<1>3. CASE BadLength
  <2>1. enc.caller = "isProtected" /\ ~LengthFits /\ Returns("error")
    BY <1>3 DEF BadLength, Guarded
  <2>2. \A m \in ToSet(enc.made) : FALSE
    BY <1>0, <2>1, MadeFits
  <2>3. ReadAs("error")
    BY <2>2 DEF ReadAs
  <2> QED
    BY <1>0, <2>1, <2>3, ReturnKeeps
<1>4. CASE BadHead
  <2>1. ~HeadFits /\ Returns("error")
    BY <1>4 DEF BadHead
  <2>2. \A m \in ToSet(enc.made) : FALSE
    BY <1>0, <2>1, MadeFits
  <2>3. ReadAs("error")
    BY <2>2 DEF ReadAs
  <2> QED
    BY <1>0, <2>1, <2>3, ReturnKeeps
<1> QED
  BY <1>1, <1>2, <1>3, <1>4

\* The cipher starts with the three bytes of the head.
LEMMA BeginKeeps ==
  ASSUME EncInv, Begin
  PROVE  EncInv'
<1>1. /\ verdict = "called" /\ HeadFits /\ decrypted = << >>
      /\ enc.caller = "isProtected" => enc.text = "hex" /\ LengthFits
      /\ verdict' = "decrypt" /\ pos' = 3 /\ unencByte1' = ProjectKey
      /\ encByte1' = Raw[3] /\ encByte2' = Raw[2] /\ enc' = enc /\ decrypted' = decrypted
  BY DEF EncInv, Begin, Entered, ProjectKey
<1>2. Raw' = Raw /\ Seed' = Seed /\ IsRecord(enc)' /\ ProjectKey' = ProjectKey
  <2>1. Raw' = Raw
    BY <1>1 DEF Raw
  <2>2. Seed' = Seed
    BY <2>1 DEF Seed
  <2>3. IsRecord(enc)'
    BY <1>1 DEF EncInv
  <2> QED
    BY <2>1, <2>2, <2>3 DEF ProjectKey
<1>3. HeadFits' /\ LengthFits' = LengthFits
  BY <1>1, <1>2 DEF HeadFits, LengthFits
<1>4. /\ decrypted' \in Seq(Byte) /\ pos' = Len(decrypted') + 3 /\ pos' <= Len(Raw')
      /\ encByte1' = Raw'[pos'] /\ encByte2' = Raw'[pos' - 1]
      /\ Len(decrypted') = 0
  <2>1. Len(Raw) >= 3
    BY <1>1 DEF HeadFits
  <2>2. decrypted' = << >> /\ Len(decrypted') = 0 /\ decrypted' \in Seq(Byte)
    BY <1>1
  <2>3. pos' = Len(decrypted') + 3 /\ pos' - 1 = 2
    BY <1>1, <2>2
  <2> QED
    BY <1>1, <1>2, <2>1, <2>2, <2>3
<1>5. unencByte1' = Clear(ProjectKey', decrypted', Len(decrypted'))
  BY <1>1, <1>2, <1>4 DEF Clear
<1>6. Deciphers(Raw', ProjectKey', decrypted')
  BY <1>4 DEF Deciphers
<1>7. Reading'
  BY <1>1, <1>3, <1>4, <1>5, <1>6 DEF Reading
<1>8. ProtectionRead'
  BY <1>1 DEF ProtectionRead
<1> QED
  BY <1>1, <1>2, <1>7, <1>8 DEF EncInv

\* One more byte: the equation holds of it too.
LEMMA DecryptNextKeeps ==
  ASSUME EncInv, DecryptNext
  PROVE  EncInv'
<1> DEFINE n == Len(decrypted)
<1>1. /\ verdict = "decrypt" /\ verdict' = "decrypt" /\ enc' = enc
      /\ pos < Len(Raw) /\ pos' = pos + 1
      /\ decrypted' = Append(decrypted, Unenc) /\ unencByte1' = Unenc
      /\ encByte2' = encByte1 /\ encByte1' = Raw[pos + 1]
  BY DEF DecryptNext, Wanted
<1>2. IsRecord(enc) /\ Reading
  BY <1>1 DEF EncInv
<1>3. Raw' = Raw /\ Seed' = Seed /\ IsRecord(enc)' /\ ProjectKey' = ProjectKey
  <2>1. Raw' = Raw
    BY <1>1 DEF Raw
  <2>2. Seed' = Seed
    BY <2>1 DEF Seed
  <2>3. IsRecord(enc)'
    BY <1>1, <1>2
  <2> QED
    BY <2>1, <2>2, <2>3 DEF ProjectKey
<1>4. /\ Raw \in Seq(Byte) /\ Len(Raw) \in Nat /\ ProjectKey \in Byte
      /\ decrypted \in Seq(Byte) /\ n \in Nat /\ pos = n + 3 /\ pos \in Nat
  BY <1>2, Heads
<1>5. /\ unencByte1 = Clear(ProjectKey, decrypted, n)
      /\ encByte1 = Raw[pos] /\ encByte2 = Raw[pos - 1]
      /\ Deciphers(Raw, ProjectKey, decrypted)
  BY <1>2 DEF Reading
<1>6. Unenc = XorByte(Raw[n + 4], (Raw[n + 2] + Clear(ProjectKey, decrypted, n)) % Base)
  <2>1. pos + 1 = n + 4 /\ pos - 1 = n + 2
    BY <1>4
  <2> QED
    BY <1>5, <2>1 DEF Unenc
<1>7. Unenc \in Byte
  <2>1. n + 4 \in 1 .. Len(Raw) /\ n + 2 \in 1 .. Len(Raw) /\ n \in 0 .. Len(decrypted)
    BY <1>1, <1>4
  <2>2. Raw[n + 4] \in Byte /\ Raw[n + 2] \in Byte
    BY <1>4, <2>1, ElementOfSeq
  <2>3. Clear(ProjectKey, decrypted, n) \in Byte
    BY <1>4, <2>1, ClearByte
  <2> QED
    BY <1>6, <2>2, <2>3, ByteSum, XorIs
<1> DEFINE u == Unenc
           next == Append(decrypted, u)
<1> HIDE DEF u
<1>8. /\ next \in Seq(Byte) /\ Len(next) = n + 1 /\ next[n + 1] = u
      /\ \A j \in 1 .. n : next[j] = decrypted[j]
  <2>1. u \in Byte
    BY <1>7 DEF u
  <2> QED
    BY <1>4, <2>1, AppendProperties
<1>9. decrypted' = next /\ unencByte1' = u
  BY <1>1 DEF u
<1> HIDE DEF next
<1>10. \A j \in 0 .. n : Clear(ProjectKey, next, j) = Clear(ProjectKey, decrypted, j)
  <2> SUFFICES ASSUME NEW j \in 0 .. n
               PROVE  Clear(ProjectKey, next, j) = Clear(ProjectKey, decrypted, j)
    OBVIOUS
  <2>1. CASE j = 0
    BY <2>1 DEF Clear
  <2>2. CASE j # 0
    <3>1. j \in 1 .. n
      BY <1>4, <2>2
    <3> QED
      BY <1>8, <2>2, <3>1 DEF Clear
  <2> QED
    BY <2>1, <2>2
<1>11. ASSUME NEW j \in 1 .. n + 1
       PROVE  next[j] = XorByte(Raw[j + 3], (Raw[j + 1] + Clear(ProjectKey, next, j - 1)) % Base)
  <2>1. CASE j \in 1 .. n
    <3>1. decrypted[j]
            = XorByte(Raw[j + 3], (Raw[j + 1] + Clear(ProjectKey, decrypted, j - 1)) % Base)
      BY <1>5, <2>1 DEF Deciphers
    <3>2. j - 1 \in 0 .. n
      BY <1>4, <2>1
    <3> QED
      BY <1>8, <1>10, <2>1, <3>1, <3>2
  <2>2. CASE j = n + 1
    <3>1. j + 3 = n + 4 /\ j + 1 = n + 2 /\ j - 1 = n /\ n \in 0 .. n
      BY <1>4, <2>2
    <3>2. u = XorByte(Raw[n + 4], (Raw[n + 2] + Clear(ProjectKey, decrypted, n)) % Base)
      BY <1>6 DEF u
    <3> QED
      BY <1>8, <1>10, <2>2, <3>1, <3>2
  <2> QED
    BY <1>4, <2>1, <2>2
<1>12. Deciphers(Raw', ProjectKey', decrypted')
  <2>1. Len(next) = n + 1
    BY <1>8
  <2> QED
    BY <1>3, <1>9, <1>11, <2>1 DEF Deciphers
<1>13. unencByte1' = Clear(ProjectKey', decrypted', Len(decrypted'))
  <2>1. n + 1 # 0
    BY <1>4
  <2> QED
    BY <1>3, <1>8, <1>9, <2>1 DEF Clear
<1>14. /\ decrypted' \in Seq(Byte) /\ pos' = Len(decrypted') + 3 /\ pos' <= Len(Raw')
       /\ encByte1' = Raw'[pos'] /\ encByte2' = Raw'[pos' - 1]
  <2>1. pos' = (n + 1) + 3 /\ pos' - 1 = pos /\ pos' <= Len(Raw)
    BY <1>1, <1>4
  <2> QED
    BY <1>1, <1>3, <1>5, <1>8, <1>9, <2>1
<1>15. /\ HeadFits' /\ (enc.caller = "isProtected" => enc.text = "hex" /\ LengthFits)'
  <2>1. HeadFits /\ (enc.caller = "isProtected" => enc.text = "hex" /\ LengthFits)
    BY <1>2 DEF Reading
  <2>2. HeadFits' = HeadFits /\ LengthFits' = LengthFits
    BY <1>3 DEF HeadFits, LengthFits
  <2> QED
    BY <1>1, <2>1, <2>2
<1>16. Reading'
  BY <1>12, <1>13, <1>14, <1>15 DEF Reading
<1>17. ProtectionRead'
  BY <1>1 DEF ProtectionRead
<1> QED
  BY <1>1, <1>3, <1>16, <1>17 DEF EncInv

\* The refusals for the length, and for an input that ends early.
LEMMA ShortKeeps ==
  ASSUME EncInv, EndsEarly \/ Overruns
  PROVE  EncInv'
<1>1. verdict = "decrypt" /\ Returns("error")
  BY DEF EndsEarly, Overruns, Wanted
<1>2. IsRecord(enc) /\ Reading /\ "error" \in Results
  BY <1>1 DEF EncInv, Results
<1>3. ASSUME NEW m \in ToSet(enc.made)
      PROVE  FALSE
  <2> DEFINE n == Len(decrypted)
             a == Lead
             d == Len(m.data)
             r == Len(Raw)
  <2>1. /\ n \in Nat /\ a \in 4 .. 7 /\ d \in Nat /\ r \in Nat
        /\ r = 3 + a + d /\ pos = n + 3 /\ pos <= r
    <3>1. /\ n \in Nat /\ a \in 4 .. 7 /\ r \in Nat /\ pos = n + 3 /\ pos <= r
          /\ a = ignoredLen(Seed) + 4
      BY <1>2, Heads
    <3>2. d \in Nat /\ ignoredLen(Seed) \in 0 .. 3 /\ r = 3 + ignoredLen(Seed) + 4 + d
      BY <1>2, MadeFits
    <3> HIDE DEF n, a, d, r
    <3> QED
      BY <3>1, <3>2
  <2>2. ~InLead => dataLen = d
    BY <1>2, MadeRead
  <2>3. InLead <=> n < a
    BY DEF InLead
  <2>4. CASE EndsEarly
    <3>1. n < Goal /\ pos >= r
      BY <2>4 DEF EndsEarly, Wanted
    <3> HIDE DEF n, a, d, r
    <3>2. n = a + d /\ ~InLead
      BY <2>1, <2>3, <3>1
    <3>3. Goal = a + d
      BY <2>2, <3>2 DEF Goal, a
    <3> QED
      BY <2>1, <3>1, <3>2, <3>3
  <2>5. CASE Overruns
    <3>1. ~InLead /\ ~(dataLen <= r - 3 - a)
      BY <2>5 DEF Overruns, LengthKept
    <3> HIDE DEF n, a, d, r
    <3>2. r - 3 - a = d
      BY <2>1
    <3> QED
      BY <2>1, <2>2, <3>1, <3>2
  <2> QED
    BY <2>4, <2>5
<1>4. ReadAs("error")
  BY <1>3 DEF ReadAs
<1> QED
  BY <1>1, <1>2, <1>4, ReturnKeeps

\* When all is read, an encryption has given back its data.
LEMMA AllRead ==
  ASSUME IsRecord(enc), Reading, LengthKept, Len(decrypted) = Goal, NEW m \in ToSet(enc.made)
  PROVE  out = m.data
<1>1. ~InLead /\ Len(decrypted) = Lead + dataLen
  BY AcceptedRead
<1>2. dataLen = Len(m.data)
  BY <1>1, MadeRead
<1> QED
  BY <1>1, <1>2, MadeRead

\* The results, and the refusal of data that is not of four bytes.
LEMMA ResultKeeps ==
  ASSUME EncInv, DataReturned \/ BadState \/ StateReturned
  PROVE  EncInv'
<1>1. verdict = "decrypt" /\ LengthKept /\ Len(decrypted) = Goal
  BY DEF DataReturned, BadState, StateReturned, Decrypted
<1>2. IsRecord(enc) /\ Reading /\ {"error", "data", "clear", "locked"} \subseteq Results
  BY <1>1 DEF EncInv, Results
<1>3. /\ Encrypted(Seed, ProjectKey, decrypted) = Slice(Raw, 0, pos)
      /\ Slice(decrypted, Lead - 4, Lead) = LE(Len(out), 4)
      /\ Len(out) = dataLen /\ Len(decrypted) = Lead + dataLen
  BY <1>1, <1>2, AcceptedRead
<1>4. \A m \in ToSet(enc.made) : out = m.data
  BY <1>1, <1>2, AllRead
<1>5. CASE DataReturned
  <2>1. enc.caller = "DecryptData" /\ Returns("data")
    BY <1>5 DEF DataReturned, Decrypted
  <2>2. ReadAs("data")
    BY <1>3, <1>4, <2>1 DEF ReadAs
  <2> QED
    BY <1>2, <2>1, <2>2, ReturnKeeps
<1>6. CASE BadState
  <2>1. enc.caller = "isProtected" /\ Len(out) # 4 /\ Returns("error")
    BY <1>6 DEF BadState, Decrypted
  <2>2. \A m \in ToSet(enc.made) : FALSE
    BY <1>2, <1>4, <2>1, MadeIs
  <2>3. ReadAs("error")
    BY <2>2 DEF ReadAs
  <2> QED
    BY <1>2, <2>1, <2>3, ReturnKeeps
<1>7. CASE StateReturned
  <2> DEFINE result == IF Locked(out) THEN "locked" ELSE "clear"
  <2>1. enc.caller = "isProtected" /\ Len(out) = 4 /\ Returns(result)
    BY <1>7 DEF StateReturned, Decrypted
  <2>2. pos = Len(Raw)
    <3>1. LengthFits
      BY <1>2, <2>1 DEF Reading
    <3>2. Len(Raw) = 3 + ignoredLen(Seed) + 4 + 4
      BY <3>1 DEF LengthFits
    <3>3. /\ Lead = ignoredLen(Seed) + 4 /\ ignoredLen(Seed) \in 0 .. 3
          /\ pos = Len(decrypted) + 3
      BY <1>2, Heads
    <3>4. Len(decrypted) = ignoredLen(Seed) + 4 + 4
      BY <1>3, <2>1, <3>3
    <3> QED
      BY <3>2, <3>3, <3>4
  <2>3. result \in {"clear", "locked"} /\ (result = "locked" <=> Locked(out))
    OBVIOUS
  <2> HIDE DEF result
  <2>4. ReadAs(result)
    <3>1. result # "error" /\ result # "data"
      BY <2>3
    <3>2. /\ Encrypted(Seed, ProjectKey, decrypted) = Slice(Raw, 0, pos)
          /\ Slice(decrypted, Lead - 4, Lead) = LE(Len(out), 4)
          /\ enc.caller = "isProtected" => Len(out) = 4 /\ pos = Len(Raw)
      BY <1>3, <2>1, <2>2
    <3>3. \A m \in ToSet(enc.made) : result = "locked" <=> Locked(m.data)
      BY <1>4, <2>3
    <3> QED
      BY <3>1, <3>2, <3>3 DEF ReadAs
  <2>5. result \in Results
    BY <2>3 DEF Results
  <2> QED
    BY <1>2, <2>1, <2>4, <2>5, ReturnKeeps
<1> QED
  BY <1>5, <1>6, <1>7

\* A step that returns nothing and starts nothing.
LEMMA IdleKeeps ==
  ASSUME EncInv, enc' = enc, pos' = pos, decrypted' = decrypted, cipher' = cipher,
         verdict' = verdict \/ verdict' = "idle"
  PROVE  EncInv'
<1>1. /\ unencByte1' = unencByte1 /\ encByte1' = encByte1 /\ encByte2' = encByte2
  BY DEF cipher
<1>2. /\ Raw' = Raw /\ Seed' = Seed /\ Lead' = Lead /\ out' = out /\ ProjectKey' = ProjectKey
      /\ IsRecord(enc)'
  BY CipherKept DEF EncInv
<1>3. CASE verdict' = "idle"
  <2>1. ProtectionRead'
    BY <1>3 DEF ProtectionRead
  <2> QED
    BY <1>2, <1>3, <2>1 DEF EncInv
<1>4. CASE verdict' = verdict
  <2>1. ProtectionRead'
    BY <1>2, <1>4 DEF EncInv, ProtectionRead
  <2>2. HeadFits' = HeadFits /\ LengthFits' = LengthFits
    BY <1>2 DEF HeadFits, LengthFits
  <2>3. verdict = "decrypt" => Reading'
    BY <1>1, <1>2, <2>2 DEF EncInv, Reading
  <2> QED
    BY <1>2, <1>4, <2>1, <2>3 DEF EncInv
<1> QED
  BY <1>3, <1>4

\* An input has not been read.
LEMMA EncInit == Init => EncInv
<1> SUFFICES ASSUME Init
             PROVE  EncInv
  OBVIOUS
<1>1. PICK input \in Inputs : enc = input.record
  BY DEF Init
<1>2. IsRecord(enc)
  BY <1>1, RecordsAssumption DEF RecordsAssumption
<1>3. verdict = "idle"
  BY DEF Init
<1>4. ProtectionRead
  BY <1>3 DEF ProtectionRead
<1> QED
  BY <1>2, <1>3, <1>4 DEF EncInv

\* Every step of Read, and the Read after a Write, keeps the invariant.
LEMMA EncStep == EncInv /\ [Next]_vars => EncInv'
<1> SUFFICES ASSUME EncInv, [Next]_vars
             PROVE  EncInv'
  OBVIOUS
<1>1. CASE Parse
  BY <1>1, IdleKeeps DEF Parse, encVars
<1>2. CASE CallProtection
  <2>1. /\ verdict' = "called" /\ pos' = 0 /\ decrypted' = << >> /\ enc' = enc
    BY <1>2 DEF CallProtection
  <2>2. IsRecord(enc)'
    BY <2>1 DEF EncInv
  <2>3. ProtectionRead'
    BY <2>1 DEF ProtectionRead
  <2> QED
    BY <2>1, <2>2, <2>3 DEF EncInv
<1>3. CASE Protection
  <2>1. EncNext
    BY <1>3 DEF Protection
  <2> QED
    BY <2>1, RefusalKeeps, BeginKeeps, DecryptNextKeeps, ShortKeeps, ResultKeeps DEF EncNext
<1>4. CASE WriteAndRead
  BY <1>4, IdleKeeps DEF WriteAndRead
<1>5. CASE UNCHANGED vars
  BY <1>5, IdleKeeps DEF vars, encVars
<1> QED
  BY <1>1, <1>2, <1>3, <1>4, <1>5 DEF Next

\* The inductive invariant holds of every Read and of the Read after a Write.
THEOREM EncInvariant == FairSpec => []EncInv
BY EncInit, EncStep, PTL DEF FairSpec

\* A protection record is never misread (isProtected, DecryptData): whatever is
\* accepted is an encryption of what was returned, and every encryption is
\* accepted and returned as what went into it.
THEOREM ProtectionReadHolds == FairSpec => []ProtectionRead
<1>1. EncInv => ProtectionRead
  BY DEF EncInv
<1> QED
  BY <1>1, EncInvariant, PTL

-----------------------------------------------------------------------------
(***************************************************************************)
(* Concatenations, grown part by part.                                     *)
(***************************************************************************)

\* The recursion of FlattenSeq, over n parts.
IsFlat(f, parts, n) == f = [j \in 1 .. n |-> IF j = 1 THEN parts[j] ELSE f[j - 1] \o parts[j]]

\* What the recursion says at each place.
LEMMA FlatAt ==
  ASSUME NEW f, NEW parts, NEW n \in Nat, IsFlat(f, parts, n)
  PROVE  \A j \in 1 .. n : f[j] = IF j = 1 THEN parts[j] ELSE f[j - 1] \o parts[j]
<1> DEFINE body(j) == IF j = 1 THEN parts[j] ELSE f[j - 1] \o parts[j]
<1>1. f = [j \in 1 .. n |-> body(j)]
  BY DEF IsFlat
<1> HIDE DEF body
<1>2. \A j \in 1 .. n : f[j] = body(j)
  BY <1>1
<1> QED
  BY <1>2 DEF body

\* The recursion defines a function, of every number of parts.
LEMMA FlatExists ==
  ASSUME NEW parts
  PROVE  \A n \in Nat : \E f : IsFlat(f, parts, n)
<1> DEFINE Bad == {n \in Nat : ~ \E f : IsFlat(f, parts, n)}
<1> SUFFICES ASSUME Bad # {}
             PROVE  FALSE
  OBVIOUS
<1>1. PICK n \in Bad : \A y \in Bad : n <= y
  <2>1. Bad \in SUBSET Nat
    OBVIOUS
  <2> HIDE DEF Bad
  <2> QED
    BY <2>1, LeastOf
<1>2. n \in Nat /\ ~ \E f : IsFlat(f, parts, n)
  BY <1>1
<1>3. n # 0
  <2> SUFFICES ASSUME n = 0
               PROVE  \E f : IsFlat(f, parts, n)
    BY <1>2
  <2> DEFINE e == [j \in 1 .. 0 |-> j]
  <2>1. e = [j \in 1 .. 0 |-> IF j = 1 THEN parts[j] ELSE e[j - 1] \o parts[j]]
    OBVIOUS
  <2> HIDE DEF e
  <2> QED
    BY <2>1 DEF IsFlat
<1>4. n - 1 \in Nat /\ n - 1 \notin Bad
  <2>1. n \in Nat /\ n # 0 /\ \A y \in Bad : n <= y
    BY <1>1, <1>2, <1>3
  <2> HIDE DEF Bad
  <2>2. n - 1 \in Nat /\ ~(n <= n - 1)
    BY <2>1
  <2> QED
    BY <2>1, <2>2
<1>5. PICK f : IsFlat(f, parts, n - 1)
  BY <1>4
<1>6. \A j \in 1 .. n - 1 : f[j] = IF j = 1 THEN parts[j] ELSE f[j - 1] \o parts[j]
  BY <1>4, <1>5, FlatAt
<1> DEFINE last == IF n = 1 THEN parts[n] ELSE f[n - 1] \o parts[n]
           g == [j \in 1 .. n |-> IF j < n THEN f[j] ELSE last]
           body(j) == IF j = 1 THEN parts[j] ELSE g[j - 1] \o parts[j]
<1>7. /\ \A j \in 1 .. n : j < n => g[j] = f[j]
      /\ g[n] = last /\ g = [j \in 1 .. n |-> g[j]]
  <2> HIDE DEF last
  <2> QED
    BY <1>2, <1>3
<1> HIDE DEF g
<1>8. ASSUME NEW j \in 1 .. n
      PROVE  g[j] = body(j)
  <2>1. j # 1 => g[j - 1] = f[j - 1]
    <3>1. j # 1 => j - 1 \in 1 .. n /\ j - 1 < n
      BY <1>2
    <3> QED
      BY <1>7, <3>1
  <2>2. CASE j < n
    <3>1. j \in 1 .. n - 1 /\ g[j] = f[j]
      BY <1>2, <1>7, <2>2
    <3> QED
      BY <1>6, <2>1, <3>1
  <2>3. CASE j = n
    BY <1>7, <2>1, <2>3
  <2> QED
    BY <1>2, <2>2, <2>3
<1>9. g = [j \in 1 .. n |-> body(j)]
  <2> HIDE DEF body
  <2> QED
    BY <1>7, <1>8
<1>10. IsFlat(g, parts, n)
  BY <1>9 DEF IsFlat
<1> QED
  BY <1>2, <1>10

\* The concatenation of the first j parts.
Upto(parts, j) == FlattenSeq([n \in 1 .. j |-> parts[n]])

\* It is the j-th value of the recursion over all parts.
LEMMA UptoIs ==
  ASSUME NEW parts, NEW m \in Nat, NEW f, IsFlat(f, parts, m), NEW j \in 1 .. m
  PROVE  Upto(parts, j) = f[j]
<1> DEFINE seqs == [n \in 1 .. j |-> parts[n]]
           g == CHOOSE h : IsFlat(h, seqs, Len(seqs))
           Bad == {n \in 1 .. j : g[n] # f[n]}
<1>1. j \in Nat /\ j >= 1 /\ Len(seqs) = j /\ \A n \in 1 .. j : seqs[n] = parts[n]
  OBVIOUS
<1>2. FlattenSeq(seqs) = g[j]
  BY <1>1 DEF FlattenSeq, IsFlat
<1> HIDE DEF seqs
<1>3. IsFlat(g, seqs, j)
  <2>1. \E h : IsFlat(h, seqs, j)
    BY <1>1, FlatExists
  <2> QED
    BY <1>1, <2>1
<1> HIDE DEF g
<1>4. \A n \in 1 .. j : g[n] = IF n = 1 THEN seqs[n] ELSE g[n - 1] \o seqs[n]
  BY <1>1, <1>3, FlatAt
<1>5. \A n \in 1 .. m : f[n] = IF n = 1 THEN parts[n] ELSE f[n - 1] \o parts[n]
  BY FlatAt
<1>6. Bad = {}
  <2> SUFFICES ASSUME Bad # {}
               PROVE  FALSE
    OBVIOUS
  <2>1. PICK n \in Bad : \A y \in Bad : n <= y
    <3>1. Bad \in SUBSET Nat
      BY <1>1
    <3> HIDE DEF Bad
    <3> QED
      BY <3>1, LeastOf
  <2>2. n \in 1 .. j /\ n \in 1 .. m /\ g[n] # f[n] /\ seqs[n] = parts[n] /\ n \in Nat
    BY <1>1, <2>1
  <2>3. CASE n = 1
    BY <1>4, <1>5, <2>2, <2>3
  <2>4. CASE n # 1
    <3>1. n - 1 \in 1 .. j /\ ~(n <= n - 1)
      BY <1>1, <2>2, <2>4
    <3>2. g[n - 1] = f[n - 1]
      BY <2>1, <3>1
    <3> QED
      BY <1>4, <1>5, <2>2, <2>4, <3>2
  <2> QED
    BY <2>3, <2>4
<1>7. g[j] = f[j]
  <2>1. j \in 1 .. j
    BY <1>1
  <2> QED
    BY <1>6, <2>1
<1> QED
  BY <1>2, <1>7 DEF Upto, seqs

\* Nothing of no part; one part more is its concatenation to those before.
LEMMA Grows ==
  ASSUME NEW S, NEW parts, NEW m \in Nat, \A n \in 1 .. m : parts[n] \in Seq(S)
  PROVE  /\ Upto(parts, 0) = << >>
         /\ \A j \in 0 .. m : Upto(parts, j) \in Seq(S)
         /\ \A j \in 0 .. m - 1 : Upto(parts, j + 1) = Upto(parts, j) \o parts[j + 1]
<1>1. Upto(parts, 0) = << >>
  <2> DEFINE e == [n \in 1 .. 0 |-> parts[n]]
  <2>1. e = << >> /\ Len(e) = 0
    OBVIOUS
  <2> HIDE DEF e
  <2>2. FlattenSeq(e) = e
    BY <2>1 DEF FlattenSeq
  <2> QED
    BY <2>1, <2>2 DEF Upto, e
<1>2. PICK f : IsFlat(f, parts, m)
  BY FlatExists
<1>3. \A n \in 1 .. m : f[n] = IF n = 1 THEN parts[n] ELSE f[n - 1] \o parts[n]
  BY <1>2, FlatAt
<1>4. \A j \in 1 .. m : Upto(parts, j) = f[j]
  BY <1>2, UptoIs
<1> DEFINE W(j) == Upto(parts, j)
<1>5. W(0) = << >> /\ \A j \in 1 .. m : W(j) = f[j]
  BY <1>1, <1>4
<1> HIDE DEF W
<1>6. ASSUME NEW j \in 0 .. m - 1, W(j) \in Seq(S)
      PROVE  W(j + 1) = W(j) \o parts[j + 1]
  <2>1. j + 1 \in 1 .. m /\ (j + 1) - 1 = j
    OBVIOUS
  <2>2. CASE j = 0
    <3>0. j + 1 = 1 /\ 1 \in 1 .. m
      BY <2>1, <2>2
    <3>1. W(j + 1) = parts[j + 1] /\ W(j) = << >>
      <4>1. W(1) = f[1] /\ f[1] = parts[1]
        BY <1>3, <1>5, <3>0
      <4>2. W(j) = << >>
        BY <1>5, <2>2
      <4> QED
        BY <3>0, <4>1, <4>2
    <3>2. parts[j + 1] \in Seq(S)
      BY <2>1
    <3> QED
      BY <3>1, <3>2, ConcatEmptySeq
  <2>3. CASE j # 0
    <3>1. j \in 1 .. m /\ j + 1 # 1
      BY <2>3
    <3> QED
      BY <1>3, <1>5, <2>1, <3>1
  <2> QED
    BY <2>2, <2>3
<1>7. \A j \in 0 .. m : W(j) \in Seq(S)
  <2> DEFINE Bad == {j \in 0 .. m : W(j) \notin Seq(S)}
  <2> SUFFICES ASSUME Bad # {}
               PROVE  FALSE
    OBVIOUS
  <2>1. PICK j \in Bad : \A y \in Bad : j <= y
    <3>1. Bad \in SUBSET Nat
      OBVIOUS
    <3> HIDE DEF Bad
    <3> QED
      BY <3>1, LeastOf
  <2>2. j \in 0 .. m /\ j \in Nat /\ W(j) \notin Seq(S)
    BY <2>1
  <2>3. j # 0
    <3>1. W(0) = << >> /\ << >> \in Seq(S)
      BY <1>5
    <3> QED
      BY <2>2, <3>1
  <2>4. j - 1 \in 0 .. m - 1 /\ j - 1 \in 0 .. m /\ ~(j <= j - 1) /\ (j - 1) + 1 = j /\ j \in 1 .. m
    BY <2>2, <2>3
  <2>5. W(j - 1) \in Seq(S)
    BY <2>1, <2>4
  <2>6. W(j) = W(j - 1) \o parts[j]
    BY <1>6, <2>4, <2>5
  <2>7. parts[j] \in Seq(S)
    BY <2>4
  <2> QED
    BY <2>2, <2>5, <2>6, <2>7, ConcatProperties
<1>8. \A j \in 0 .. m - 1 : W(j + 1) = W(j) \o parts[j + 1]
  <2> SUFFICES ASSUME NEW j \in 0 .. m - 1
               PROVE  W(j + 1) = W(j) \o parts[j + 1]
    OBVIOUS
  <2>1. j \in 0 .. m
    OBVIOUS
  <2> QED
    BY <1>6, <1>7, <2>1
<1> QED
  BY <1>5, <1>7, <1>8 DEF W

\* The parts before are at the front of the whole, each where those before it end.
InPlace(parts, m) ==
  /\ Len(Upto(parts, 0)) = 0
  /\ \A j \in 0 .. m :
       Len(Upto(parts, j)) \in Nat /\ Len(Upto(parts, j)) <= Len(Upto(parts, m))
  /\ \A j \in 0 .. m - 1 :
       /\ Len(Upto(parts, j + 1)) = Len(Upto(parts, j)) + Len(parts[j + 1])
       /\ Len(parts[j + 1]) \in Nat
       /\ \A x \in 1 .. Len(parts[j + 1]) :
            Upto(parts, m)[Len(Upto(parts, j)) + x] = parts[j + 1][x]

\* So are the parts of every concatenation.
LEMMA Placed ==
  ASSUME NEW S, NEW parts, NEW m \in Nat, \A n \in 1 .. m : parts[n] \in Seq(S)
  PROVE  InPlace(parts, m)
<1> DEFINE W(j) == Upto(parts, j)
           Ahead(j, l) == Len(W(j)) <= Len(W(l)) /\ \A x \in 1 .. Len(W(j)) : W(l)[x] = W(j)[x]
<1>1. /\ W(0) = << >> /\ \A j \in 0 .. m : W(j) \in Seq(S)
      /\ \A j \in 0 .. m - 1 : W(j + 1) = W(j) \o parts[j + 1]
  BY Grows
<1> HIDE DEF W
<1>2. \A j \in 0 .. m : Len(W(j)) \in Nat
  BY <1>1, LenProperties
<1>3. ASSUME NEW j \in 0 .. m - 1
      PROVE  LET a == W(j)
                 c == parts[j + 1]
             IN  /\ Len(c) \in Nat /\ Len(W(j + 1)) = Len(a) + Len(c)
                 /\ \A x \in 1 .. Len(a) : W(j + 1)[x] = a[x]
                 /\ \A x \in 1 .. Len(c) : W(j + 1)[Len(a) + x] = c[x]
  <2> DEFINE a == W(j)
             c == parts[j + 1]
             w == a \o c
  <2>1. j \in 0 .. m /\ j + 1 \in 1 .. m
    OBVIOUS
  <2>2. a \in Seq(S) /\ c \in Seq(S) /\ W(j + 1) = w /\ Len(a) \in Nat /\ Len(c) \in Nat
    BY <1>1, <2>1, LenProperties
  <2> HIDE DEF a, c
  <2>3. /\ Len(w) = Len(a) + Len(c)
        /\ \A x \in 1 .. Len(a) + Len(c) : w[x] = IF x <= Len(a) THEN a[x] ELSE c[x - Len(a)]
    BY <2>2, ConcatProperties
  <2> HIDE DEF w
  <2>4. \A x \in 1 .. Len(a) : w[x] = a[x]
    BY <2>2, <2>3
  <2>5. ASSUME NEW x \in 1 .. Len(c)
        PROVE  w[Len(a) + x] = c[x]
    <3>1. /\ Len(a) + x \in 1 .. Len(a) + Len(c) /\ ~(Len(a) + x <= Len(a))
          /\ (Len(a) + x) - Len(a) = x
      BY <2>2
    <3> QED
      BY <2>3, <3>1
  <2> QED
    BY <2>2, <2>3, <2>4, <2>5 DEF a, c
<1>4. ASSUME NEW j \in 0 .. m
      PROVE  Ahead(j, m)
  <2> DEFINE Bad == {l \in j .. m : ~Ahead(j, l)}
  <2>1. Bad = {}
    <3> SUFFICES ASSUME Bad # {}
                 PROVE  FALSE
      OBVIOUS
    <3>1. PICK l \in Bad : \A y \in Bad : l <= y
      <4>1. Bad \in SUBSET Nat
        OBVIOUS
      <4> HIDE DEF Bad
      <4> QED
        BY <4>1, LeastOf
    <3>2. l \in j .. m /\ l \in Nat /\ ~Ahead(j, l)
      BY <3>1
    <3>3. l # j
      <4>1. Ahead(j, j)
        BY <1>2
      <4> HIDE DEF Ahead
      <4> QED
        BY <3>2, <4>1
    <3>4. l - 1 \in j .. m /\ l - 1 \in 0 .. m - 1 /\ l - 1 \in 0 .. m /\ l \in 0 .. m
          /\ ~(l <= l - 1) /\ (l - 1) + 1 = l
      BY <3>2, <3>3
    <3>5. Ahead(j, l - 1)
      <4> HIDE DEF Ahead
      <4> QED
        BY <3>1, <3>4
    <3>6. /\ Len(W(l)) >= Len(W(l - 1)) /\ \A x \in 1 .. Len(W(l - 1)) : W(l)[x] = W(l - 1)[x]
      <4>1. /\ Len(parts[l]) \in Nat /\ Len(W(l)) = Len(W(l - 1)) + Len(parts[l])
            /\ \A x \in 1 .. Len(W(l - 1)) : W(l)[x] = W(l - 1)[x]
        <5> DEFINE p == l - 1
        <5>1. p \in 0 .. m - 1 /\ p + 1 = l
          BY <3>4
        <5> HIDE DEF p
        <5>2. /\ Len(parts[p + 1]) \in Nat /\ Len(W(p + 1)) = Len(W(p)) + Len(parts[p + 1])
              /\ \A x \in 1 .. Len(W(p)) : W(p + 1)[x] = W(p)[x]
          BY <1>3, <5>1
        <5> QED
          BY <5>1, <5>2 DEF p
      <4>2. Len(W(l - 1)) \in Nat
        BY <1>2, <3>4
      <4>3. \A x, y, z : x \in Nat /\ y \in Nat /\ z = x + y => z >= x
        OBVIOUS
      <4>4. Len(W(l)) >= Len(W(l - 1))
        BY <4>1, <4>2, <4>3
      <4> QED
        BY <4>1, <4>4
    <3>7. Len(W(j)) \in Nat /\ Len(W(l - 1)) \in Nat /\ Len(W(l)) \in Nat
      BY <1>2, <3>4
    <3>8. Len(W(j)) <= Len(W(l)) /\ \A x \in 1 .. Len(W(j)) : x \in 1 .. Len(W(l - 1))
      BY <3>5, <3>6, <3>7
    <3>9. \A x \in 1 .. Len(W(j)) : W(l)[x] = W(j)[x]
      BY <3>5, <3>6, <3>8
    <3> QED
      BY <3>2, <3>8, <3>9
  <2>2. m \in j .. m
    OBVIOUS
  <2> HIDE DEF Ahead
  <2> QED
    BY <2>1, <2>2
<1>5. Len(W(0)) = 0
  BY <1>1
<1>6. ASSUME NEW j \in 0 .. m - 1
      PROVE  /\ Len(W(j + 1)) = Len(W(j)) + Len(parts[j + 1]) /\ Len(parts[j + 1]) \in Nat
             /\ \A x \in 1 .. Len(parts[j + 1]) : W(m)[Len(W(j)) + x] = parts[j + 1][x]
  <2>1. /\ Len(parts[j + 1]) \in Nat /\ Len(W(j + 1)) = Len(W(j)) + Len(parts[j + 1])
        /\ \A x \in 1 .. Len(parts[j + 1]) : W(j + 1)[Len(W(j)) + x] = parts[j + 1][x]
    BY <1>3
  <2>2. j \in 0 .. m /\ j + 1 \in 0 .. m
    OBVIOUS
  <2>3. \A x \in 1 .. Len(W(j + 1)) : W(m)[x] = W(j + 1)[x]
    BY <1>4, <2>2
  <2>4. Len(W(j)) \in Nat
    BY <1>2, <2>2
  <2>5. \A x \in 1 .. Len(parts[j + 1]) : Len(W(j)) + x \in 1 .. Len(W(j + 1))
    BY <2>1, <2>4
  <2> QED
    BY <2>1, <2>3, <2>5
<1>7. \A j \in 0 .. m : Len(W(j)) \in Nat /\ Len(W(j)) <= Len(W(m))
  BY <1>2, <1>4
<1> QED
  BY <1>5, <1>6, <1>7 DEF W, InPlace

\* A byte of a part, in the whole.
LEMMA PartAt ==
  ASSUME NEW S, NEW parts, NEW m \in Nat, \A n \in 1 .. m : parts[n] \in Seq(S),
         NEW j \in 0 .. m - 1, NEW x \in 1 .. Len(parts[j + 1])
  PROVE  /\ Len(Upto(parts, j)) \in Nat
         /\ Upto(parts, m)[Len(Upto(parts, j)) + x] = parts[j + 1][x]
<1>1. InPlace(parts, m)
  BY Placed
<1>2. j \in 0 .. m
  OBVIOUS
<1> QED
  BY <1>1, <1>2 DEF InPlace

-----------------------------------------------------------------------------
(***************************************************************************)
(* The bytes of a record.                                                  *)
(***************************************************************************)

\* A number that two bytes hold is the value of its digits.
LEMMA TwoBack ==
  ASSUME NEW n \in Nat, n < Base * Base
  PROVE  LE(n, 2) \in Seq(Byte) /\ Len(LE(n, 2)) = 2 /\ le16(LE(n, 2)) = n
<1> DEFINE q == n \div Base
           s == LE(n, 2)
<1>1. Base \in Nat \ {0}
  BY Bases
<1>2. q \in Nat /\ n % Base \in 0 .. Base - 1 /\ n = Base * q + (n % Base)
  BY <1>1, Divided
<1>3. n \div Place[1] = n /\ n \div Place[2] = q
  BY Quotients
<1> HIDE DEF q
<1>4. q < Base
  <2> SUFFICES ASSUME q >= Base
               PROVE  FALSE
    BY <1>1, <1>2
  <2>1. Base * q >= Base * Base /\ Base * q \in Nat /\ Base * Base \in Nat
    BY <1>1, <1>2
  <2> QED
    BY <1>1, <1>2, <2>1
<1>5. q % Base = q /\ q \in 0 .. Base - 1
  BY <1>1, <1>2, <1>4
<1>6. /\ s = [j \in 1 .. 2 |-> (n \div Place[j]) % Base]
      /\ s[1] = n % Base /\ s[2] = q
  BY <1>3, <1>5 DEF LE
<1>7. s \in Seq(Byte) /\ Len(s) = 2
  <2>1. \A j \in 1 .. 2 : s[j] \in Byte
    <3>1. s[1] \in Byte /\ s[2] \in Byte
      BY <1>2, <1>5, <1>6 DEF Byte
    <3> QED
      BY <3>1
  <2> DEFINE g(j) == (n \div Place[j]) % Base
  <2>2. s = [j \in 1 .. 2 |-> g(j)]
    BY <1>6
  <2> HIDE DEF g, s
  <2>3. \A j \in 1 .. 2 : g(j) \in Byte
    BY <2>1, <2>2
  <2> QED
    BY <2>2, <2>3
<1> HIDE DEF s
<1>8. le16(s) = s[1] + Base * s[2]
  BY <1>7 DEF le16
<1>9. le16(s) = n
  <2>1. Base * q \in Nat /\ n % Base \in Nat
    BY <1>1, <1>2
  <2> QED
    BY <1>2, <1>6, <1>8, <2>1
<1> QED
  BY <1>7, <1>9 DEF s

\* Slices of equal bytes are equal.
LEMMA SliceSame ==
  ASSUME NEW p \in Seq(Byte), NEW b \in Seq(Byte),
         NEW e \in Nat, NEW m \in Nat, NEW n \in m .. Len(b),
         e + n <= Len(p), \A x \in 1 .. n : p[e + x] = b[x]
  PROVE  Slice(p, e + m, e + n) = Slice(b, m, n)
<1>1. Len(p) \in Nat /\ Len(b) \in Nat /\ n \in Nat /\ m <= n
  BY LenProperties
<1>2. e + m \in Nat /\ e + n \in (e + m) .. Len(p) /\ (e + n) - (e + m) = n - m
  BY <1>1
<1> DEFINE s == Slice(p, e + m, e + n)
           t == Slice(b, m, n)
           from == e + m
           to == e + n
<1>3. /\ s \in Seq(Byte) /\ Len(s) = n - m
      /\ \A j \in 1 .. n - m : s[j] = p[(e + m) + j]
  <2> HIDE DEF from, to
  <2>1. from \in Nat /\ to \in from .. Len(p) /\ to - from = n - m
    BY <1>2 DEF from, to
  <2>2. /\ Slice(p, from, to) \in Seq(Byte) /\ Len(Slice(p, from, to)) = to - from
        /\ \A j \in 1 .. to - from : Slice(p, from, to)[j] = p[from + j]
    BY <2>1, SliceIs
  <2> QED
    BY <2>1, <2>2 DEF from, to
<1>4. t \in Seq(Byte) /\ Len(t) = n - m /\ \A j \in 1 .. n - m : t[j] = b[m + j]
  BY SliceIs
<1> HIDE DEF s, t
<1>5. ASSUME NEW j \in 1 .. n - m
      PROVE  s[j] = t[j]
  <2>1. (e + m) + j = e + (m + j) /\ m + j \in 1 .. n
    BY <1>1
  <2>2. p[e + (m + j)] = b[m + j]
    BY <2>1
  <2> QED
    BY <1>3, <1>4, <2>1, <2>2
<1>6. s = t
  BY <1>3, <1>4, <1>5, SeqEqual
<1> QED
  BY <1>6 DEF s, t

\* The parts of a sized record: id, size, payload.
LEMMA SizedBytes ==
  ASSUME NEW id \in 0 .. Base * Base - 1, NEW payload \in Seq(Byte),
         Len(payload) < Base * Base * Base * Base
  PROVE  LET b == sizedRecord(id, payload)
         IN  /\ b \in Seq(Byte) /\ Len(payload) \in Nat /\ Len(b) = 6 + Len(payload)
             /\ le16(Slice(b, 0, 2)) = id /\ le32(Slice(b, 2, 6)) = Len(payload)
             /\ Slice(b, 6, 6 + Len(payload)) = payload
<1> DEFINE a == LE(id, 2)
           c == LE(Len(payload), 4)
           b == a \o c \o payload
<1>1. Len(payload) \in Nat /\ id \in Nat /\ id < Base * Base
  BY LenProperties, Bases
<1>2. a \in Seq(Byte) /\ Len(a) = 2 /\ le16(a) = id
  BY <1>1, TwoBack
<1>3. c \in Seq(Byte) /\ Len(c) = 4 /\ le32(c) = Len(payload)
  BY <1>1, FourBack
<1>4. sizedRecord(id, payload) = b
  BY DEF sizedRecord
<1> HIDE DEF a, c
<1> DEFINE p == a \o c
<1>5. /\ p \in Seq(Byte) /\ Len(p) = 6
      /\ \A j \in 1 .. 2 : p[j] = a[j]
      /\ \A j \in 1 .. 4 : p[2 + j] = c[j]
  <2>1. /\ p \in Seq(Byte) /\ Len(p) = Len(a) + Len(c)
        /\ \A j \in 1 .. Len(a) : p[j] = a[j]
        /\ \A j \in 1 .. Len(c) : p[Len(a) + j] = c[j]
    BY <1>2, <1>3, Joined
  <2> HIDE DEF p
  <2> QED
    BY <1>2, <1>3, <2>1
<1> HIDE DEF p
<1>6. /\ b \in Seq(Byte) /\ Len(b) = 6 + Len(payload)
      /\ \A j \in 1 .. 6 : b[j] = p[j]
      /\ \A j \in 1 .. Len(payload) : b[6 + j] = payload[j]
  <2>1. /\ p \o payload \in Seq(Byte) /\ Len(p \o payload) = Len(p) + Len(payload)
        /\ \A j \in 1 .. Len(p) : (p \o payload)[j] = p[j]
        /\ \A j \in 1 .. Len(payload) : (p \o payload)[Len(p) + j] = payload[j]
    BY <1>5, Joined
  <2>2. b = p \o payload
    BY DEF p
  <2> HIDE DEF b
  <2> QED
    BY <1>5, <2>1, <2>2
<1> HIDE DEF b
<1>7. Slice(b, 0, 2) = a
  <2> DEFINE s == Slice(b, 0, 2)
  <2>1. s \in Seq(Byte) /\ Len(s) = 2 - 0 /\ \A j \in 1 .. 2 - 0 : s[j] = b[0 + j]
    <3>1. 2 \in 0 .. Len(b) /\ 0 \in Nat
      BY <1>1, <1>6
    <3>2. b \in Seq(Byte)
      BY <1>6
    <3> QED
      BY <3>1, <3>2, SliceIs
  <2> HIDE DEF s
  <2>2. \A j \in 1 .. 2 : s[j] = a[j]
    BY <1>5, <1>6, <2>1
  <2>3. Len(s) = Len(a) /\ \A j \in 1 .. Len(s) : s[j] = a[j]
    BY <1>2, <2>1, <2>2
  <2> QED
    BY <1>2, <2>1, <2>3, SeqEqual DEF s
<1>8. Slice(b, 2, 6) = c
  <2> DEFINE s == Slice(b, 2, 6)
  <2>1. s \in Seq(Byte) /\ Len(s) = 6 - 2 /\ \A j \in 1 .. 6 - 2 : s[j] = b[2 + j]
    <3>1. 6 \in 2 .. Len(b) /\ 2 \in Nat
      BY <1>1, <1>6
    <3>2. b \in Seq(Byte)
      BY <1>6
    <3> QED
      BY <3>1, <3>2, SliceIs
  <2> HIDE DEF s
  <2>2. \A j \in 1 .. 4 : s[j] = c[j]
    <3>1. \A j \in 1 .. 4 : 2 + j \in 1 .. 6
      OBVIOUS
    <3> QED
      BY <1>5, <1>6, <2>1, <3>1
  <2>3. Len(s) = Len(c) /\ \A j \in 1 .. Len(s) : s[j] = c[j]
    BY <1>3, <2>1, <2>2
  <2> QED
    BY <1>3, <2>1, <2>3, SeqEqual DEF s
<1>9. Slice(b, 6, 6 + Len(payload)) = payload
  <2> DEFINE n == 6 + Len(payload)
             s == Slice(b, 6, n)
  <2>1. n \in 6 .. Len(b) /\ 6 \in Nat /\ n - 6 = Len(payload)
    BY <1>1, <1>6
  <2>2. s \in Seq(Byte) /\ Len(s) = n - 6 /\ \A j \in 1 .. n - 6 : s[j] = b[6 + j]
    <3> HIDE DEF n
    <3> QED
      BY <1>6, <2>1, SliceIs
  <2> HIDE DEF s, n
  <2>3. Len(s) = Len(payload) /\ \A j \in 1 .. Len(s) : s[j] = payload[j]
    BY <1>6, <2>1, <2>2
  <2>4. s = payload
    BY <2>2, <2>3, SeqEqual
  <2> QED
    BY <2>4 DEF s, n
<1> QED
  BY <1>1, <1>2, <1>3, <1>4, <1>6, <1>7, <1>8, <1>9

\* PROJECTVERSION has its id, and ten bytes.
LEMMA VersionBytes ==
  ASSUME NEW payload \in Seq(Byte), Len(payload) = 10
  PROVE  LET b == LE(Version, 2) \o payload
         IN  b \in Seq(Byte) /\ Len(b) = 12 /\ le16(Slice(b, 0, 2)) = Version
<1> DEFINE a == LE(Version, 2)
           b == a \o payload
<1>1. Version \in Nat /\ Version < Base * Base
  <2>1. Base \in Nat /\ Base >= 8
    BY BaseAssumption DEF BaseAssumption
  <2>2. Base * Base >= 8 * Base /\ Base * Base \in Nat
    BY <2>1
  <2> QED
    BY <2>1, <2>2 DEF Version
<1>2. a \in Seq(Byte) /\ Len(a) = 2 /\ le16(a) = Version
  BY <1>1, TwoBack
<1> HIDE DEF a
<1>3. /\ b \in Seq(Byte) /\ Len(b) = 12 /\ \A j \in 1 .. 2 : b[j] = a[j]
  <2>1. /\ b \in Seq(Byte) /\ Len(b) = Len(a) + Len(payload) /\ \A j \in 1 .. Len(a) : b[j] = a[j]
    BY <1>2, Joined
  <2> HIDE DEF b
  <2> QED
    BY <1>2, <2>1
<1> HIDE DEF b
<1>4. Slice(b, 0, 2) = a
  <2> DEFINE s == Slice(b, 0, 2)
  <2>1. s \in Seq(Byte) /\ Len(s) = 2 - 0 /\ \A j \in 1 .. 2 - 0 : s[j] = b[0 + j]
    <3>1. 2 \in 0 .. Len(b) /\ 0 \in Nat
      BY <1>3
    <3>2. b \in Seq(Byte)
      BY <1>3
    <3> QED
      BY <3>1, <3>2, SliceIs
  <2> HIDE DEF s
  <2>2. \A j \in 1 .. 2 : s[j] = a[j]
    BY <1>3, <2>1
  <2>3. Len(s) = Len(a) /\ \A j \in 1 .. Len(s) : s[j] = a[j]
    BY <1>2, <2>1, <2>2
  <2> QED
    BY <1>2, <2>1, <2>3, SeqEqual DEF s
<1> QED
  BY <1>2, <1>3, <1>4 DEF a, b

-----------------------------------------------------------------------------
(***************************************************************************)
(* The records of a stream.                                                *)
(***************************************************************************)

\* What a record takes in the stream, and what the walk takes of it.
BytesOf(made) == [j \in DOMAIN made |-> Bytes(made[j])]
TakenOf(made) == [j \in DOMAIN made |-> IF made[j].id = Version THEN << >> ELSE << made[j] >>]

RecordSet == [id : 0 .. Base * Base - 1, payload : Seq(Byte)]

\* A record with its bytes.
LEMMA RecordIs ==
  ASSUME NEW d, IsStream(d), NEW j \in 1 .. Len(d.made)
  PROVE  LET r    == d.made[j]
             b    == Bytes(r)
             size == Len(r.payload)
         IN  /\ r \in RecordSet /\ b \in Seq(Byte) /\ size \in Nat
             /\ r.id = Version => Len(b) = 12 /\ le16(Slice(b, 0, 2)) = Version
             /\ r.id # Version =>
                  /\ Len(b) = 6 + size
                  /\ le16(Slice(b, 0, 2)) = r.id /\ le32(Slice(b, 2, 6)) = size
                  /\ Slice(b, 6, 6 + size) = r.payload
<1> DEFINE r == d.made[j]
           size == Len(r.payload)
<1>1. d.made \in Seq(RecordSet) /\ DOMAIN d.made = 1 .. Len(d.made)
  BY LenProperties DEF IsStream, RecordSet
<1>2. r \in RecordSet
  BY <1>1, ElementOfSeq
<1>3. IF r.id = Version THEN size = 10 ELSE size < Base * Base * Base * Base
  BY <1>1 DEF IsStream
<1> HIDE DEF r
<1>4. r.id \in 0 .. Base * Base - 1 /\ r.payload \in Seq(Byte) /\ size \in Nat
  BY <1>2, LenProperties DEF RecordSet
<1>5. CASE r.id = Version
  <2>1. /\ LE(Version, 2) \o r.payload \in Seq(Byte) /\ Len(LE(Version, 2) \o r.payload) = 12
        /\ le16(Slice(LE(Version, 2) \o r.payload, 0, 2)) = Version
    BY <1>3, <1>4, <1>5, VersionBytes
  <2>2. Bytes(r) = LE(Version, 2) \o r.payload
    BY <1>5 DEF Bytes
  <2> QED
    BY <1>2, <1>4, <1>5, <2>1, <2>2 DEF r
<1>6. CASE r.id # Version
  <2>1. Bytes(r) = sizedRecord(r.id, r.payload)
    BY <1>6 DEF Bytes
  <2>2. /\ sizedRecord(r.id, r.payload) \in Seq(Byte)
        /\ Len(sizedRecord(r.id, r.payload)) = 6 + size
        /\ le16(Slice(sizedRecord(r.id, r.payload), 0, 2)) = r.id
        /\ le32(Slice(sizedRecord(r.id, r.payload), 2, 6)) = size
        /\ Slice(sizedRecord(r.id, r.payload), 6, 6 + size) = r.payload
    BY <1>3, <1>4, <1>6, SizedBytes
  <2> QED
    BY <1>2, <1>4, <1>6, <2>1, <2>2 DEF r
<1> QED
  BY <1>5, <1>6

\* The operators of the model, as concatenations.
LEMMA StreamParts ==
  ASSUME NEW d, IsStream(d)
  PROVE  /\ d.made \in Seq(RecordSet) /\ Len(d.made) \in Nat /\ DOMAIN d.made = 1 .. Len(d.made)
         /\ Whole(d.made) = Upto(BytesOf(d.made), Len(d.made))
         /\ \A j \in 0 .. Len(d.made) :
              /\ EndOf(d.made, j) = Len(Upto(BytesOf(d.made), j))
              /\ Sized(SubSeq(d.made, 1, j)) = Upto(TakenOf(d.made), j)
<1> DEFINE made == d.made
<1>1. made \in Seq(RecordSet) /\ Len(made) \in Nat /\ DOMAIN made = 1 .. Len(made)
  BY LenProperties DEF IsStream, RecordSet
<1> HIDE DEF made
<1>2. Whole(made) = Upto(BytesOf(made), Len(made))
  <2>1. [j \in DOMAIN made |-> Bytes(made[j])] = [n \in 1 .. Len(made) |-> BytesOf(made)[n]]
    BY <1>1 DEF BytesOf
  <2> QED
    BY <2>1 DEF Whole, Upto
<1>3. ASSUME NEW j \in 0 .. Len(made)
      PROVE  EndOf(made, j) = Len(Upto(BytesOf(made), j))
  <2>1. [n \in 1 .. j |-> Bytes(made[n])] = [n \in 1 .. j |-> BytesOf(made)[n]]
    BY <1>1 DEF BytesOf
  <2> QED
    BY <2>1 DEF EndOf, Upto
<1>4. ASSUME NEW j \in 0 .. Len(made)
      PROVE  Sized(SubSeq(made, 1, j)) = Upto(TakenOf(made), j)
  <2> DEFINE s == SubSeq(made, 1, j)
             taken(r) == IF r.id = Version THEN << >> ELSE << r >>
  <2>1. s = [n \in 1 .. j |-> made[n]]
    BY <1>1
  <2> HIDE DEF s
  <2>2. DOMAIN s = 1 .. j /\ \A n \in 1 .. j : s[n] = made[n]
    BY <2>1
  <2>3. \A n \in 1 .. j : TakenOf(made)[n] = taken(made[n])
    BY <1>1 DEF TakenOf
  <2> HIDE DEF taken
  <2>4. [n \in DOMAIN s |-> taken(s[n])] = [n \in 1 .. j |-> TakenOf(made)[n]]
    BY <2>2, <2>3
  <2> QED
    BY <2>4 DEF Sized, Upto, taken, s
<1> QED
  BY <1>1, <1>2, <1>3, <1>4 DEF made

\* One record more: where it ends, and what the walk has then.
LEMMA OneMore ==
  ASSUME NEW d, IsStream(d)
  PROVE  /\ EndOf(d.made, 0) = 0 /\ Sized(SubSeq(d.made, 1, 0)) = << >>
         /\ \A j \in 0 .. Len(d.made) :
              EndOf(d.made, j) \in Nat /\ Sized(SubSeq(d.made, 1, j)) \in Seq(RecordSet)
         /\ \A j \in 0 .. Len(d.made) - 1 :
              /\ EndOf(d.made, j + 1) = EndOf(d.made, j) + Len(Bytes(d.made[j + 1]))
              /\ Sized(SubSeq(d.made, 1, j + 1))
                   = IF d.made[j + 1].id = Version THEN Sized(SubSeq(d.made, 1, j))
                     ELSE Append(Sized(SubSeq(d.made, 1, j)), d.made[j + 1])
<1> DEFINE made == d.made
           m == Len(made)
           b == BytesOf(made)
           t == TakenOf(made)
           ends(j) == EndOf(made, j)
           sized(j) == Sized(SubSeq(made, 1, j))
<1>1. /\ made \in Seq(RecordSet) /\ m \in Nat /\ DOMAIN made = 1 .. m
      /\ \A j \in 0 .. m : ends(j) = Len(Upto(b, j)) /\ sized(j) = Upto(t, j)
  BY StreamParts
<1>2. \A j \in 1 .. m : made[j] \in RecordSet /\ b[j] = Bytes(made[j]) /\ b[j] \in Seq(Byte)
  <2> SUFFICES ASSUME NEW j \in 1 .. m
               PROVE  made[j] \in RecordSet /\ b[j] = Bytes(made[j]) /\ b[j] \in Seq(Byte)
    OBVIOUS
  <2>1. made[j] \in RecordSet /\ Bytes(made[j]) \in Seq(Byte)
    BY RecordIs
  <2>2. b[j] = Bytes(made[j])
    BY <1>1 DEF BytesOf
  <2> QED
    BY <2>1, <2>2
<1>3. \A j \in 1 .. m : t[j] = (IF made[j].id = Version THEN << >> ELSE << made[j] >>)
                        /\ t[j] \in Seq(RecordSet)
  <2> SUFFICES ASSUME NEW j \in 1 .. m
               PROVE  t[j] = (IF made[j].id = Version THEN << >> ELSE << made[j] >>)
                      /\ t[j] \in Seq(RecordSet)
    OBVIOUS
  <2>1. t[j] = IF made[j].id = Version THEN << >> ELSE << made[j] >>
    BY <1>1 DEF TakenOf
  <2>2. made[j] \in RecordSet
    BY <1>2
  <2>3. << >> \in Seq(RecordSet) /\ << made[j] >> \in Seq(RecordSet)
    BY <2>2
  <2> QED
    BY <2>1, <2>3
<1> HIDE DEF made, m, b, t, ends, sized
<1>4. /\ Len(Upto(b, 0)) = 0 /\ \A j \in 0 .. m : Len(Upto(b, j)) \in Nat
      /\ \A j \in 0 .. m - 1 : Len(Upto(b, j + 1)) = Len(Upto(b, j)) + Len(b[j + 1])
  <2>1. InPlace(b, m)
    BY <1>1, <1>2, Placed
  <2> QED
    BY <1>1, <2>1 DEF InPlace
<1>5. /\ Upto(t, 0) = << >> /\ \A j \in 0 .. m : Upto(t, j) \in Seq(RecordSet)
      /\ \A j \in 0 .. m - 1 : Upto(t, j + 1) = Upto(t, j) \o t[j + 1]
  BY <1>1, <1>3, Grows
<1>6. ASSUME NEW j \in 0 .. m - 1
      PROVE  /\ ends(j + 1) = ends(j) + Len(Bytes(made[j + 1]))
             /\ sized(j + 1) = IF made[j + 1].id = Version THEN sized(j)
                               ELSE Append(sized(j), made[j + 1])
  <2>1. j \in 0 .. m /\ j + 1 \in 0 .. m /\ j + 1 \in 1 .. m
    BY <1>1
  <2>2. ends(j + 1) = ends(j) + Len(Bytes(made[j + 1]))
    BY <1>1, <1>2, <1>4, <2>1
  <2>3. sized(j + 1) = sized(j) \o t[j + 1] /\ sized(j) \in Seq(RecordSet)
    BY <1>1, <1>5, <2>1
  <2>4. CASE made[j + 1].id = Version
    <3>1. t[j + 1] = << >>
      BY <1>3, <2>1, <2>4
    <3>2. sized(j) \o << >> = sized(j)
      BY <2>3, ConcatEmptySeq
    <3> QED
      BY <2>2, <2>3, <2>4, <3>1, <3>2
  <2>5. CASE made[j + 1].id # Version
    <3>1. t[j + 1] = << made[j + 1] >> /\ made[j + 1] \in RecordSet
      BY <1>2, <1>3, <2>1, <2>5
    <3>2. Append(sized(j), made[j + 1]) = sized(j) \o << made[j + 1] >>
      BY <2>3, <3>1, AppendIsConcat
    <3> QED
      BY <2>2, <2>3, <2>5, <3>1, <3>2
  <2> QED
    BY <2>4, <2>5
<1>7. /\ ends(0) = 0 /\ sized(0) = << >>
      /\ \A j \in 0 .. m : ends(j) \in Nat /\ sized(j) \in Seq(RecordSet)
  <2>1. 0 \in 0 .. m
    BY <1>1
  <2> QED
    BY <1>1, <1>4, <1>5, <2>1
<1> QED
  BY <1>6, <1>7 DEF made, m, ends, sized

\* Records end in their order, the last one at the end of the whole.
LEMMA EndsInOrder ==
  ASSUME NEW d, IsStream(d), NEW l \in 0 .. Len(d.made), NEW j \in 0 .. l
  PROVE  /\ EndOf(d.made, j) <= EndOf(d.made, l)
         /\ EndOf(d.made, Len(d.made)) = Len(Whole(d.made))
<1> DEFINE made == d.made
           b == BytesOf(made)
<1>1. /\ Len(made) \in Nat /\ DOMAIN made = 1 .. Len(made) /\ Whole(made) = Upto(b, Len(made))
      /\ \A x \in 0 .. Len(made) : EndOf(made, x) = Len(Upto(b, x))
  BY StreamParts
<1>2. \A x \in 1 .. Len(made) : b[x] \in Seq(Byte)
  <2> SUFFICES ASSUME NEW x \in 1 .. Len(made)
               PROVE  b[x] \in Seq(Byte)
    OBVIOUS
  <2>1. Bytes(made[x]) \in Seq(Byte)
    BY RecordIs
  <2> QED
    BY <1>1, <2>1 DEF BytesOf
<1> HIDE DEF b
<1>3. l \in Nat /\ l <= Len(made) /\ j \in 0 .. Len(made) /\ Len(made) \in 0 .. Len(made)
  BY <1>1
<1>4. \A x \in 1 .. l : b[x] \in Seq(Byte)
  BY <1>1, <1>2, <1>3
<1>5. \A x \in 0 .. l : Len(Upto(b, x)) <= Len(Upto(b, l))
  BY <1>3, <1>4, Placed DEF InPlace
<1> QED
  BY <1>1, <1>3, <1>5

\* A stream that is whole or cut off is the front of the whole.
LEMMA PlainIs ==
  ASSUME NEW d, IsStream(d), d.kind \in {"whole", "cut"}
  PROVE  /\ d.plain \in Seq(Byte) /\ Len(d.plain) \in Nat /\ Len(Whole(d.made)) \in Nat
         /\ Len(d.plain) <= Len(Whole(d.made))
         /\ \A x \in 1 .. Len(d.plain) : d.plain[x] = Whole(d.made)[x]
<1> DEFINE made == d.made
           w == Whole(made)
           b == BytesOf(made)
           m == Len(made)
<1>1. m \in Nat /\ DOMAIN made = 1 .. m /\ w = Upto(b, m)
  BY StreamParts
<1>2. \A x \in 1 .. m : b[x] \in Seq(Byte)
  <2> SUFFICES ASSUME NEW x \in 1 .. m
               PROVE  b[x] \in Seq(Byte)
    OBVIOUS
  <2>1. Bytes(made[x]) \in Seq(Byte)
    BY RecordIs
  <2> QED
    BY <1>1, <2>1 DEF BytesOf
<1>3. d.plain = w \/ \E n \in 0 .. Len(w) : d.plain = SubSeq(w, 1, n)
  BY DEF IsStream
<1> HIDE DEF made, b, m
<1>4. w \in Seq(Byte) /\ Len(w) \in Nat
  <2>1. m \in 0 .. m
    BY <1>1
  <2>2. w \in Seq(Byte)
    BY <1>1, <1>2, <2>1, Grows
  <2> QED
    BY <2>2, LenProperties
<1> HIDE DEF w
<1>5. CASE d.plain = w
  BY <1>4, <1>5 DEF w, made
<1>6. CASE \E n \in 0 .. Len(w) : d.plain = SubSeq(w, 1, n)
  <2>1. PICK n \in 0 .. Len(w) : d.plain = Slice(w, 0, n)
    BY <1>6 DEF Slice
  <2>2. 0 \in Nat /\ n \in 0 .. Len(w) /\ n - 0 = n /\ n <= Len(w) /\ n \in Nat
    BY <1>4
  <2>3. /\ Slice(w, 0, n) \in Seq(Byte) /\ Len(Slice(w, 0, n)) = n - 0
        /\ \A x \in 1 .. n - 0 : Slice(w, 0, n)[x] = w[0 + x]
    BY <1>4, <2>2, SliceIs
  <2>4. \A x \in 1 .. n : d.plain[x] = w[x]
    BY <2>1, <2>2, <2>3
  <2> QED
    BY <1>4, <2>1, <2>2, <2>3, <2>4 DEF w, made
<1> QED
  BY <1>3, <1>5, <1>6

\* The bytes of a record, as far as there are any.
LEMMA BytesThere ==
  ASSUME NEW d, IsStream(d), d.kind \in {"whole", "cut"}, NEW j \in 0 .. Len(d.made) - 1
  PROVE  LET e == EndOf(d.made, j)
             b == Bytes(d.made[j + 1])
         IN  \A x \in 1 .. Len(b) : e + x <= Len(d.plain) => d.plain[e + x] = b[x]
<1> DEFINE made == d.made
           w == Whole(made)
           b == BytesOf(made)
           e == EndOf(made, j)
           m == Len(made)
<1>1. /\ m \in Nat /\ DOMAIN made = 1 .. m /\ w = Upto(b, m)
      /\ \A x \in 0 .. m : EndOf(made, x) = Len(Upto(b, x))
  BY StreamParts
<1>2. \A x \in 1 .. m : b[x] = Bytes(made[x]) /\ b[x] \in Seq(Byte)
  <2> SUFFICES ASSUME NEW x \in 1 .. m
               PROVE  b[x] = Bytes(made[x]) /\ b[x] \in Seq(Byte)
    OBVIOUS
  <2>1. Bytes(made[x]) \in Seq(Byte)
    BY RecordIs
  <2> QED
    BY <1>1, <2>1 DEF BytesOf
<1>3. /\ Len(d.plain) \in Nat /\ \A x \in 1 .. Len(d.plain) : d.plain[x] = w[x]
  BY PlainIs
<1> HIDE DEF made, w, b, e, m
<1>4. e \in Nat /\ \A x \in 1 .. Len(b[j + 1]) : w[e + x] = b[j + 1][x]
  <2>1. j \in 0 .. m - 1 /\ j \in 0 .. m
    BY <1>1 DEF m, made
  <2>2. m \in Nat /\ \A n \in 1 .. m : b[n] \in Seq(Byte)
    BY <1>1, <1>2
  <2>3. e = Len(Upto(b, j)) /\ w = Upto(b, m)
    BY <1>1, <2>1 DEF e
  <2>4. e \in Nat
    BY <2>1, <2>3, OneMore DEF e, made, m
  <2>5. ASSUME NEW x \in 1 .. Len(b[j + 1])
        PROVE  w[e + x] = b[j + 1][x]
    BY <2>1, <2>2, <2>3, PartAt
  <2> QED
    BY <2>4, <2>5
<1>5. b[j + 1] = Bytes(made[j + 1]) /\ Len(b[j + 1]) \in Nat
  <2>1. j + 1 \in 1 .. m
    BY <1>1 DEF m, made
  <2> QED
    BY <1>2, <2>1, LenProperties
<1>6. ASSUME NEW x \in 1 .. Len(b[j + 1]), e + x <= Len(d.plain)
      PROVE  d.plain[e + x] = b[j + 1][x]
  <2>1. e + x \in 1 .. Len(d.plain)
    BY <1>3, <1>4, <1>5, <1>6
  <2> QED
    BY <1>3, <1>4, <2>1
<1> QED
  BY <1>5, <1>6 DEF made, e

\* What the walk reads where a record starts.
LEMMA RecordThere ==
  ASSUME NEW d, IsStream(d), d.kind \in {"whole", "cut"}, NEW j \in 0 .. Len(d.made) - 1
  PROVE  LET e    == EndOf(d.made, j)
             r    == d.made[j + 1]
             size == Len(r.payload)
             p    == d.plain
         IN  /\ r \in RecordSet /\ size \in Nat /\ e \in Nat /\ Len(p) \in Nat
             /\ r.id = Version => EndOf(d.made, j + 1) = e + 12
             /\ r.id # Version => EndOf(d.made, j + 1) = e + 6 + size
             /\ e + 6 <= Len(p) => le16(Slice(p, e, e + 2)) = r.id
             /\ e + 6 <= Len(p) /\ r.id # Version => le32(Slice(p, e + 2, e + 6)) = size
             /\ e + 6 + size <= Len(p) /\ r.id # Version =>
                  Slice(p, e + 6, e + 6 + size) = r.payload
<1> DEFINE e == EndOf(d.made, j)
           r == d.made[j + 1]
           b == Bytes(r)
           size == Len(r.payload)
           p == d.plain
<1>1. j + 1 \in 1 .. Len(d.made) /\ j \in 0 .. Len(d.made)
  <2>1. Len(d.made) \in Nat
    BY StreamParts
  <2> QED
    BY <2>1
<1>2. /\ r \in RecordSet /\ b \in Seq(Byte) /\ size \in Nat
      /\ r.id = Version => Len(b) = 12 /\ le16(Slice(b, 0, 2)) = Version
      /\ r.id # Version =>
           /\ Len(b) = 6 + size
           /\ le16(Slice(b, 0, 2)) = r.id /\ le32(Slice(b, 2, 6)) = size
           /\ Slice(b, 6, 6 + size) = r.payload
  BY <1>1, RecordIs
<1>3. e \in Nat /\ EndOf(d.made, j + 1) = e + Len(b)
  BY <1>1, OneMore
<1>4. p \in Seq(Byte) /\ \A x \in 1 .. Len(b) : e + x <= Len(p) => p[e + x] = b[x]
  BY BytesThere, PlainIs
<1>5. Len(p) \in Nat /\ Len(b) \in Nat
  BY <1>2, <1>4, LenProperties
<1> HIDE DEF e, r, b, size, p
<1>6. ASSUME NEW m \in Nat, NEW n \in m .. Len(b), e + n <= Len(p)
      PROVE  Slice(p, e + m, e + n) = Slice(b, m, n)
  <2>1. \A x \in 1 .. n : x \in 1 .. Len(b) /\ e + x <= Len(p)
    BY <1>3, <1>5, <1>6
  <2>2. \A x \in 1 .. n : p[e + x] = b[x]
    BY <1>4, <2>1
  <2> QED
    BY <1>2, <1>3, <1>4, <1>6, <2>2, SliceSame
<1>7. Len(b) >= 6
  <2>1. Len(b) = 12 \/ Len(b) = 6 + size
    BY <1>2
  <2>2. size \in Nat /\ Len(b) \in Nat
    BY <1>2, <1>5
  <2>3. \A x, y \in Nat : x = 12 \/ x = 6 + y => x >= 6
    OBVIOUS
  <2> QED
    BY <2>1, <2>2, <2>3
<1>8. e + 6 <= Len(p) => le16(Slice(p, e, e + 2)) = r.id
  <2> SUFFICES ASSUME e + 6 <= Len(p)
               PROVE  le16(Slice(p, e, e + 2)) = r.id
    OBVIOUS
  <2>1. 2 \in 0 .. Len(b) /\ e + 2 <= Len(p) /\ 0 \in Nat /\ e + 0 = e
    BY <1>3, <1>5, <1>7
  <2>2. Slice(p, e + 0, e + 2) = Slice(b, 0, 2)
    BY <1>6, <2>1
  <2> QED
    BY <1>2, <2>1, <2>2
<1>9. e + 6 <= Len(p) /\ r.id # Version => le32(Slice(p, e + 2, e + 6)) = size
  <2> SUFFICES ASSUME e + 6 <= Len(p), r.id # Version
               PROVE  le32(Slice(p, e + 2, e + 6)) = size
    OBVIOUS
  <2>1. 6 \in 2 .. Len(b) /\ 2 \in Nat
    BY <1>5, <1>7
  <2>2. Slice(p, e + 2, e + 6) = Slice(b, 2, 6)
    BY <1>6, <2>1
  <2> QED
    BY <1>2, <2>2
<1>10. e + 6 + size <= Len(p) /\ r.id # Version => Slice(p, e + 6, e + 6 + size) = r.payload
  <2> SUFFICES ASSUME e + 6 + size <= Len(p), r.id # Version
               PROVE  Slice(p, e + 6, e + 6 + size) = r.payload
    OBVIOUS
  <2> DEFINE n == 6 + size
  <2>1. n \in 6 .. Len(b) /\ 6 \in Nat /\ e + n = e + 6 + size
    BY <1>2, <1>3, <1>5
  <2>2. Slice(p, e + 6, e + n) = Slice(b, 6, n)
    <3> HIDE DEF n
    <3> QED
      BY <1>6, <2>1
  <2>3. Slice(b, 6, n) = r.payload
    BY <1>2
  <2> QED
    BY <2>1, <2>2, <2>3
<1>11. /\ r.id = Version => EndOf(d.made, j + 1) = e + 12
       /\ r.id # Version => EndOf(d.made, j + 1) = e + 6 + size
  <2>1. r.id = Version => EndOf(d.made, j + 1) = e + 12
    BY <1>2, <1>3
  <2>2. r.id # Version => Len(b) = 6 + size
    BY <1>2
  <2>3. size \in Nat /\ e \in Nat
    BY <1>2, <1>3
  <2>4. r.id # Version => EndOf(d.made, j + 1) = e + (6 + size)
    BY <1>3, <2>2
  <2>5. e + (6 + size) = e + 6 + size
    BY <2>3
  <2> QED
    BY <2>1, <2>4, <2>5
<1>12. r \in RecordSet /\ size \in Nat /\ e \in Nat /\ Len(p) \in Nat
  BY <1>2, <1>3, <1>5
<1> QED
  BY <1>8, <1>9, <1>10, <1>11, <1>12 DEF e, r, size, p

-----------------------------------------------------------------------------
(***************************************************************************)
(* The inductive invariant of the walk.                                    *)
(***************************************************************************)

\* Records without where they start.
Found(rs) == [j \in DOMAIN rs |-> [id |-> rs[j].id, payload |-> rs[j].payload]]

Numbered == [id : Nat, start : Nat, payload : Seq(Byte)]

\* The walk stands behind record j, beyond the end at most by the fields of a
\* PROJECTVERSION that is cut off.
Behind(j) ==
  /\ i = EndOf(origin.made, j)
  /\ Found(recs) = Sized(SubSeq(origin.made, 1, j))
  /\ i > Len(plain) =>
       j > 0 /\ origin.made[j].id = Version /\ EndOf(origin.made, j - 1) <= Len(plain)

\* The record after j is not there, or not to its last byte.
NoneAfter(j) == j = Len(origin.made) \/ EndOf(origin.made, j + 1) > Len(plain)

\* The first Read, of a stream that is whole or cut off.
FirstRead == before = << >> /\ origin.kind \in {"whole", "cut"}

\* The inductive invariant.
WalkInv ==
  /\ IsStream(origin) /\ k \in Nat \ {0}
  /\ before = << >> => plain = origin.plain
  /\ FirstRead /\ stage = "walk" =>
       recs \in Seq(Numbered) /\ \E j \in 0 .. Len(origin.made) : Behind(j)
  /\ FirstRead /\ stage = "parse" /\ k = 1 =>
       \E j \in 0 .. Len(origin.made) : Behind(j) /\ NoneAfter(j)

\* One record found more.
LEMMA FoundMore ==
  ASSUME NEW rs \in Seq(Numbered), NEW r \in Numbered
  PROVE  Found(Append(rs, r)) = Append(Found(rs), [id |-> r.id, payload |-> r.payload])
<1> DEFINE strip(x) == [id |-> x.id, payload |-> x.payload]
           more     == Append(rs, r)
<1>1. Len(rs) \in Nat /\ DOMAIN rs = 1 .. Len(rs) /\ rs = [j \in 1 .. Len(rs) |-> rs[j]]
  BY LenProperties
<1>2. /\ more \in Seq(Numbered) /\ Len(more) = Len(rs) + 1 /\ DOMAIN more = 1 .. Len(more)
      /\ \A j \in 1 .. Len(rs) : more[j] = rs[j]
      /\ more[Len(rs) + 1] = r
  <2>1. more \in Seq(Numbered) /\ Len(more) = Len(rs) + 1
    BY AppendProperties
  <2> QED
    BY <2>1, AppendProperties, LenProperties
<1> DEFINE n == Len(rs)
           f == [j \in 1 .. n |-> strip(rs[j])]
<1>3. Found(rs) = f
  BY <1>1 DEF Found
<1>4. Found(more) = [j \in 1 .. n + 1 |-> strip(more[j])]
  BY <1>1, <1>2 DEF Found
<1>5. \A j \in 1 .. n + 1 : more[j] = IF j = n + 1 THEN r ELSE rs[j]
  BY <1>1, <1>2
<1> HIDE DEF strip, more
<1>6. [j \in 1 .. n + 1 |-> strip(more[j])]
        = [j \in 1 .. n + 1 |-> IF j = n + 1 THEN strip(r) ELSE strip(rs[j])]
  BY <1>5
<1>7. Append(f, strip(r)) = [j \in 1 .. n + 1 |-> IF j = n + 1 THEN strip(r) ELSE strip(rs[j])]
  <2>1. Len(f) = n /\ \A j \in 1 .. n : f[j] = strip(rs[j])
    BY <1>1
  <2>2. Append(f, strip(r)) = [j \in 1 .. Len(f) + 1 |-> IF j = Len(f) + 1 THEN strip(r) ELSE f[j]]
    BY <1>1, <2>1
  <2> QED
    BY <1>1, <2>1, <2>2
<1> QED
  BY <1>3, <1>4, <1>6, <1>7 DEF strip, more

\* In the walk, where a header fits: the next record, and what is read of it.
LEMMA AtRecord ==
  ASSUME WalkInv, FirstRead, NEW j \in 0 .. Len(origin.made), Behind(j), HeaderFits
  PROVE  LET r == origin.made[j + 1]
         IN  /\ j + 1 \in 0 .. Len(origin.made) /\ j \in 0 .. Len(origin.made) - 1
             /\ r \in RecordSet /\ Id = r.id /\ i \in Nat /\ Len(plain) \in Nat /\ i <= Len(plain)
             /\ Id = Version => EndOf(origin.made, j + 1) = i + 12
             /\ Id # Version =>
                  /\ Size = Len(r.payload) /\ Size \in Nat
                  /\ EndOf(origin.made, j + 1) = i + 6 + Size
                  /\ PayloadFits => Slice(plain, i + 6, i + 6 + Size) = r.payload
<1> DEFINE made == origin.made
           m == Len(made)
           r == made[j + 1]
<1>1. IsStream(origin) /\ plain = origin.plain /\ origin.kind \in {"whole", "cut"}
  BY DEF WalkInv, FirstRead
<1>2. /\ Len(plain) \in Nat /\ Len(Whole(made)) \in Nat /\ Len(plain) <= Len(Whole(made))
  BY <1>1, PlainIs
<1>3. m \in Nat
  BY <1>1, StreamParts
<1>4. i = EndOf(made, j) /\ i \in Nat
  BY <1>1, OneMore DEF Behind
<1>5. j # m
  <2> SUFFICES ASSUME j = m
               PROVE  FALSE
    OBVIOUS
  <2>1. EndOf(made, m) = Len(Whole(made))
    BY <1>1, EndsInOrder
  <2>2. i + 6 <= Len(plain)
    BY DEF HeaderFits
  <2> HIDE DEF made, m
  <2> QED
    BY <1>2, <1>4, <2>1, <2>2
<1>6. j \in 0 .. m - 1 /\ j + 1 \in 0 .. m
  BY <1>3, <1>5
<1>7. /\ r \in RecordSet /\ Len(r.payload) \in Nat
      /\ r.id = Version => EndOf(made, j + 1) = i + 12
      /\ r.id # Version => EndOf(made, j + 1) = i + 6 + Len(r.payload)
      /\ i + 6 <= Len(plain) => le16(Slice(plain, i, i + 2)) = r.id
      /\ i + 6 <= Len(plain) /\ r.id # Version =>
           le32(Slice(plain, i + 2, i + 6)) = Len(r.payload)
      /\ i + 6 + Len(r.payload) <= Len(plain) /\ r.id # Version =>
           Slice(plain, i + 6, i + 6 + Len(r.payload)) = r.payload
  BY <1>1, <1>4, <1>6, RecordThere
<1>8. i + 6 <= Len(plain)
  BY DEF HeaderFits
<1>9. Id = r.id
  BY <1>7, <1>8 DEF Id
<1>10. Id # Version => Size = Len(r.payload)
  BY <1>7, <1>8, <1>9 DEF Size
<1>11. i <= Len(plain)
  BY <1>2, <1>4, <1>8
<1>12. /\ Id = Version => EndOf(made, j + 1) = i + 12
       /\ Id # Version => Size \in Nat /\ EndOf(made, j + 1) = i + 6 + Size
  BY <1>7, <1>9, <1>10
<1>13. Id # Version /\ PayloadFits => Slice(plain, i + 6, i + 6 + Size) = r.payload
  BY <1>7, <1>9, <1>10 DEF PayloadFits
<1> QED
  BY <1>2, <1>4, <1>6, <1>7, <1>9, <1>10, <1>11, <1>12, <1>13

\* Nothing has been walked.
LEMMA WalkInit == Init => WalkInv
<1> SUFFICES ASSUME Init
             PROVE  WalkInv
  OBVIOUS
<1>1. PICK input \in Inputs : origin = input.dir
  BY DEF Init
<1>2. IsStream(origin)
  BY <1>1, StreamsAssumption DEF StreamsAssumption
<1>3. /\ plain = origin.plain /\ stage = "walk" /\ i = 0 /\ recs = << >> /\ k = 1
  BY DEF Init, Called, Fresh
<1>4. ASSUME origin.kind \in {"whole", "cut"}
      PROVE  Behind(0)
  <2>1. Len(plain) \in Nat
    BY <1>2, <1>3, <1>4, PlainIs
  <2>2. EndOf(origin.made, 0) = 0 /\ Sized(SubSeq(origin.made, 1, 0)) = << >>
    BY <1>2, OneMore
  <2>3. Found(recs) = << >>
    BY <1>3 DEF Found
  <2>4. ~(i > Len(plain))
    BY <1>3, <2>1
  <2> QED
    BY <1>3, <2>2, <2>3, <2>4 DEF Behind
<1>5. 0 \in 0 .. Len(origin.made)
  BY <1>2, StreamParts
<1>6. recs \in Seq(Numbered)
  BY <1>3
<1> QED
  BY <1>2, <1>3, <1>4, <1>5, <1>6 DEF WalkInv, FirstRead

\* The step over PROJECTVERSION.
LEMMA SkipKeeps ==
  ASSUME WalkInv, SkipVersion, UNCHANGED << origin, before >>
  PROVE  WalkInv'
<1>1. /\ stage = "walk" /\ HeaderFits /\ Id = Version /\ i' = i + 12
      /\ plain' = plain /\ stage' = stage /\ recs' = recs /\ k' = k
      /\ origin' = origin /\ before' = before
  BY DEF SkipVersion, loops
<1>2. ASSUME FirstRead
      PROVE  recs' \in Seq(Numbered) /\ \E j \in 0 .. Len(origin.made) : Behind(j)'
  <2>1. PICK j \in 0 .. Len(origin.made) : Behind(j)
    BY <1>1, <1>2 DEF WalkInv
  <2> DEFINE r == origin.made[j + 1]
  <2>2. /\ j + 1 \in 0 .. Len(origin.made) /\ j \in 0 .. Len(origin.made) - 1
        /\ r \in RecordSet /\ Id = r.id /\ i <= Len(plain)
        /\ EndOf(origin.made, j + 1) = i + 12
    BY <1>1, <1>2, <2>1, AtRecord
  <2>3. Sized(SubSeq(origin.made, 1, j + 1)) = Sized(SubSeq(origin.made, 1, j))
    BY <1>1, <2>2, OneMore DEF WalkInv
  <2>4. (j + 1) - 1 = j /\ j + 1 > 0
    BY <2>2
  <2>5. Found(recs)' = Found(recs)
    BY <1>1
  <2>6. Behind(j + 1)'
    BY <1>1, <2>1, <2>2, <2>3, <2>4, <2>5 DEF Behind
  <2>7. recs \in Seq(Numbered)
    BY <1>1, <1>2 DEF WalkInv
  <2> QED
    BY <1>1, <2>2, <2>6, <2>7
<1>3. FirstRead' = FirstRead
  BY <1>1 DEF FirstRead
<1> QED
  BY <1>1, <1>2, <1>3 DEF WalkInv

\* The step over a record.
LEMMA CutKeeps ==
  ASSUME WalkInv, CutRecord, UNCHANGED << origin, before >>
  PROVE  WalkInv'
<1> DEFINE new == [id |-> Id, start |-> i, payload |-> Slice(plain, i + 6, i + 6 + Size)]
<1>1. /\ stage = "walk" /\ HeaderFits /\ Id # Version /\ PayloadFits /\ i' = i + 6 + Size
      /\ recs' = Append(recs, new)
      /\ plain' = plain /\ stage' = stage /\ k' = k
      /\ origin' = origin /\ before' = before
  BY DEF CutRecord, loops
<1> HIDE DEF new
<1>2. ASSUME FirstRead
      PROVE  recs' \in Seq(Numbered) /\ \E j \in 0 .. Len(origin.made) : Behind(j)'
  <2>1. PICK j \in 0 .. Len(origin.made) : Behind(j)
    BY <1>1, <1>2 DEF WalkInv
  <2> DEFINE r == origin.made[j + 1]
  <2>2. /\ j + 1 \in 0 .. Len(origin.made) /\ j \in 0 .. Len(origin.made) - 1
        /\ r \in RecordSet /\ Id = r.id /\ i \in Nat /\ Len(plain) \in Nat
        /\ Size \in Nat /\ EndOf(origin.made, j + 1) = i + 6 + Size
        /\ Slice(plain, i + 6, i + 6 + Size) = r.payload
    BY <1>1, <1>2, <2>1, AtRecord
  <2>3. Sized(SubSeq(origin.made, 1, j + 1)) = Append(Sized(SubSeq(origin.made, 1, j)), r)
    BY <1>1, <2>2, OneMore DEF WalkInv
  <2> HIDE DEF r
  <2>4. /\ new.id = r.id /\ new.payload = r.payload /\ new \in Numbered
        /\ r = [id |-> new.id, payload |-> new.payload]
    <3>1. r.id \in 0 .. Base * Base - 1 /\ r.payload \in Seq(Byte)
          /\ r = [id |-> r.id, payload |-> r.payload]
      BY <2>2 DEF RecordSet
    <3>2. r.id \in Nat
      BY <3>1, Bases
    <3> QED
      BY <2>2, <3>1, <3>2 DEF new, Numbered
  <2>5. recs \in Seq(Numbered)
    BY <1>1, <1>2 DEF WalkInv
  <2>6. recs' \in Seq(Numbered)
    BY <1>1, <2>4, <2>5, AppendProperties
  <2>7. Found(recs)' = Append(Found(recs), r)
    <3>1. Found(Append(recs, new)) = Append(Found(recs), r)
      BY <2>4, <2>5, FoundMore
    <3> QED
      BY <1>1, <3>1
  <2>8. ~(i' > Len(plain'))
    BY <1>1, <2>2 DEF PayloadFits
  <2>9. Behind(j + 1)'
    BY <1>1, <2>1, <2>2, <2>3, <2>7, <2>8 DEF Behind
  <2> QED
    BY <2>2, <2>6, <2>9
<1>3. FirstRead' = FirstRead
  BY <1>1 DEF FirstRead
<1> QED
  BY <1>1, <1>2, <1>3 DEF WalkInv

\* The end of the walk.
LEMMA EndKeeps ==
  ASSUME WalkInv, WalkEnds, UNCHANGED << origin, before >>
  PROVE  WalkInv'
<1>1. HeaderFits => Id # Version /\ ~PayloadFits
  BY DEF WalkEnds
<1>2. /\ stage' = "parse" /\ i' = i /\ recs' = recs /\ plain' = plain /\ k' = k
      /\ origin' = origin /\ before' = before
  BY DEF WalkEnds, loops
<1>3. stage = "walk"
  BY DEF WalkEnds
<1>4. ASSUME FirstRead
      PROVE  \E j \in 0 .. Len(origin.made) : Behind(j)' /\ NoneAfter(j)'
  <2>1. PICK j \in 0 .. Len(origin.made) : Behind(j)
    BY <1>3, <1>4 DEF WalkInv
  <2>2. Behind(j)'
    BY <1>2, <2>1 DEF Behind
  <2>3. NoneAfter(j)
    <3>1. CASE HeaderFits
      <4>1. Id # Version /\ ~PayloadFits
        BY <1>1, <3>1
      <4>2. /\ i \in Nat /\ Len(plain) \in Nat /\ Size \in Nat
            /\ EndOf(origin.made, j + 1) = i + 6 + Size
        BY <1>4, <2>1, <3>1, <4>1, AtRecord
      <4>3. EndOf(origin.made, j + 1) > Len(plain)
        BY <4>1, <4>2 DEF PayloadFits
      <4> QED
        BY <4>3 DEF NoneAfter
    <3>2. CASE ~HeaderFits /\ j # Len(origin.made)
      <4>1. IsStream(origin) /\ plain = origin.plain /\ origin.kind \in {"whole", "cut"}
        BY <1>4 DEF WalkInv, FirstRead
      <4>2. Len(plain) \in Nat /\ Len(origin.made) \in Nat
        BY <4>1, PlainIs, StreamParts
      <4>3. j \in 0 .. Len(origin.made) - 1
        BY <3>2, <4>2
      <4> DEFINE r == origin.made[j + 1]
      <4>4. /\ EndOf(origin.made, j) \in Nat /\ Len(r.payload) \in Nat
            /\ r.id = Version => EndOf(origin.made, j + 1) = EndOf(origin.made, j) + 12
            /\ r.id # Version =>
                 EndOf(origin.made, j + 1) = EndOf(origin.made, j) + 6 + Len(r.payload)
        BY <4>1, <4>3, RecordThere
      <4>5. i = EndOf(origin.made, j)
        BY <2>1 DEF Behind
      <4>6. i \in Nat /\ ~(i + 6 <= Len(plain))
        BY <3>2, <4>4, <4>5 DEF HeaderFits
      <4> DEFINE after == EndOf(origin.made, j + 1)
                 size  == Len(r.payload)
      <4>7. (after = i + 12 \/ after = i + 6 + size) /\ size \in Nat
        BY <4>4, <4>5
      <4> HIDE DEF after, size
      <4>8. after > Len(plain)
        BY <4>2, <4>6, <4>7
      <4> QED
        BY <4>8 DEF NoneAfter, after
    <3>3. CASE j = Len(origin.made)
      BY <3>3 DEF NoneAfter
    <3> QED
      BY <3>1, <3>2, <3>3
  <2>4. NoneAfter(j)'
    BY <1>2, <2>3 DEF NoneAfter
  <2> QED
    BY <1>2, <2>2, <2>4
<1>5. FirstRead' = FirstRead
  BY <1>2 DEF FirstRead
<1> QED
  BY <1>2, <1>4, <1>5 DEF WalkInv

\* The steps that neither walk nor begin a walk.
LEMMA OffWalk ==
  ASSUME WalkInv, UNCHANGED << plain, origin, before >>,
         \/ UNCHANGED << stage, i, recs, k >>
         \/ stage' # "walk" /\ k' \in Nat /\ k' > 1
         \/ stage' = "parsed" /\ k' = k
  PROVE  WalkInv'
<1>1. plain' = plain /\ origin' = origin /\ before' = before /\ FirstRead' = FirstRead
  BY DEF FirstRead
<1>2. CASE UNCHANGED << stage, i, recs, k >>
  <2>1. \A j : Behind(j)' = Behind(j) /\ NoneAfter(j)' = NoneAfter(j)
    BY <1>1, <1>2 DEF Behind, NoneAfter
  <2> QED
    BY <1>1, <1>2, <2>1 DEF WalkInv
<1>3. CASE stage' # "walk" /\ k' \in Nat /\ k' > 1
  BY <1>1, <1>3 DEF WalkInv
<1>4. CASE stage' = "parsed" /\ k' = k
  BY <1>1, <1>4 DEF WalkInv
<1> QED
  BY <1>2, <1>3, <1>4

\* Every step of Read, and the Read after a Write, keeps the invariant.
LEMMA WalkStep == WalkInv /\ [Next]_vars => WalkInv'
<1> SUFFICES ASSUME WalkInv, [Next]_vars
             PROVE  WalkInv'
  OBVIOUS
<1>1. CASE Parse
  <2>1. DirNext /\ UNCHANGED << origin, before >>
    BY <1>1 DEF Parse
  <2>2. CASE SkipVersion
    BY <2>1, <2>2, SkipKeeps
  <2>3. CASE CutRecord
    BY <2>1, <2>3, CutKeeps
  <2>4. CASE WalkEnds
    BY <2>1, <2>4, EndKeeps
  <2>5. CASE ParseEnds
    BY <2>1, <2>5, OffWalk DEF ParseEnds
  <2>6. CASE \/ TakeSysKind \/ TakeLCID \/ TakeCodePage \/ TakeReferenceName \/ EndReferences
             \/ OpenModule \/ TakeStreamName \/ TakeOffset \/ TakeType \/ PassOver
    <3>1. stage = "parse" /\ Advance
      BY <2>6 DEF TakeSysKind, TakeLCID, TakeCodePage, TakeReferenceName, EndReferences,
                  OpenModule, TakeStreamName, TakeOffset, TakeType, TakeField, PassOver, Looking
    <3>2. k \in Nat \ {0}
      BY DEF WalkInv
    <3>3. plain' = plain /\ stage' # "walk" /\ k' \in Nat /\ k' > 1
      BY <3>1, <3>2 DEF Advance
    <3> QED
      BY <2>1, <3>3, OffWalk
  <2> QED
    BY <2>1, <2>2, <2>3, <2>4, <2>5, <2>6 DEF DirNext
<1>2. CASE CallProtection
  BY <1>2, OffWalk DEF CallProtection, dirVars, loops
<1>3. CASE Protection
  BY <1>3, OffWalk DEF Protection, dirVars, loops
<1>4. CASE WriteAndRead
  <2>1. k' = 1 /\ before' # << >> /\ origin' = origin
    BY <1>4 DEF WriteAndRead, Fresh
  <2>2. ~FirstRead'
    BY <2>1 DEF FirstRead
  <2> QED
    BY <2>1, <2>2 DEF WalkInv
<1>5. CASE UNCHANGED vars
  BY <1>5, OffWalk DEF vars, dirVars, loops
<1> QED
  BY <1>1, <1>2, <1>3, <1>4, <1>5 DEF Next

\* The inductive invariant of the walk holds of every Read.
THEOREM WalkInvariant == FairSpec => []WalkInv
BY WalkInit, WalkStep, PTL DEF FairSpec

\* The greatest of a set of numbers that has one.
LEMMA GreatestIs ==
  ASSUME NEW T \in SUBSET Nat, NEW x \in T, \A y \in T : y <= x
  PROVE  Max(T) = x
<1>1. \A y \in T : x >= y
  OBVIOUS
<1>2. \A z \in T : (\A y \in T : z >= y) => z = x
  <2> SUFFICES ASSUME NEW z \in T, \A y \in T : z >= y
               PROVE  z = x
    OBVIOUS
  <2>1. z >= x /\ z <= x /\ z \in Nat /\ x \in Nat
    OBVIOUS
  <2> QED
    BY <2>1
<1> QED
  BY <1>1, <1>2 DEF Max

\* The last record that is there to its last byte.
LEMMA LastWhole ==
  ASSUME WalkInv, FirstRead, NEW j \in 0 .. Len(origin.made), Behind(j), NoneAfter(j)
  PROVE  LET all == Max({0} \cup {l \in DOMAIN origin.made : EndOf(origin.made, l) <= Len(plain)})
         IN  Sized(SubSeq(origin.made, 1, all)) = Sized(SubSeq(origin.made, 1, j))
<1> DEFINE made == origin.made
           m == Len(made)
           there == {l \in DOMAIN made : EndOf(made, l) <= Len(plain)}
           T == {0} \cup there
<1>1. IsStream(origin) /\ plain = origin.plain /\ origin.kind \in {"whole", "cut"}
  BY DEF WalkInv, FirstRead
<1>2. /\ m \in Nat /\ DOMAIN made = 1 .. m /\ Len(plain) \in Nat /\ j \in Nat
      /\ \A l \in 0 .. m : EndOf(made, l) \in Nat
  BY <1>1, StreamParts, PlainIs, OneMore
<1>3. ASSUME NEW l \in 1 .. m, l > j
      PROVE  EndOf(made, l) > Len(plain)
  <2>1. j # m /\ j + 1 \in 0 .. l /\ l \in 0 .. m /\ j + 1 \in 0 .. m
    BY <1>2, <1>3
  <2>2. EndOf(made, j + 1) <= EndOf(made, l)
    BY <1>1, <2>1, EndsInOrder
  <2>3. EndOf(made, j + 1) > Len(plain)
    BY <2>1 DEF NoneAfter
  <2>4. EndOf(made, j + 1) \in Nat /\ EndOf(made, l) \in Nat
    BY <1>2, <2>1
  <2> QED
    BY <1>2, <2>2, <2>3, <2>4
<1>4. T \in SUBSET Nat /\ 0 \in T /\ \A l \in T : l <= j
  <2>1. \A l \in there : l \in 1 .. m /\ EndOf(made, l) \in Nat /\ EndOf(made, l) <= Len(plain)
    BY <1>2
  <2> HIDE DEF there
  <2>2. \A l \in there : ~(l > j)
    BY <1>2, <1>3, <2>1
  <2> QED
    BY <1>2, <2>1, <2>2
<1>5. i = EndOf(made, j)
  BY DEF Behind
<1>6. CASE i <= Len(plain)
  <2>1. j \in T
    BY <1>2, <1>5, <1>6
  <2>2. Max(T) = j
    <3> HIDE DEF T
    <3> QED
      BY <1>4, <2>1, GreatestIs
  <2> QED
    BY <2>2
<1>7. CASE i > Len(plain)
  <2>1. j > 0 /\ made[j].id = Version /\ EndOf(made, j - 1) <= Len(plain)
    BY <1>7 DEF Behind
  <2> DEFINE l == j - 1
  <2>2. l \in 0 .. m - 1 /\ l + 1 = j /\ l \in Nat
    BY <1>2, <2>1
  <2>3. l \in T
    BY <1>2, <2>1, <2>2
  <2>4. j \notin T
    <3>1. ~(EndOf(made, j) <= Len(plain))
      <4>1. EndOf(made, j) \in Nat
        BY <1>2
      <4> QED
        BY <1>2, <1>5, <1>7, <4>1
    <3> QED
      BY <2>1, <3>1
  <2>5. \A y \in T : y <= l
    <3> HIDE DEF T
    <3>1. \A y \in T : y # j /\ y <= j /\ y \in Nat
      BY <1>4, <2>4
    <3> QED
      BY <1>2, <3>1
  <2>6. Max(T) = l
    <3> HIDE DEF T, l
    <3> QED
      BY <1>4, <2>3, <2>5, GreatestIs
  <2>7. Sized(SubSeq(made, 1, l + 1)) = Sized(SubSeq(made, 1, l))
    <3>1. made[l + 1].id = Version
      BY <2>1, <2>2
    <3> HIDE DEF l
    <3> QED
      BY <1>1, <2>2, <3>1, OneMore
  <2> QED
    BY <2>2, <2>6, <2>7
<1>8. i \in Nat
  BY <1>2, <1>5
<1> QED
  BY <1>2, <1>6, <1>7, <1>8

\* The walk over a dir stream that is whole, or cut off at any byte
\* (walkRecords), finds exactly the records that are there to their last byte.
THEOREM WalkFindsRecordsHolds == FairSpec => []WalkFindsRecords
<1>1. WalkInv => WalkFindsRecords
  <2> SUFFICES ASSUME WalkInv, FirstRead, stage = "parse", k = 1
               PROVE  LET all == Max({0} \cup {l \in DOMAIN origin.made :
                                                 EndOf(origin.made, l) <= Len(plain)})
                      IN  Found(recs) = Sized(SubSeq(origin.made, 1, all))
    BY DEF WalkFindsRecords, FirstRead, Found
  <2>1. PICK j \in 0 .. Len(origin.made) : Behind(j) /\ NoneAfter(j)
    BY DEF WalkInv
  <2>2. Found(recs) = Sized(SubSeq(origin.made, 1, j))
    BY <2>1 DEF Behind
  <2> QED
    BY <2>1, <2>2, LastWhole
<1> QED
  BY <1>1, WalkInvariant, PTL

-----------------------------------------------------------------------------
(***************************************************************************)
(* The positions of records, numbered in their order.                      *)
(***************************************************************************)

\* The constants of DirStream are what it assumes of them.
LEMMA Instantiated == Base * Base \in Nat \ {0} /\ << >> \in Seq(Byte)
<1>1. Base \in Nat /\ Base >= 8
  BY BaseAssumption DEF BaseAssumption
<1> QED
  BY <1>1

\* Sets of numbers are counted and bounded alike in every instance.
LEMMA SameSets ==
  /\ \A S : D!Cardinality(S) = Cardinality(S) /\ DP!Cardinality(S) = Cardinality(S)
  /\ \A S : D!Max(S) = Max(S) /\ DP!Max(S) = Max(S)
  /\ \A S : D!Min(S) = Min(S) /\ DP!Min(S) = Min(S)
<1>1. \A S : D!Cardinality(S) = Cardinality(S)
  BY DEF D!Cardinality, Cardinality
<1>2. \A S : DP!Cardinality(S) = Cardinality(S)
  BY DEF DP!Cardinality, Cardinality
<1>3. \A S : D!Max(S) = Max(S)
  BY DEF D!Max, Max
<1>4. \A S : DP!Max(S) = Max(S)
  BY DEF DP!Max, Max
<1>5. \A S : D!Min(S) = Min(S)
  BY DEF D!Min, Min
<1>6. \A S : DP!Min(S) = Min(S)
  BY DEF DP!Min, Min
<1> QED
  BY <1>1, <1>2, <1>3, <1>4, <1>5, <1>6

\* The operators of DirStream are those its proofs speak of.
LEMMA SameNth == \A S, m : DP!Nth(S, m) = D!Nth(S, m)
<1>1. ASSUME NEW S, NEW m
      PROVE  DP!Nth(S, m) = CHOOSE e \in S : Cardinality({d \in S : d <= e}) = m
  BY SameSets DEF DP!Nth
<1>2. ASSUME NEW S, NEW m
      PROVE  D!Nth(S, m) = CHOOSE e \in S : Cardinality({d \in S : d <= e}) = m
  BY SameSets DEF D!Nth
<1> QED
  BY <1>1, <1>2

\* Numbered from the least, a position stands where the positions up to it end.
LEMMA NthAt ==
  ASSUME NEW n \in Nat, NEW S \in SUBSET (1 .. n)
  PROVE  /\ \A j \in 1 .. Cardinality(S) : D!Nth(S, j) \in S
                                          /\ Cardinality({d \in S : d <= D!Nth(S, j)}) = j
         /\ \A e \in S : D!Nth(S, Cardinality({d \in S : d <= e})) = e
<1>1. ASSUME NEW j \in 1 .. Cardinality(S)
      PROVE  D!Nth(S, j) \in S /\ Cardinality({d \in S : d <= D!Nth(S, j)}) = j
  <2>1. j \in 1 .. DP!Cardinality(S)
    BY SameSets
  <2>2. DP!Nth(S, j) \in S /\ DP!Cardinality(DP!Upto(S, DP!Nth(S, j))) = j
    BY <2>1, Instantiated, DP!NthOfPositions
  <2> QED
    BY <2>2, SameSets, SameNth DEF DP!Upto
<1>2. ASSUME NEW e \in S
      PROVE  D!Nth(S, Cardinality({d \in S : d <= e})) = e
  <2>1. DP!Nth(S, DP!Cardinality(DP!Upto(S, e))) = e
    BY Instantiated, DP!NthIs
  <2> QED
    BY <2>1, SameSets, SameNth DEF DP!Upto
<1> QED
  BY <1>1, <1>2

\* What g holds at the positions in S, in their order.
Listed(g, S) == [j \in 1 .. Cardinality(S) |-> g[D!Nth(S, j)]]

\* A position behind all others comes last.
LEMMA ListedMore ==
  ASSUME NEW g, NEW n \in Nat, NEW S \in SUBSET (1 .. n)
  PROVE  /\ Listed(g, S \cup {n + 1}) = Append(Listed(g, S), g[n + 1])
         /\ Cardinality(S) \in Nat /\ Listed(g, {}) = << >>
<1> DEFINE m == n + 1
           T == S \cup {m}
<1>1. IsFiniteSet(S) /\ Cardinality(S) \in Nat
  <2>1. IsFiniteSet(1 .. n)
    BY FS_Interval
  <2> QED
    BY <2>1, FS_Subset, FS_CardinalityType
<1>2. m \notin S /\ \A e \in S : e < m /\ e \in Nat
  OBVIOUS
<1>3. T \in SUBSET (1 .. m) /\ m \in Nat
  OBVIOUS
<1>4. Cardinality(T) = Cardinality(S) + 1
  BY <1>1, <1>2, FS_AddElement
<1>5. ASSUME NEW j \in 1 .. Cardinality(S)
      PROVE  D!Nth(T, j) = D!Nth(S, j)
  <2> DEFINE e == D!Nth(S, j)
  <2>1. e \in S /\ Cardinality({d \in S : d <= e}) = j
    BY NthAt
  <2> HIDE DEF e
  <2>2. {d \in T : d <= e} = {d \in S : d <= e}
    BY <1>2, <2>1
  <2>3. D!Nth(T, Cardinality({d \in T : d <= e})) = e
    BY <1>3, <2>1, NthAt
  <2> QED
    BY <2>1, <2>2, <2>3 DEF e
<1>6. D!Nth(T, Cardinality(T)) = m
  <2>1. {d \in T : d <= m} = T
    <3>1. \A d \in T : d <= m
      BY <1>2
    <3> HIDE DEF T, m
    <3> QED
      BY <3>1
  <2>2. D!Nth(T, Cardinality({d \in T : d <= m})) = m
    <3>1. m \in T
      OBVIOUS
    <3> HIDE DEF T, m
    <3> QED
      BY <1>3, <3>1, NthAt
  <2> QED
    BY <2>1, <2>2
<1> HIDE DEF T, m
<1>7. Listed(g, T) = Append(Listed(g, S), g[m])
  <2>1. Len(Listed(g, S)) = Cardinality(S) /\ DOMAIN Listed(g, S) = 1 .. Cardinality(S)
    BY <1>1 DEF Listed
  <2>2. Append(Listed(g, S), g[m])
          = [j \in 1 .. Cardinality(S) + 1 |->
               IF j = Cardinality(S) + 1 THEN g[m] ELSE Listed(g, S)[j]]
    BY <1>1, <2>1
  <2>3. ASSUME NEW j \in 1 .. Cardinality(S) + 1
        PROVE  g[D!Nth(T, j)] = IF j = Cardinality(S) + 1 THEN g[m] ELSE Listed(g, S)[j]
    BY <1>1, <1>4, <1>5, <1>6 DEF Listed
  <2>4. Listed(g, T) = [j \in 1 .. Cardinality(S) + 1 |-> g[D!Nth(T, j)]]
    BY <1>4 DEF Listed
  <2> QED
    BY <2>2, <2>3, <2>4
<1>8. Listed(g, {}) = << >>
  BY FS_EmptySet DEF Listed
<1> QED
  BY <1>1, <1>7, <1>8 DEF T, m

-----------------------------------------------------------------------------
(***************************************************************************)
(* The walk as a function of the bytes.                                    *)
(***************************************************************************)

\* Numbers that are read are natural numbers.
LEMMA NumbersRead ==
  ASSUME NEW b \in Seq(Byte)
  PROVE  le16(b) \in Nat /\ le32(b) \in Nat
<1>1. Len(b) \in Nat /\ Base \in Nat /\ \A j \in 1 .. Len(b) : b[j] \in Nat
  BY Bases, LenProperties, ElementOfSeq DEF Byte
<1>2. \A c \in Seq(Byte) : le16(c) \in Nat
  <2> SUFFICES ASSUME NEW c \in Seq(Byte)
               PROVE  le16(c) \in Nat
    OBVIOUS
  <2>1. Len(c) \in Nat /\ \A j \in 1 .. Len(c) : c[j] \in Nat
    BY Bases, LenProperties, ElementOfSeq DEF Byte
  <2>2. CASE Len(c) < 2
    BY <2>2 DEF le16
  <2>3. CASE ~(Len(c) < 2)
    <3>1. c[1] \in Nat /\ c[2] \in Nat
      BY <2>1, <2>3
    <3>2. le16(c) = c[1] + Base * c[2]
      BY <2>3 DEF le16
    <3>3. Base * c[2] \in Nat
      BY <1>1, <3>1
    <3> QED
      BY <3>1, <3>2, <3>3
  <2> QED
    BY <2>2, <2>3
<1>3. le32(b) \in Nat
  <2>1. CASE Len(b) < 4
    BY <2>1 DEF le32
  <2>2. CASE ~(Len(b) < 4)
    <3>1. Slice(b, 2, 4) \in Seq(Byte)
      BY <1>1, <2>2, SliceIs
    <3> DEFINE high == le16(Slice(b, 2, 4))
               low  == le16(b)
    <3>2. high \in Nat /\ low \in Nat
      BY <1>2, <3>1
    <3>3. le32(b) = low + Base * Base * high
      BY <2>2 DEF le32
    <3> HIDE DEF high, low
    <3>4. Base * Base \in Nat
      BY Bases
    <3>5. (Base * Base) * high \in Nat
      BY <3>2, <3>4
    <3> QED
      BY <3>2, <3>3, <3>5
  <2> QED
    BY <2>1, <2>2
<1> QED
  BY <1>2, <1>3

\* What the walk gets: records without their places.
FoundRecord == [id : Nat, payload : Seq(Byte)]

\* The place after the record at p.
NextAt(b, p) == IF IdAt(b, p) = Version THEN p + 12 ELSE EndAt(b, p)

\* The header at p, where one fits.
LEMMA HeaderAt ==
  ASSUME NEW b \in Seq(Byte), NEW p \in Nat, p + 6 <= Len(b)
  PROVE  /\ IdAt(b, p) \in Nat /\ EndAt(b, p) \in Nat /\ EndAt(b, p) >= p + 6
         /\ NextAt(b, p) \in Nat /\ NextAt(b, p) >= p + 6
         /\ EndAt(b, p) <= Len(b) =>
              [id |-> IdAt(b, p), payload |-> Slice(b, p + 6, EndAt(b, p))] \in FoundRecord
<1>1. Len(b) \in Nat
  BY LenProperties
<1>2. Slice(b, p, p + 2) \in Seq(Byte) /\ Slice(b, p + 2, p + 6) \in Seq(Byte)
  <2>1. p + 2 \in p .. Len(b) /\ p + 2 \in Nat /\ p + 6 \in p + 2 .. Len(b)
    BY <1>1
  <2> QED
    BY <2>1, SliceIs
<1>3. IdAt(b, p) \in Nat
  BY <1>2, NumbersRead DEF IdAt
<1> DEFINE size == le32(Slice(b, p + 2, p + 6))
<1>4. size \in Nat /\ EndAt(b, p) = p + 6 + size
  BY <1>2, NumbersRead DEF EndAt
<1> HIDE DEF size
<1>5. EndAt(b, p) \in Nat /\ EndAt(b, p) >= p + 6
  BY <1>4
<1>6. ASSUME EndAt(b, p) <= Len(b)
      PROVE  Slice(b, p + 6, EndAt(b, p)) \in Seq(Byte)
  <2>1. p + 6 \in Nat /\ EndAt(b, p) \in p + 6 .. Len(b)
    BY <1>1, <1>5, <1>6
  <2> QED
    BY <2>1, SliceIs
<1> QED
  BY <1>3, <1>5, <1>6 DEF NextAt, FoundRecord

\* One step of the walk, the rest of it being f.
WalkAt(b, f, p) ==
  IF p + 6 > Len(b) THEN << >>
  ELSE IF IdAt(b, p) = Version THEN f[p + 12]
  ELSE IF EndAt(b, p) > Len(b) THEN << >>
  ELSE << [id |-> IdAt(b, p), payload |-> Slice(b, p + 6, EndAt(b, p))] >> \o f[EndAt(b, p)]

\* f is the walk from every place at or after q.
IsWalk(b, f, q) ==
  /\ f \in [q .. Len(b) + 6 -> Seq(FoundRecord)]
  /\ \A p \in q .. Len(b) + 6 : f[p] = WalkAt(b, f, p)

\* A step depends on the walk further on alone.
LEMMA StepAhead ==
  ASSUME NEW b \in Seq(Byte), NEW p \in 0 .. Len(b) + 6, NEW f, NEW g,
         \A x \in p + 1 .. Len(b) + 6 : f[x] = g[x] /\ g[x] \in Seq(FoundRecord)
  PROVE  WalkAt(b, f, p) = WalkAt(b, g, p) /\ WalkAt(b, f, p) \in Seq(FoundRecord)
<1>1. Len(b) \in Nat /\ p \in Nat
  BY LenProperties
<1>2. CASE p + 6 > Len(b)
  BY <1>2 DEF WalkAt
<1>3. CASE p + 6 <= Len(b) /\ IdAt(b, p) = Version
  <2>1. p + 12 \in p + 1 .. Len(b) + 6 /\ ~(p + 6 > Len(b))
    BY <1>1, <1>3
  <2> QED
    BY <1>3, <2>1 DEF WalkAt
<1>4. CASE p + 6 <= Len(b) /\ IdAt(b, p) # Version /\ EndAt(b, p) > Len(b)
  <2>1. ~(p + 6 > Len(b))
    BY <1>1, <1>4
  <2> QED
    BY <1>4, <2>1 DEF WalkAt
<1>5. CASE p + 6 <= Len(b) /\ IdAt(b, p) # Version /\ EndAt(b, p) <= Len(b)
  <2> DEFINE r == [id |-> IdAt(b, p), payload |-> Slice(b, p + 6, EndAt(b, p))]
             e == EndAt(b, p)
  <2>1. e \in Nat /\ e >= p + 6 /\ r \in FoundRecord
    BY <1>1, <1>5, HeaderAt
  <2>2. e \in p + 1 .. Len(b) + 6 /\ ~(p + 6 > Len(b)) /\ ~(e > Len(b))
    BY <1>1, <1>5, <2>1
  <2>3. /\ WalkAt(b, f, p) = << r >> \o f[e]
        /\ WalkAt(b, g, p) = << r >> \o g[e]
    BY <1>5, <2>2 DEF WalkAt
  <2> HIDE DEF r, e
  <2>4. << r >> \in Seq(FoundRecord)
    BY <2>1
  <2>5. f[e] = g[e] /\ g[e] \in Seq(FoundRecord)
    BY <2>2
  <2>6. << r >> \o g[e] \in Seq(FoundRecord)
    BY <2>4, <2>5, ConcatProperties
  <2> QED
    BY <2>3, <2>5, <2>6
<1>6. p + 6 <= Len(b) => EndAt(b, p) \in Nat
  BY <1>1, HeaderAt
<1> QED
  BY <1>1, <1>2, <1>3, <1>4, <1>5, <1>6

\* The recursion defines the walk.
LEMMA WalkExists ==
  ASSUME NEW b \in Seq(Byte)
  PROVE  \E f : IsWalk(b, f, 0)
<1>1. Len(b) \in Nat
  BY LenProperties
<1> DEFINE top  == Len(b) + 6
           Good == {q \in 0 .. top + 1 : \E f : IsWalk(b, f, q)}
<1>2. top \in Nat
  BY <1>1
<1>3. top + 1 \in Good
  <2> DEFINE f == [p \in top + 1 .. top |-> << >>]
  <2>1. top + 1 .. top = {}
    BY <1>2
  <2>2. IsWalk(b, f, top + 1)
    BY <2>1 DEF IsWalk
  <2>3. top + 1 \in 0 .. top + 1
    BY <1>2
  <2> QED
    BY <2>2, <2>3
<1>4. PICK q \in Good : \A y \in Good : q <= y
  <2>1. Good \in SUBSET Nat /\ Good # {}
    BY <1>3
  <2> HIDE DEF Good
  <2> QED
    BY <2>1, LeastOf
<1>5. PICK f : IsWalk(b, f, q)
  BY <1>4
<1>6. q \in 0 .. top + 1
  BY <1>4
<1>7. q = 0
  <2> SUFFICES ASSUME q # 0
               PROVE  FALSE
    OBVIOUS
  <2> DEFINE m == q - 1
             g == [p \in m .. top |-> IF p = m THEN WalkAt(b, f, m) ELSE f[p]]
  <2>1. /\ m \in 0 .. top /\ m \in Nat /\ ~(q <= m) /\ m + 1 = q
        /\ \A p \in m .. top : p = m \/ p \in q .. top
        /\ \A p \in m .. top : \A x \in p + 1 .. top : x \in q .. top /\ x \in m .. top /\ x # m
    BY <1>2, <1>6
  <2> HIDE DEF m
  <2>2. \A p \in m .. top : g[p] = IF p = m THEN WalkAt(b, f, m) ELSE f[p]
    OBVIOUS
  <2>3. f \in [q .. top -> Seq(FoundRecord)] /\ \A p \in q .. top : f[p] = WalkAt(b, f, p)
    BY <1>5 DEF IsWalk
  <2>4. \A x \in q .. top : f[x] \in Seq(FoundRecord)
    BY <2>3
  <2> HIDE DEF g, top
  <2>5. ASSUME NEW p \in m .. top
        PROVE  g[p] = WalkAt(b, g, p) /\ g[p] \in Seq(FoundRecord)
    <3>1. \A x \in p + 1 .. top : f[x] = g[x] /\ g[x] \in Seq(FoundRecord)
      BY <2>1, <2>2, <2>4
    <3>2. p \in 0 .. Len(b) + 6 /\ top = Len(b) + 6
      BY <1>2, <2>1 DEF top
    <3>3. WalkAt(b, f, p) = WalkAt(b, g, p) /\ WalkAt(b, f, p) \in Seq(FoundRecord)
      BY <3>1, <3>2, StepAhead
    <3>4. g[p] = WalkAt(b, f, p)
      BY <2>1, <2>2, <2>3
    <3> QED
      BY <3>3, <3>4
  <2>6. g \in [m .. top -> Seq(FoundRecord)]
    BY <2>5 DEF g
  <2>7. IsWalk(b, g, m)
    BY <2>5, <2>6 DEF IsWalk, top
  <2>8. m \in Good
    BY <2>1, <2>7 DEF top
  <2> QED
    BY <1>4, <2>1, <2>8
<1> QED
  BY <1>5, <1>7

\* Walk is the value at 0 of such a function.
LEMMA WalkIs ==
  ASSUME NEW b \in Seq(Byte)
  PROVE  \E f : IsWalk(b, f, 0) /\ Walk(b) = f[0]
<1> DEFINE dom == 0 .. Len(b) + 6
           Rec(f) == f = [p \in dom |-> WalkAt(b, f, p)]
           w == CHOOSE f : Rec(f)
<1>1. Walk(b) = w[0]
  BY DEF Walk, WalkAt
<1>2. PICK f : IsWalk(b, f, 0)
  BY WalkExists
<1>3. Rec(f)
  <2>1. f \in [dom -> Seq(FoundRecord)] /\ \A p \in dom : f[p] = WalkAt(b, f, p)
    BY <1>2 DEF IsWalk
  <2> DEFINE body(p) == WalkAt(b, f, p)
  <2>2. f = [p \in dom |-> f[p]] /\ \A p \in dom : f[p] = body(p)
    BY <2>1
  <2> HIDE DEF dom, body
  <2>3. f = [p \in dom |-> body(p)]
    BY <2>2
  <2> QED
    BY <2>3 DEF body
<1>4. Rec(w)
  <2> HIDE DEF Rec
  <2> QED
    BY <1>3
<1> HIDE DEF w
<1>5. \A p \in dom : w[p] = WalkAt(b, w, p)
  <2> DEFINE body(p) == WalkAt(b, w, p)
  <2>1. w = [p \in dom |-> body(p)]
    BY <1>4
  <2> HIDE DEF dom, body
  <2>2. \A p \in dom : w[p] = body(p)
    BY <2>1
  <2> QED
    BY <2>2 DEF body
<1>6. w = [p \in dom |-> w[p]]
  <2> DEFINE body(p) == WalkAt(b, w, p)
  <2>1. w = [p \in dom |-> body(p)]
    BY <1>4
  <2> HIDE DEF dom, body
  <2> QED
    BY <2>1
<1> DEFINE top  == Len(b) + 6
           Good == {q \in 0 .. top : \A p \in q .. top : w[p] \in Seq(FoundRecord)}
<1>7. Len(b) \in Nat /\ top \in Nat
  BY LenProperties
<1>8. top \in Good
  <2>1. w[top] = WalkAt(b, w, top) /\ top + 6 > Len(b)
    BY <1>5, <1>7
  <2>2. w[top] = << >> /\ \A p \in top .. top : p = top
    BY <1>7, <2>1 DEF WalkAt
  <2> HIDE DEF top
  <2>3. << >> \in Seq(FoundRecord) /\ top \in 0 .. top
    BY <1>7
  <2> QED
    BY <2>2, <2>3
<1>9. PICK q \in Good : \A y \in Good : q <= y
  <2>1. Good \in SUBSET Nat /\ Good # {}
    BY <1>8
  <2> HIDE DEF Good
  <2> QED
    BY <2>1, LeastOf
<1>10. q \in 0 .. top /\ \A p \in q .. top : w[p] \in Seq(FoundRecord)
  BY <1>9
<1>11. q = 0
  <2> SUFFICES ASSUME q # 0
               PROVE  FALSE
    OBVIOUS
  <2> DEFINE m == q - 1
  <2>1. m \in 0 .. top /\ ~(q <= m) /\ m + 1 = q /\ \A p \in m .. top : p = m \/ p \in q .. top
    BY <1>7, <1>10
  <2> HIDE DEF m
  <2>2. \A x \in m + 1 .. top : w[x] = w[x] /\ w[x] \in Seq(FoundRecord)
    BY <1>10, <2>1
  <2>3. WalkAt(b, w, m) \in Seq(FoundRecord)
    BY <2>1, <2>2, StepAhead
  <2>4. w[m] \in Seq(FoundRecord)
    BY <1>5, <2>1, <2>3
  <2>5. m \in Good
    BY <1>10, <2>1, <2>4
  <2> QED
    BY <1>9, <2>1, <2>5
<1>12. w \in [dom -> Seq(FoundRecord)]
  BY <1>6, <1>10, <1>11
<1> QED
  BY <1>1, <1>5, <1>12 DEF IsWalk

\* The stream c holds the bytes of a after its first d.
Holds(c, d, a) ==
  /\ a \in Seq(Byte) /\ c \in Seq(Byte) /\ d \in Nat /\ d + Len(a) <= Len(c)
  /\ \A x \in 1 .. Len(a) : c[d + x] = a[x]

\* A concatenation holds both.
LEMMA HoldsBoth ==
  ASSUME NEW a \in Seq(Byte), NEW b \in Seq(Byte)
  PROVE  LET c == a \o b
             n == Len(a)
         IN  /\ n \in Nat /\ Len(b) \in Nat /\ c \in Seq(Byte) /\ Len(c) = n + Len(b)
             /\ Holds(c, 0, a) /\ Holds(c, n, b)
<1> DEFINE c == a \o b
           n == Len(a)
<1>1. /\ n \in Nat /\ Len(b) \in Nat /\ c \in Seq(Byte) /\ Len(c) = n + Len(b)
      /\ \A x \in 1 .. n : c[x] = a[x]
      /\ \A x \in 1 .. Len(b) : c[n + x] = b[x]
  BY Joined
<1> HIDE DEF c, n
<1>2. 0 + n <= Len(c) /\ n + Len(b) <= Len(c) /\ \A x \in 1 .. n : 0 + x = x
  BY <1>1
<1>3. Holds(c, 0, a) /\ Holds(c, n, b)
  BY <1>1, <1>2 DEF Holds, n
<1> QED
  BY <1>1, <1>3 DEF c, n

\* What is read at a place of a stream is read there of every stream that
\* holds the same bytes, d places further on.
LEMMA SameHeader ==
  ASSUME NEW a, NEW c, NEW d, Holds(c, d, a), NEW p \in Nat, p + 6 <= Len(a)
  PROVE  /\ IdAt(c, d + p) = IdAt(a, p) /\ EndAt(c, d + p) = d + EndAt(a, p)
         /\ NextAt(c, d + p) = d + NextAt(a, p)
         /\ EndAt(a, p) <= Len(a) =>
              Slice(c, d + p + 6, EndAt(c, d + p)) = Slice(a, p + 6, EndAt(a, p))
<1>1. /\ a \in Seq(Byte) /\ c \in Seq(Byte) /\ d \in Nat
      /\ Len(a) \in Nat /\ Len(c) \in Nat /\ d + Len(a) <= Len(c)
      /\ \A x \in 1 .. Len(a) : c[d + x] = a[x]
  BY LenProperties DEF Holds
<1>2. ASSUME NEW m \in Nat, NEW n \in m .. Len(a)
      PROVE  Slice(c, d + m, d + n) = Slice(a, m, n)
  <2>1. d + n <= Len(c) /\ \A x \in 1 .. n : c[d + x] = a[x]
    BY <1>1
  <2>2. a \in Seq(Byte) /\ c \in Seq(Byte) /\ d \in Nat
    BY <1>1
  <2> QED
    BY <2>1, <2>2, SliceSame
<1>3. Slice(c, d + p, d + (p + 2)) = Slice(a, p, p + 2)
  <2>1. p + 2 \in p .. Len(a)
    BY <1>1
  <2> QED
    BY <1>2, <2>1
<1>4. Slice(c, d + (p + 2), d + (p + 6)) = Slice(a, p + 2, p + 6)
  <2>1. p + 2 \in Nat /\ p + 6 \in p + 2 .. Len(a)
    BY <1>1
  <2> QED
    BY <1>2, <2>1
<1>5. /\ d + (p + 2) = (d + p) + 2 /\ d + (p + 6) = (d + p) + 6
  BY <1>1
<1>6. IdAt(c, d + p) = IdAt(a, p)
  BY <1>3, <1>5 DEF IdAt
<1> DEFINE size == le32(Slice(a, p + 2, p + 6))
<1>7. EndAt(c, d + p) = (d + p) + 6 + size /\ EndAt(a, p) = p + 6 + size
  BY <1>4, <1>5 DEF EndAt
<1>8. EndAt(a, p) \in Nat /\ EndAt(a, p) >= p + 6 /\ size \in Nat
  <2>1. EndAt(a, p) \in Nat /\ EndAt(a, p) >= p + 6
    BY <1>1, HeaderAt
  <2>2. Slice(a, p + 2, p + 6) \in Seq(Byte)
    <3>1. p + 2 \in Nat /\ p + 6 \in p + 2 .. Len(a)
      BY <1>1
    <3> QED
      BY <1>1, <3>1, SliceIs
  <2> QED
    BY <2>1, <2>2, NumbersRead
<1> HIDE DEF size
<1>9. EndAt(c, d + p) = d + EndAt(a, p)
  BY <1>1, <1>7, <1>8
<1>10. NextAt(c, d + p) = d + NextAt(a, p)
  <2>1. (d + p) + 12 = d + (p + 12)
    BY <1>1
  <2> QED
    BY <1>6, <1>9, <2>1 DEF NextAt
<1>11. ASSUME EndAt(a, p) <= Len(a)
       PROVE  Slice(c, d + p + 6, EndAt(c, d + p)) = Slice(a, p + 6, EndAt(a, p))
  <2>1. p + 6 \in Nat /\ EndAt(a, p) \in p + 6 .. Len(a)
    BY <1>1, <1>8, <1>11
  <2>2. Slice(c, d + (p + 6), d + EndAt(a, p)) = Slice(a, p + 6, EndAt(a, p))
    BY <1>2, <2>1
  <2> QED
    BY <1>5, <1>9, <2>2
<1> QED
  BY <1>6, <1>9, <1>10, <1>11

\* The walk gets to the very end of b, over the places in P.
IsPath(b, P) ==
  /\ P \in SUBSET (0 .. Len(b)) /\ 0 \in P /\ Len(b) \in P
  /\ \A p \in P : p # Len(b) => p + 6 <= Len(b) /\ NextAt(b, p) \in P

Clean(b) == \E P : IsPath(b, P)

\* A non-empty bounded set of numbers has a greatest element.
LEMMA GreatestOf ==
  ASSUME NEW n \in Nat, NEW T \in SUBSET (0 .. n), T # {}
  PROVE  \E x \in T : \A y \in T : y <= x
<1> DEFINE Above == {m \in 0 .. n : \A y \in T : y <= m}
<1>1. n \in Above
  OBVIOUS
<1>2. PICK x \in Above : \A m \in Above : x <= m
  <2>1. Above \in SUBSET Nat /\ Above # {}
    BY <1>1
  <2> HIDE DEF Above
  <2> QED
    BY <2>1, LeastOf
<1>3. x \in 0 .. n /\ \A y \in T : y <= x
  BY <1>2
<1>4. x \in T
  <2> SUFFICES ASSUME x \notin T
               PROVE  FALSE
    OBVIOUS
  <2>1. \A y \in T : y <= x - 1 /\ x - 1 \in 0 .. n
    BY <1>3
  <2>2. x - 1 \in Above
    BY <2>1
  <2> QED
    BY <1>2, <1>3, <2>2
<1> QED
  BY <1>3, <1>4

\* The walk over a stream with a clean beginning walks over that, then over
\* the rest.
LEMMA WalkConcat ==
  ASSUME NEW a \in Seq(Byte), NEW b \in Seq(Byte), Clean(a)
  PROVE  Walk(a \o b) = Walk(a) \o Walk(b)
<1> DEFINE c == a \o b
           n == Len(a)
<1>1. /\ n \in Nat /\ Len(b) \in Nat /\ c \in Seq(Byte) /\ Len(c) = n + Len(b)
      /\ Holds(c, 0, a) /\ Holds(c, n, b)
  BY HoldsBoth
<1> HIDE DEF c, n
<1>2. PICK f : IsWalk(c, f, 0) /\ Walk(c) = f[0]
  BY <1>1, WalkIs
<1>3. PICK fa : IsWalk(a, fa, 0) /\ Walk(a) = fa[0]
  BY WalkIs
<1>4. PICK fb : IsWalk(b, fb, 0) /\ Walk(b) = fb[0]
  BY WalkIs
<1>5. /\ \A p \in 0 .. Len(c) + 6 : f[p] = WalkAt(c, f, p)
      /\ \A p \in 0 .. n + 6 : fa[p] = WalkAt(a, fa, p) /\ fa[p] \in Seq(FoundRecord)
      /\ \A p \in 0 .. Len(b) + 6 : fb[p] = WalkAt(b, fb, p) /\ fb[p] \in Seq(FoundRecord)
  BY <1>2, <1>3, <1>4 DEF IsWalk, n
<1>6. ASSUME NEW q \in 0 .. Len(b) + 6, \A x \in q + 1 .. Len(b) + 6 : f[n + x] = fb[x]
      PROVE  f[n + q] = fb[q]
  <2>1. /\ f[n + q] = WalkAt(c, f, n + q) /\ fb[q] = WalkAt(b, fb, q) /\ q \in Nat
        /\ (n + q) + 6 > Len(c) <=> q + 6 > Len(b)
    BY <1>1, <1>5
  <2>2. CASE q + 6 > Len(b)
    BY <2>1, <2>2 DEF WalkAt
  <2>3. CASE q + 6 <= Len(b)
    <3>1. /\ IdAt(c, n + q) = IdAt(b, q) /\ EndAt(c, n + q) = n + EndAt(b, q)
          /\ EndAt(b, q) <= Len(b) =>
               Slice(c, n + q + 6, EndAt(c, n + q)) = Slice(b, q + 6, EndAt(b, q))
      BY <1>1, <2>1, <2>3, SameHeader
    <3>2. EndAt(b, q) \in Nat /\ EndAt(b, q) >= q + 6
      BY <2>1, <2>3, HeaderAt
    <3> DEFINE e == EndAt(b, q)
    <3>3. /\ EndAt(c, n + q) > Len(c) <=> e > Len(b)
          /\ ~(q + 6 > Len(b)) /\ ~((n + q) + 6 > Len(c))
      BY <1>1, <2>1, <2>3, <3>1, <3>2
    <3>4. CASE IdAt(b, q) = Version
      <4>1. q + 12 \in q + 1 .. Len(b) + 6 /\ n + (q + 12) = (n + q) + 12
        BY <1>1, <2>1, <2>3
      <4>2. f[(n + q) + 12] = fb[q + 12]
        BY <1>6, <4>1
      <4> QED
        BY <2>1, <3>1, <3>3, <3>4, <4>2 DEF WalkAt
    <3>5. CASE IdAt(b, q) # Version /\ e > Len(b)
      BY <2>1, <3>1, <3>3, <3>5 DEF WalkAt
    <3>6. CASE IdAt(b, q) # Version /\ e <= Len(b)
      <4>1. e \in q + 1 .. Len(b) + 6 /\ ~(e > Len(b))
        BY <1>1, <2>1, <3>2, <3>6
      <4>2. f[n + e] = fb[e]
        BY <1>6, <4>1
      <4> QED
        BY <2>1, <3>1, <3>3, <3>6, <4>1, <4>2 DEF WalkAt
    <3> QED
      BY <1>1, <3>2, <3>4, <3>5, <3>6
  <2> QED
    BY <1>1, <2>1, <2>2, <2>3
<1>7. f[n] = fb[0]
  <2> DEFINE Bad == {q \in 0 .. Len(b) + 6 : f[n + q] # fb[q]}
  <2>1. Bad = {}
    <3> SUFFICES ASSUME Bad # {}
                 PROVE  FALSE
      OBVIOUS
    <3>1. Len(b) + 6 \in Nat
      BY <1>1
    <3>2. PICK q \in Bad : \A y \in Bad : y <= q
      <4>1. Bad \in SUBSET (0 .. Len(b) + 6)
        OBVIOUS
      <4> HIDE DEF Bad
      <4> QED
        BY <3>1, <4>1, GreatestOf
    <3>3. q \in 0 .. Len(b) + 6 /\ f[n + q] # fb[q]
      BY <3>2
    <3>4. \A x \in q + 1 .. Len(b) + 6 : x \in 0 .. Len(b) + 6 /\ ~(x <= q)
      BY <3>1, <3>3
    <3>5. \A x \in q + 1 .. Len(b) + 6 : f[n + x] = fb[x]
      BY <3>2, <3>4
    <3> QED
      BY <1>6, <3>3, <3>5
  <2>2. 0 \in 0 .. Len(b) + 6 /\ n + 0 = n
    BY <1>1
  <2> QED
    BY <2>1, <2>2
<1>8. PICK P : IsPath(a, P)
  BY DEF Clean
<1>9. /\ P \in SUBSET (0 .. n) /\ 0 \in P /\ n \in P
      /\ \A p \in P : p # n => p + 6 <= n /\ NextAt(a, p) \in P
  BY <1>8 DEF IsPath, n
<1>10. ASSUME NEW p \in P, \A x \in P : x > p => f[x] = fa[x] \o fb[0]
       PROVE  f[p] = fa[p] \o fb[0]
  <2>1. /\ p \in 0 .. n /\ p \in Nat /\ p \in 0 .. n + 6 /\ p \in 0 .. Len(c) + 6
        /\ f[p] = WalkAt(c, f, p) /\ fa[p] = WalkAt(a, fa, p) /\ fb[0] \in Seq(FoundRecord)
    BY <1>1, <1>5, <1>9
  <2>2. CASE p = n
    <3>1. p + 6 > Len(a)
      BY <1>1, <2>2 DEF n
    <3>2. fa[p] = << >>
      BY <2>1, <3>1 DEF WalkAt
    <3>3. << >> \o fb[0] = fb[0]
      BY <2>1, ConcatEmptySeq
    <3> QED
      BY <1>7, <2>2, <3>2, <3>3
  <2>3. CASE p # n
    <3>1. p + 6 <= n /\ NextAt(a, p) \in P
      BY <1>9, <2>3
    <3>2. 0 + p = p /\ p + 6 <= Len(a)
      BY <2>1, <3>1 DEF n
    <3>3. /\ IdAt(c, 0 + p) = IdAt(a, p) /\ EndAt(c, 0 + p) = 0 + EndAt(a, p)
          /\ EndAt(a, p) <= Len(a) =>
               Slice(c, 0 + p + 6, EndAt(c, 0 + p)) = Slice(a, p + 6, EndAt(a, p))
      BY <1>1, <2>1, <3>2, SameHeader
    <3>4. /\ EndAt(a, p) \in Nat /\ EndAt(a, p) >= p + 6
          /\ NextAt(a, p) \in Nat /\ NextAt(a, p) >= p + 6
      BY <2>1, <3>2, HeaderAt
    <3>5. /\ IdAt(c, p) = IdAt(a, p) /\ EndAt(c, p) = EndAt(a, p)
          /\ EndAt(a, p) <= n => Slice(c, p + 6, EndAt(c, p)) = Slice(a, p + 6, EndAt(a, p))
          /\ ~(p + 6 > Len(a)) /\ ~(p + 6 > Len(c))
      BY <1>1, <2>1, <3>1, <3>2, <3>3, <3>4 DEF n
    <3> DEFINE y == NextAt(a, p)
    <3>6. /\ y \in 0 .. n /\ y > p /\ y <= n /\ y <= Len(c)
          /\ f[y] = fa[y] \o fb[0] /\ fa[y] \in Seq(FoundRecord)
      <4>1. y \in P /\ y > p
        BY <2>1, <3>1, <3>4
      <4>2. f[y] = fa[y] \o fb[0]
        BY <1>10, <4>1
      <4> HIDE DEF y
      <4>3. y \in 0 .. n /\ y \in 0 .. n + 6
        <5>1. y \in 0 .. n
          BY <1>9, <4>1
        <5> QED
          BY <1>1, <5>1
      <4>4. y <= n /\ y <= Len(c)
        BY <1>1, <4>3
      <4> QED
        BY <1>5, <4>1, <4>2, <4>3, <4>4
    <3>7. CASE IdAt(a, p) = Version
      <4>1. y = p + 12
        BY <3>7 DEF NextAt
      <4>2. f[p] = f[y] /\ fa[p] = fa[y]
        BY <2>1, <3>5, <3>7, <4>1 DEF WalkAt
      <4> QED
        BY <3>6, <4>2
    <3>8. CASE IdAt(a, p) # Version
      <4> DEFINE r == [id |-> IdAt(a, p), payload |-> Slice(a, p + 6, EndAt(a, p))]
      <4>1. y = EndAt(a, p)
        BY <3>8 DEF NextAt
      <4>2. /\ ~(EndAt(a, p) > Len(a)) /\ ~(EndAt(c, p) > Len(c)) /\ EndAt(a, p) <= n
        BY <1>1, <3>4, <3>5, <3>6, <4>1 DEF n
      <4>3. fa[p] = << r >> \o fa[y]
        BY <2>1, <3>5, <3>8, <4>1, <4>2 DEF WalkAt
      <4>4. f[p] = << r >> \o f[y]
        BY <2>1, <3>5, <3>8, <4>1, <4>2 DEF WalkAt
      <4>5. r \in FoundRecord
        BY <2>1, <3>2, <4>2, HeaderAt DEF n
      <4> HIDE DEF r, y
      <4>6. << r >> \in Seq(FoundRecord)
        BY <4>5
      <4>7. (<< r >> \o fa[y]) \o fb[0] = << r >> \o (fa[y] \o fb[0])
        <5>1. \A s, t, u \in Seq(FoundRecord) : (s \o t) \o u = s \o (t \o u)
          BY ConcatAssociative
        <5> QED
          BY <2>1, <3>6, <4>6, <5>1
      <4> QED
        BY <3>6, <4>3, <4>4, <4>7
    <3> QED
      BY <3>7, <3>8
  <2> QED
    BY <2>2, <2>3
<1>11. f[0] = fa[0] \o fb[0]
  <2> DEFINE Bad == {p \in P : f[p] # fa[p] \o fb[0]}
  <2>1. Bad = {}
    <3> SUFFICES ASSUME Bad # {}
                 PROVE  FALSE
      OBVIOUS
    <3>1. PICK p \in Bad : \A y \in Bad : y <= p
      <4>1. Bad \in SUBSET (0 .. n)
        BY <1>9
      <4> HIDE DEF Bad
      <4> QED
        BY <1>1, <4>1, GreatestOf
    <3>2. p \in P /\ p \in 0 .. n /\ f[p] # fa[p] \o fb[0]
      BY <1>9, <3>1
    <3>3. \A x \in P : x > p => ~(x <= p)
      BY <1>9, <3>2
    <3>4. \A x \in P : x > p => f[x] = fa[x] \o fb[0]
      BY <3>1, <3>3
    <3> QED
      BY <1>10, <3>2, <3>4
  <2> QED
    BY <1>9, <2>1
<1> QED
  BY <1>2, <1>3, <1>4, <1>11 DEF c

\* Clean streams, one behind the other, are clean.
LEMMA CleanConcat ==
  ASSUME NEW a \in Seq(Byte), NEW b \in Seq(Byte), Clean(a), Clean(b)
  PROVE  Clean(a \o b)
<1> DEFINE c == a \o b
           n == Len(a)
<1>1. /\ n \in Nat /\ Len(b) \in Nat /\ c \in Seq(Byte) /\ Len(c) = n + Len(b)
      /\ Holds(c, 0, a) /\ Holds(c, n, b)
  BY HoldsBoth
<1> HIDE DEF c, n
<1>2. PICK A : IsPath(a, A)
  BY DEF Clean
<1>3. PICK B : IsPath(b, B)
  BY DEF Clean
<1>4. /\ A \in SUBSET (0 .. n) /\ 0 \in A /\ n \in A
      /\ \A p \in A : p # n => p + 6 <= n /\ NextAt(a, p) \in A
  BY <1>2 DEF IsPath, n
<1>5. /\ B \in SUBSET (0 .. Len(b)) /\ 0 \in B /\ Len(b) \in B
      /\ \A p \in B : p # Len(b) => p + 6 <= Len(b) /\ NextAt(b, p) \in B
  BY <1>3 DEF IsPath
<1> DEFINE P == A \cup {n + q : q \in B}
<1>6. P \in SUBSET (0 .. Len(c)) /\ 0 \in P /\ Len(c) \in P
  <2>1. \A p \in A : p \in 0 .. Len(c)
    BY <1>1, <1>4
  <2>2. \A q \in B : n + q \in 0 .. Len(c)
    BY <1>1, <1>5
  <2>3. Len(c) \in {n + q : q \in B}
    BY <1>1, <1>5
  <2> QED
    BY <1>4, <2>1, <2>2, <2>3
<1>7. ASSUME NEW p \in A, p # n
      PROVE  p + 6 <= Len(c) /\ NextAt(c, p) \in P
  <2>1. p \in Nat /\ p + 6 <= n /\ p + 6 <= Len(a) /\ p + 6 <= Len(c) /\ NextAt(a, p) \in A
    BY <1>1, <1>4, <1>7 DEF n
  <2>2. NextAt(a, p) \in Nat
    BY <2>1, HeaderAt
  <2>3. NextAt(c, 0 + p) = 0 + NextAt(a, p)
    BY <1>1, <2>1, SameHeader
  <2>4. NextAt(c, p) = NextAt(a, p)
    BY <2>1, <2>2, <2>3
  <2> QED
    BY <2>1, <2>4
<1>8. ASSUME NEW q \in B, n + q # Len(c)
      PROVE  (n + q) + 6 <= Len(c) /\ NextAt(c, n + q) \in P
  <2>1. q # Len(b) /\ q \in Nat
    BY <1>1, <1>5, <1>8
  <2>2. q + 6 <= Len(b) /\ NextAt(b, q) \in B
    BY <1>5, <2>1
  <2>3. NextAt(c, n + q) = n + NextAt(b, q)
    BY <1>1, <2>1, <2>2, SameHeader
  <2>4. (n + q) + 6 <= Len(c)
    BY <1>1, <2>1, <2>2
  <2> QED
    BY <2>2, <2>3, <2>4
<1>9. ASSUME NEW p \in P, p # Len(c)
      PROVE  p + 6 <= Len(c) /\ NextAt(c, p) \in P
  <2>1. n = n + 0 /\ 0 \in B
    BY <1>1, <1>5
  <2>2. (p \in A /\ p # n) \/ \E q \in B : p = n + q
    BY <2>1
  <2> HIDE DEF P
  <2> QED
    BY <1>7, <1>8, <1>9, <2>2
<1>10. IsPath(c, P)
  <2> HIDE DEF P
  <2> QED
    BY <1>6, <1>9 DEF IsPath
<1> QED
  BY <1>10 DEF Clean, c

\* What is left of a clean stream behind a clean beginning is clean.
LEMMA CleanRest ==
  ASSUME NEW a \in Seq(Byte), NEW b \in Seq(Byte), Clean(a), Clean(a \o b)
  PROVE  Clean(b)
<1> DEFINE c == a \o b
           n == Len(a)
<1>1. /\ n \in Nat /\ Len(b) \in Nat /\ c \in Seq(Byte) /\ Len(c) = n + Len(b)
      /\ Holds(c, 0, a) /\ Holds(c, n, b)
  BY HoldsBoth
<1>2. PICK A : IsPath(a, A)
  BY DEF Clean
<1>3. PICK C : IsPath(c, C)
  BY DEF Clean
<1> HIDE DEF c, n
<1>4. /\ A \in SUBSET (0 .. n) /\ 0 \in A
      /\ \A p \in A : p # n => p + 6 <= n /\ NextAt(a, p) \in A
  BY <1>2 DEF IsPath, n
<1>5. /\ C \in SUBSET (0 .. Len(c)) /\ 0 \in C /\ Len(c) \in C
      /\ \A p \in C : p # Len(c) => p + 6 <= Len(c) /\ NextAt(c, p) \in C
  BY <1>3 DEF IsPath
<1>6. PICK p \in A \cap C : \A y \in A \cap C : y <= p
  <2>1. A \cap C \in SUBSET (0 .. n) /\ A \cap C # {}
    BY <1>4, <1>5
  <2> QED
    BY <1>1, <2>1, GreatestOf
<1>7. p = n
  <2> SUFFICES ASSUME p # n
               PROVE  FALSE
    OBVIOUS
  <2>1. p \in Nat /\ p + 6 <= n /\ p + 6 <= Len(a) /\ NextAt(a, p) \in A /\ p # Len(c)
    BY <1>1, <1>4, <1>6 DEF n
  <2>2. NextAt(a, p) \in Nat /\ NextAt(a, p) >= p + 6
    BY <2>1, HeaderAt
  <2>3. NextAt(c, 0 + p) = 0 + NextAt(a, p)
    BY <1>1, <2>1, SameHeader
  <2>4. NextAt(c, p) = NextAt(a, p) /\ ~(NextAt(a, p) <= p)
    BY <2>1, <2>2, <2>3
  <2>5. NextAt(a, p) \in A \cap C
    BY <1>5, <1>6, <2>1, <2>4
  <2> QED
    BY <1>6, <2>4, <2>5
<1> DEFINE B == {q \in 0 .. Len(b) : n + q \in C}
<1>8. B \in SUBSET (0 .. Len(b)) /\ 0 \in B /\ Len(b) \in B
  <2>1. n + 0 \in C /\ n + Len(b) \in C /\ 0 \in 0 .. Len(b) /\ Len(b) \in 0 .. Len(b)
    BY <1>1, <1>5, <1>6, <1>7
  <2> QED
    BY <2>1
<1>9. ASSUME NEW q \in B, q # Len(b)
      PROVE  q + 6 <= Len(b) /\ NextAt(b, q) \in B
  <2>1. q \in 0 .. Len(b) /\ q \in Nat /\ n + q \in C /\ n + q # Len(c)
    BY <1>1, <1>9
  <2>2. (n + q) + 6 <= Len(c) /\ NextAt(c, n + q) \in C
    BY <1>5, <2>1
  <2>3. q + 6 <= Len(b)
    BY <1>1, <2>1, <2>2
  <2>4. NextAt(c, n + q) = n + NextAt(b, q)
    BY <1>1, <2>1, <2>3, SameHeader
  <2>5. NextAt(b, q) \in Nat
    BY <2>1, <2>3, HeaderAt
  <2>6. n + NextAt(b, q) \in C /\ n + NextAt(b, q) \in 0 .. Len(c)
    BY <1>5, <2>2, <2>4
  <2>7. NextAt(b, q) \in 0 .. Len(b)
    BY <1>1, <2>5, <2>6
  <2> QED
    BY <2>3, <2>6, <2>7
<1>10. IsPath(b, B)
  <2> HIDE DEF B
  <2> QED
    BY <1>8, <1>9 DEF IsPath
<1> QED
  BY <1>10 DEF Clean

\* An empty stream, and one of a single record.
LEMMA NoBytes == Clean(<< >>) /\ Walk(<< >>) = << >>
<1>1. << >> \in Seq(Byte) /\ Len(<< >>) = 0
  OBVIOUS
<1>2. IsPath(<< >>, {0})
  BY <1>1 DEF IsPath
<1>3. PICK f : IsWalk(<< >>, f, 0) /\ Walk(<< >>) = f[0]
  BY <1>1, WalkIs
<1>4. f[0] = WalkAt(<< >>, f, 0) /\ 0 + 6 > Len(<< >>)
  BY <1>1, <1>3 DEF IsWalk
<1> QED
  BY <1>2, <1>3, <1>4 DEF Clean, WalkAt

\* The record at p, or none where PROJECTVERSION stands.
RecordAt(b, p) ==
  IF IdAt(b, p) = Version THEN << >>
  ELSE << [id |-> IdAt(b, p), payload |-> Slice(b, p + 6, EndAt(b, p))] >>

\* The walk over a single record.
LEMMA OneRecord ==
  ASSUME NEW b \in Seq(Byte), Len(b) >= 6, NextAt(b, 0) = Len(b)
  PROVE  Clean(b) /\ Walk(b) = RecordAt(b, 0)
<1>1. Len(b) \in Nat
  BY LenProperties
<1>2. IsPath(b, {0, Len(b)})
  BY <1>1 DEF IsPath
<1>3. PICK f : IsWalk(b, f, 0) /\ Walk(b) = f[0]
  BY WalkIs
<1>4. f[0] = WalkAt(b, f, 0) /\ f[Len(b)] = WalkAt(b, f, Len(b))
  BY <1>1, <1>3 DEF IsWalk
<1>5. f[Len(b)] = << >>
  <2>1. Len(b) + 6 > Len(b)
    BY <1>1
  <2> QED
    BY <1>4, <2>1 DEF WalkAt
<1>6. ~(0 + 6 > Len(b)) /\ ~(Len(b) > Len(b))
  BY <1>1
<1>7. CASE IdAt(b, 0) = Version
  <2>1. 0 + 12 = Len(b)
    BY <1>7 DEF NextAt
  <2>2. f[0] = f[0 + 12]
    BY <1>4, <1>6, <1>7 DEF WalkAt
  <2> QED
    BY <1>2, <1>3, <1>5, <1>7, <2>1, <2>2 DEF Clean, RecordAt
<1>8. CASE IdAt(b, 0) # Version
  <2> DEFINE r == [id |-> IdAt(b, 0), payload |-> Slice(b, 0 + 6, EndAt(b, 0))]
  <2>1. EndAt(b, 0) = Len(b)
    BY <1>8 DEF NextAt
  <2>2. f[0] = << r >> \o f[EndAt(b, 0)]
    BY <1>4, <1>6, <1>8, <2>1 DEF WalkAt
  <2>3. RecordAt(b, 0) = << r >>
    BY <1>8 DEF RecordAt
  <2>4. << r >> \o << >> = << r >>
    <3> HIDE DEF r
    <3>1. << r >> \in Seq({r})
      OBVIOUS
    <3> QED
      BY <3>1, ConcatEmptySeq
  <2> QED
    BY <1>2, <1>3, <1>5, <2>1, <2>2, <2>3, <2>4 DEF Clean
<1> QED
  BY <1>7, <1>8

\* The walk up to p goes on to the record at p.
LEMMA WalkOn ==
  ASSUME NEW b \in Seq(Byte), NEW p \in Nat, p + 6 <= Len(b), NextAt(b, p) <= Len(b),
         Clean(Slice(b, 0, p))
  PROVE  LET y == NextAt(b, p)
         IN  Clean(Slice(b, 0, y)) /\ Walk(Slice(b, 0, y)) = Walk(Slice(b, 0, p)) \o RecordAt(b, p)
<1> DEFINE y == NextAt(b, p)
           a == Slice(b, 0, p)
           s == Slice(b, p, y)
<1>1. /\ Len(b) \in Nat /\ y \in Nat /\ y >= p + 6 /\ y <= Len(b)
      /\ EndAt(b, p) \in Nat
  BY HeaderAt, LenProperties
<1> HIDE DEF y
<1>2. /\ a \in Seq(Byte) /\ Len(a) = p
  <2>1. p \in 0 .. Len(b) /\ p - 0 = p
    BY <1>1
  <2> QED
    BY <2>1, SliceIs
<1>3. /\ s \in Seq(Byte) /\ Len(s) = y - p /\ \A x \in 1 .. y - p : s[x] = b[p + x]
  <2>1. y \in p .. Len(b)
    BY <1>1
  <2> QED
    BY <2>1, SliceIs
<1>4. Slice(b, 0, y) = a \o s
  <2>1. 0 + 1 \in 1 .. Len(b) + 1 /\ p \in (0 + 1) - 1 .. Len(b) /\ y \in p .. Len(b)
    BY <1>1
  <2>2. SubSeq(b, 0 + 1, p) \o SubSeq(b, p + 1, y) = SubSeq(b, 0 + 1, y)
    BY <2>1, ConcatAdjacentSubSeq
  <2> QED
    BY <2>2 DEF Slice
<1> HIDE DEF a, s
<1>5. Holds(b, p, s) /\ 0 + 6 <= Len(s) /\ Len(s) >= 6
  BY <1>1, <1>3 DEF Holds
<1>6. /\ IdAt(b, p + 0) = IdAt(s, 0) /\ EndAt(b, p + 0) = p + EndAt(s, 0)
      /\ NextAt(b, p + 0) = p + NextAt(s, 0)
      /\ EndAt(s, 0) <= Len(s) =>
           Slice(b, p + 0 + 6, EndAt(b, p + 0)) = Slice(s, 0 + 6, EndAt(s, 0))
  BY <1>5, SameHeader
<1>7. /\ EndAt(s, 0) \in Nat /\ NextAt(s, 0) \in Nat
  BY <1>3, <1>5, HeaderAt
<1>8. p + 0 = p /\ p + 0 + 6 = p + 6
  OBVIOUS
<1>9. NextAt(s, 0) = Len(s)
  <2>1. y = p + NextAt(s, 0)
    BY <1>6, <1>8 DEF y
  <2> QED
    BY <1>1, <1>3, <1>7, <2>1
<1>10. Clean(s) /\ Walk(s) = RecordAt(s, 0)
  BY <1>3, <1>5, <1>9, OneRecord
<1>11. RecordAt(s, 0) = RecordAt(b, p)
  <2>1. CASE IdAt(b, p) = Version
    BY <1>6, <1>8, <2>1 DEF RecordAt
  <2>2. CASE IdAt(b, p) # Version
    <3>1. EndAt(s, 0) <= Len(s)
      BY <1>1, <1>3, <1>6, <1>8, <1>9, <2>2 DEF NextAt
    <3>2. Slice(b, p + 6, EndAt(b, p)) = Slice(s, 0 + 6, EndAt(s, 0))
      BY <1>6, <1>8, <3>1
    <3> QED
      BY <1>6, <1>8, <2>2, <3>2 DEF RecordAt
  <2> QED
    BY <2>1, <2>2
<1>12. Clean(a)
  BY DEF a
<1> QED
  BY <1>2, <1>3, <1>4, <1>10, <1>11, <1>12, CleanConcat, WalkConcat DEF y, a

-----------------------------------------------------------------------------
(***************************************************************************)
(* What the loop has left behind the first m records.                      *)
(***************************************************************************)

\* What DirStream sees of a record.
LEMMA AbstractIs ==
  ASSUME NEW r
  PROVE  /\ Abstract(r).id = "PROJECTCODEPAGE" <=> r.id = CodePageId
         /\ Abstract(r).id = "REFERENCENAME" <=> r.id = ReferenceName
         /\ Abstract(r).id = "PROJECTMODULES" <=> r.id = ProjectModules
         /\ Abstract(r).id = "MODULENAME" <=> r.id = ModuleName
         /\ Abstract(r).id = "MODULESTREAMNAME" <=> r.id = StreamNameId
         /\ Abstract(r).id = "MODULEOFFSET" <=> r.id = ModuleOffset
         /\ Abstract(r).id = "MODULETYPE" <=> r.id \in {ProcModule, OtherModule}
         /\ r.id = CodePageId => Abstract(r).val = le16(r.payload)
         /\ r.id \in {ReferenceName, ModuleName, StreamNameId} => Abstract(r).val = r.payload
         /\ r.id = ModuleOffset => Abstract(r).val = le32(r.payload)
         /\ r.id \in {ProcModule, OtherModule} => Abstract(r).val = r.id
<1> DEFINE a == Abstract(r)
<1>0. /\ CodePageId = 3 /\ ReferenceName = 22 /\ ProjectModules = 15 /\ ModuleName = 25
      /\ StreamNameId = 26 /\ ModuleOffset = 49 /\ ProcModule = 33 /\ OtherModule = 34
  BY DEF CodePageId, ReferenceName, ProjectModules, ModuleName, StreamNameId, ModuleOffset,
         ProcModule, OtherModule
<1>1. /\ r.id = CodePageId => a = D!Rec("PROJECTCODEPAGE", le16(r.payload))
      /\ r.id = ReferenceName => a = D!Rec("REFERENCENAME", r.payload)
      /\ r.id = ProjectModules => a = D!Rec("PROJECTMODULES", le16(r.payload))
      /\ r.id = ModuleName => a = D!Rec("MODULENAME", r.payload)
      /\ r.id = StreamNameId => a = D!Rec("MODULESTREAMNAME", r.payload)
      /\ r.id = ModuleOffset => a = D!Rec("MODULEOFFSET", le32(r.payload))
      /\ r.id \in {ProcModule, OtherModule} => a = D!Rec("MODULETYPE", r.id)
      /\ r.id \notin {CodePageId, ReferenceName, ProjectModules, ModuleName, StreamNameId,
                      ModuleOffset, ProcModule, OtherModule} => a = D!Rec("OTHER", 0)
  BY <1>0 DEF Abstract
<1>2. \A id, val : D!Rec(id, val).id = id /\ D!Rec(id, val).val = val
  BY DEF D!Rec
<1> HIDE DEF a
<1>3. \/ r.id \in {CodePageId, ReferenceName, ProjectModules, ModuleName, StreamNameId,
                   ModuleOffset, ProcModule, OtherModule}
      \/ a.id = "OTHER"
  BY <1>1, <1>2
<1>4. /\ r.id = CodePageId => a.id = "PROJECTCODEPAGE" /\ a.val = le16(r.payload)
      /\ r.id = ReferenceName => a.id = "REFERENCENAME" /\ a.val = r.payload
      /\ r.id = ProjectModules => a.id = "PROJECTMODULES"
      /\ r.id = ModuleName => a.id = "MODULENAME" /\ a.val = r.payload
      /\ r.id = StreamNameId => a.id = "MODULESTREAMNAME" /\ a.val = r.payload
      /\ r.id = ModuleOffset => a.id = "MODULEOFFSET" /\ a.val = le32(r.payload)
      /\ r.id \in {ProcModule, OtherModule} => a.id = "MODULETYPE" /\ a.val = r.id
  BY <1>1, <1>2
<1> QED
  BY <1>0, <1>3, <1>4 DEF a

\* One record more, and the last of a kind.
LEMMA LastValMore ==
  ASSUME NEW s, NEW n \in Nat, DOMAIN s = 1 .. n, NEW id, NEW default,
         NEW from \in Nat, NEW m \in Nat, m + 1 \in 1 .. n, from <= m + 1
  PROVE  D!LastVal(s, id, from, m + 1, default)
           = IF s[m + 1].id = id THEN s[m + 1].val ELSE D!LastVal(s, id, from, m, default)
<1> DEFINE hits(to) == {x \in 1 .. n : s[x].id = id} \cap (from .. to)
           y == m + 1
<1>1. \A to : D!LastVal(s, id, from, to, default)
                = IF hits(to) = {} THEN default ELSE s[Max(hits(to))].val
  <2>1. D!At(s, {id}) = {x \in 1 .. n : s[x].id = id}
    BY DEF D!At
  <2> QED
    BY <2>1, SameSets DEF D!LastVal
<1>2. y \in 1 .. n /\ y \in Nat /\ from <= y /\ y = m + 1
  OBVIOUS
<1> HIDE DEF y
<1>3. CASE s[y].id = id
  <2>1. y \in hits(y) /\ hits(y) \in SUBSET Nat /\ \A x \in hits(y) : x <= y
    BY <1>2, <1>3
  <2> HIDE DEF hits
  <2>2. Max(hits(y)) = y /\ hits(y) # {}
    BY <2>1, GreatestIs
  <2> QED
    BY <1>1, <1>3, <2>2 DEF y
<1>4. CASE s[y].id # id
  <2>1. hits(y) = hits(m)
    <3>1. ASSUME NEW x \in hits(y)
          PROVE  x \in hits(m)
      <4>1. x \in 1 .. n /\ s[x].id = id /\ x \in from .. y /\ x # y
        BY <1>4
      <4>2. x \in from .. m
        BY <1>2, <4>1
      <4> QED
        BY <4>1, <4>2
    <3>2. ASSUME NEW x \in hits(m)
          PROVE  x \in hits(y)
      <4>1. x \in 1 .. n /\ s[x].id = id /\ x \in from .. m
        OBVIOUS
      <4>2. x \in from .. y
        BY <1>2, <4>1
      <4> QED
        BY <4>1, <4>2
    <3> HIDE DEF hits
    <3> QED
      BY <3>1, <3>2
  <2> HIDE DEF hits
  <2> QED
    BY <1>1, <1>4, <2>1 DEF y
<1> QED
  BY <1>3, <1>4 DEF y

\* Where no record is looked at, there is none.
LEMMA LastValNone ==
  ASSUME NEW s, NEW n \in Nat, DOMAIN s = 1 .. n, NEW id, NEW default,
         NEW from \in Nat, NEW m \in Nat, m < from \/ \A x \in from .. m : s[x].id # id
  PROVE  D!LastVal(s, id, from, m, default) = default
<1>1. D!At(s, {id}) \cap (from .. m) = {}
  BY DEF D!At
<1> QED
  BY <1>1 DEF D!LastVal

\* A list is a sequence of what is listed.
LEMMA ListedIs ==
  ASSUME NEW g, NEW n \in Nat, NEW S \in SUBSET (1 .. n)
  PROVE  Listed(g, S) \in Seq({g[x] : x \in S}) /\ Len(Listed(g, S)) = Cardinality(S)
<1>1. Cardinality(S) \in Nat
  BY ListedMore
<1>2. \A j \in 1 .. Cardinality(S) : D!Nth(S, j) \in S
  BY NthAt
<1>3. \A j \in 1 .. Cardinality(S) : g[D!Nth(S, j)] \in {g[x] : x \in S}
  BY <1>2
<1> DEFINE T == {g[x] : x \in S}
           body(j) == g[D!Nth(S, j)]
<1>4. Listed(g, S) = [j \in 1 .. Cardinality(S) |-> body(j)]
  BY DEF Listed
<1>5. \A j \in 1 .. Cardinality(S) : body(j) \in T
  BY <1>3
<1> HIDE DEF T, body
<1> QED
  BY <1>1, <1>4, <1>5 DEF T

\* The records up to m have left the mark where the first one of a kind starts.
MarkIs(rs, mark, id, m) ==
  \/ mark = -1 /\ \A j \in 1 .. m : rs[j].id # id
  \/ \E j \in 1 .. m : /\ rs[j].id = id /\ mark = rs[j].start
                       /\ \A l \in 1 .. j - 1 : rs[l].id # id

\* One record more, and a mark.
LEMMA MarkMore ==
  ASSUME NEW rs \in Seq(Numbered), NEW id, NEW m \in Nat, m + 1 \in 1 .. Len(rs),
         NEW mark, MarkIs(rs, mark, id, m)
  PROVE  LET r == rs[m + 1]
         IN  MarkIs(rs, IF r.id = id /\ mark < 0 THEN r.start ELSE mark, id, m + 1)
<1> DEFINE y == m + 1
<1>1. /\ Len(rs) \in Nat /\ y \in Nat /\ y - 1 = m
      /\ \A j \in 1 .. m : j \in 1 .. y /\ j \in 1 .. Len(rs)
  BY LenProperties
<1>2. \A j \in 1 .. y : j \in 1 .. m \/ j = y
  BY <1>1
<1>3. y \in 1 .. y
  BY <1>1
<1> HIDE DEF y
<1>4. CASE mark = -1 /\ \A j \in 1 .. m : rs[j].id # id
  <2>1. mark < 0
    BY <1>4
  <2>2. CASE rs[y].id = id
    BY <1>1, <1>3, <1>4, <2>1, <2>2 DEF MarkIs, y
  <2>3. CASE rs[y].id # id
    BY <1>2, <1>4, <2>3 DEF MarkIs, y
  <2> QED
    BY <2>2, <2>3
<1>5. ASSUME NEW j \in 1 .. m, rs[j].id = id, mark = rs[j].start,
             \A l \in 1 .. j - 1 : rs[l].id # id
      PROVE  MarkIs(rs, mark, id, y) /\ ~(mark < 0)
  <2>1. rs[j] \in Numbered
    BY <1>1, ElementOfSeq
  <2>2. mark \in Nat
    BY <1>5, <2>1 DEF Numbered
  <2> QED
    BY <1>1, <1>5, <2>2 DEF MarkIs
<1> QED
  BY <1>4, <1>5 DEF MarkIs, y

\* The first mentions of the names of references.
Mentions(rs) ==
  {x \in DOMAIN rs :
     /\ rs[x].id = ReferenceName
     /\ \A y \in 1 .. x - 1 : rs[y].id = ReferenceName => rs[y].payload # rs[x].payload}

\* The payloads of the records, in their order.
Payloads(rs) == [x \in DOMAIN rs |-> rs[x].payload]

\* The records up to m have left these names.
NamesAre(rs, names, m) ==
  /\ names = Listed(Payloads(rs), Mentions(rs) \cap (1 .. m))
  /\ \A v : v \in ToSet(names) <=>
       \E y \in 1 .. m : rs[y].id = ReferenceName /\ rs[y].payload = v

\* One record more, and the names.
LEMMA NamesMore ==
  ASSUME NEW rs \in Seq(Numbered), NEW m \in Nat, m + 1 \in 1 .. Len(rs),
         NEW names, NamesAre(rs, names, m)
  PROVE  LET r == rs[m + 1]
         IN  NamesAre(rs, IF r.id = ReferenceName /\ r.payload \notin ToSet(names)
                            THEN Append(names, r.payload) ELSE names, m + 1)
<1> DEFINE y == m + 1
           r == rs[y]
           S == Mentions(rs) \cap (1 .. m)
           T == Mentions(rs) \cap (1 .. y)
<1>1. /\ Len(rs) \in Nat /\ y \in Nat /\ y - 1 = m /\ y \in 1 .. y /\ y \in 1 .. Len(rs)
      /\ DOMAIN rs = 1 .. Len(rs)
      /\ \A j \in 1 .. m : j \in 1 .. y
      /\ \A j \in 1 .. y : j \in 1 .. m \/ j = y
  BY LenProperties
<1>2. S \in SUBSET (1 .. m)
  OBVIOUS
<1>3. T = IF y \in Mentions(rs) THEN S \cup {m + 1} ELSE S
  <2>1. \A x : x \in 1 .. y <=> x \in 1 .. m \/ x = y
    BY <1>1
  <2> HIDE DEF y
  <2> QED
    BY <2>1 DEF y
<1>4. names = Listed(Payloads(rs), S)
  BY DEF NamesAre
<1>5. \A v : v \in ToSet(names) <=> \E x \in 1 .. m : rs[x].id = ReferenceName /\ rs[x].payload = v
  BY DEF NamesAre
<1>6. r.id = ReferenceName => (y \in Mentions(rs) <=> r.payload \notin ToSet(names))
  <2>1. r.id = ReferenceName =>
          (y \in Mentions(rs) <=>
             \A x \in 1 .. m : rs[x].id = ReferenceName => rs[x].payload # r.payload)
    BY <1>1 DEF Mentions
  <2> QED
    BY <1>5, <2>1
<1>7. r.id # ReferenceName => y \notin Mentions(rs)
  BY DEF Mentions
<1>8. Payloads(rs)[y] = r.payload
  BY <1>1 DEF Payloads
<1>9. \E U : names \in Seq(U)
  BY <1>2, <1>4, ListedIs
<1> HIDE DEF y, r, S, T
<1>10. CASE r.id = ReferenceName /\ r.payload \notin ToSet(names)
  <2> DEFINE more == Append(names, r.payload)
  <2>1. more = Listed(Payloads(rs), T)
    <3>1. Listed(Payloads(rs), S \cup {m + 1})
            = Append(Listed(Payloads(rs), S), Payloads(rs)[m + 1])
      BY <1>2, ListedMore
    <3> QED
      BY <1>3, <1>4, <1>6, <1>8, <1>10, <3>1 DEF y
  <2>2. \A v : v \in ToSet(more) <=> v \in ToSet(names) \/ v = r.payload
    <3>1. PICK U : names \in Seq(U)
      BY <1>9
    <3>2. Len(names) \in Nat /\ DOMAIN names = 1 .. Len(names)
      BY <3>1, LenProperties
    <3>3. DOMAIN more = 1 .. Len(names) + 1
      BY <3>1, <3>2, AppendProperties, LenProperties
    <3>4. \A x \in 1 .. Len(names) : more[x] = names[x]
      BY <3>1, AppendProperties
    <3>5. more[Len(names) + 1] = r.payload
      BY <3>1, AppendProperties
    <3> HIDE DEF more
    <3>6. \A x : x \in 1 .. Len(names) + 1 <=> x \in 1 .. Len(names) \/ x = Len(names) + 1
      BY <3>2
    <3> QED
      BY <3>2, <3>3, <3>4, <3>5, <3>6 DEF ToSet
  <2>3. \A v : v \in ToSet(more) <=> \E x \in 1 .. y : rs[x].id = ReferenceName /\ rs[x].payload = v
    <3> HIDE DEF more
    <3> QED
      BY <1>1, <1>5, <1>10, <2>2 DEF r
  <2>4. NamesAre(rs, more, y)
    BY <2>1, <2>3 DEF NamesAre, T
  <2> QED
    BY <1>10, <2>4 DEF y, r
<1>11. CASE ~(r.id = ReferenceName /\ r.payload \notin ToSet(names))
  <2>1. T = S
    BY <1>3, <1>6, <1>7, <1>11
  <2>2. \A v : v \in ToSet(names) <=>
          \E x \in 1 .. y : rs[x].id = ReferenceName /\ rs[x].payload = v
    BY <1>1, <1>5, <1>11 DEF r
  <2>3. NamesAre(rs, names, y)
    BY <1>4, <2>1, <2>2 DEF NamesAre, T
  <2> QED
    BY <1>11, <2>3 DEF y, r
<1> QED
  BY <1>10, <1>11

Openings(rs) == {x \in DOMAIN rs : rs[x].id = ModuleName}

Entries(rs) == [x \in DOMAIN rs |-> D!DirModule(AbstractAll(rs), x)]

\* The entry that opens at n, as far as m.
EntryUpto(rs, n, m) ==
  [Name       |-> rs[n].payload,
   StreamName |-> D!LastVal(AbstractAll(rs), "MODULESTREAMNAME", n, m, << >>),
   Offset     |-> D!LastVal(AbstractAll(rs), "MODULEOFFSET", n, m, 0),
   TypeID     |-> D!LastVal(AbstractAll(rs), "MODULETYPE", n, m, 0)]

\* An entry with what a record says of it.
EntryWith(e, r) ==
  [Name       |-> e.Name,
   StreamName |-> IF r.id = StreamNameId THEN r.payload ELSE e.StreamName,
   Offset     |-> IF r.id = ModuleOffset THEN le32(r.payload) ELSE e.Offset,
   TypeID     |-> IF r.id \in {ProcModule, OtherModule} THEN r.id ELSE e.TypeID]

\* The entry that a record opens.
EntryOf(r) == [Name |-> r.payload, StreamName |-> << >>, Offset |-> 0, TypeID |-> 0]

\* One record more of the open entry.
LEMMA EntryMore ==
  ASSUME NEW rs \in Seq(Numbered), NEW m \in Nat, m + 1 \in 1 .. Len(rs), NEW n \in 1 .. m
  PROVE  EntryUpto(rs, n, m + 1) = EntryWith(EntryUpto(rs, n, m), rs[m + 1])
<1> DEFINE s == AbstractAll(rs)
           r == rs[m + 1]
           a == s[m + 1]
           upto(id, to, default) == D!LastVal(s, id, n, to, default)
<1>1. /\ Len(rs) \in Nat /\ DOMAIN rs = 1 .. Len(rs) /\ DOMAIN s = 1 .. Len(rs)
      /\ n \in Nat /\ n <= m + 1 /\ a = Abstract(r)
  BY LenProperties DEF AbstractAll
<1>2. \A id, default : upto(id, m + 1, default) = IF a.id = id THEN a.val ELSE upto(id, m, default)
  BY <1>1, LastValMore
<1>3. /\ a.id = "MODULESTREAMNAME" <=> r.id = StreamNameId
      /\ a.id = "MODULEOFFSET" <=> r.id = ModuleOffset
      /\ a.id = "MODULETYPE" <=> r.id \in {ProcModule, OtherModule}
      /\ r.id = StreamNameId => a.val = r.payload
      /\ r.id = ModuleOffset => a.val = le32(r.payload)
      /\ r.id \in {ProcModule, OtherModule} => a.val = r.id
  BY <1>1, AbstractIs
<1>4. \A to : EntryUpto(rs, n, to) = [Name |-> rs[n].payload,
                                      StreamName |-> upto("MODULESTREAMNAME", to, << >>),
                                      Offset |-> upto("MODULEOFFSET", to, 0),
                                      TypeID |-> upto("MODULETYPE", to, 0)]
  BY DEF EntryUpto
<1> HIDE DEF upto, a, r, s
<1>5. /\ upto("MODULESTREAMNAME", m + 1, << >>)
           = IF r.id = StreamNameId THEN r.payload ELSE upto("MODULESTREAMNAME", m, << >>)
      /\ upto("MODULEOFFSET", m + 1, 0)
           = IF r.id = ModuleOffset THEN le32(r.payload) ELSE upto("MODULEOFFSET", m, 0)
      /\ upto("MODULETYPE", m + 1, 0)
           = IF r.id \in {ProcModule, OtherModule} THEN r.id ELSE upto("MODULETYPE", m, 0)
  BY <1>2, <1>3
<1> DEFINE e == EntryUpto(rs, n, m)
<1>6. /\ e.Name = rs[n].payload /\ e.StreamName = upto("MODULESTREAMNAME", m, << >>)
      /\ e.Offset = upto("MODULEOFFSET", m, 0) /\ e.TypeID = upto("MODULETYPE", m, 0)
  BY <1>4
<1>7. EntryUpto(rs, n, m + 1) = [Name |-> rs[n].payload,
                                 StreamName |-> upto("MODULESTREAMNAME", m + 1, << >>),
                                 Offset |-> upto("MODULEOFFSET", m + 1, 0),
                                 TypeID |-> upto("MODULETYPE", m + 1, 0)]
  BY <1>4
<1> HIDE DEF e
<1>8. EntryUpto(rs, n, m + 1) = EntryWith(e, r)
  BY <1>5, <1>6, <1>7 DEF EntryWith
<1> QED
  BY <1>8 DEF e, r

\* An entry at its beginning.
LEMMA EntryOpens ==
  ASSUME NEW rs \in Seq(Numbered), NEW n \in Openings(rs)
  PROVE  EntryUpto(rs, n, n) = EntryOf(rs[n])
<1> DEFINE s == AbstractAll(rs)
<1>1. /\ Len(rs) \in Nat /\ DOMAIN rs = 1 .. Len(rs) /\ DOMAIN s = 1 .. Len(rs)
      /\ n \in 1 .. Len(rs) /\ n \in Nat /\ rs[n].id = ModuleName /\ s[n] = Abstract(rs[n])
  BY LenProperties DEF AbstractAll, Openings
<1>2. s[n].id = "MODULENAME"
  BY <1>1, AbstractIs
<1> HIDE DEF s
<1>3. \A x \in n .. n : x = n
  BY <1>1
<1>4. \A id, default : s[n].id # id => D!LastVal(s, id, n, n, default) = default
  <2> SUFFICES ASSUME NEW id, NEW default, s[n].id # id
               PROVE  D!LastVal(s, id, n, n, default) = default
    OBVIOUS
  <2>1. \A x \in n .. n : s[x].id # id
    BY <1>3
  <2> QED
    BY <1>1, <2>1, LastValNone
<1>5. /\ D!LastVal(s, "MODULESTREAMNAME", n, n, << >>) = << >>
      /\ D!LastVal(s, "MODULEOFFSET", n, n, 0) = 0
      /\ D!LastVal(s, "MODULETYPE", n, n, 0) = 0
  BY <1>2, <1>4
<1> QED
  BY <1>5 DEF EntryUpto, EntryOf, s

\* The least of a set of numbers that has one.
LEMMA LeastIs ==
  ASSUME NEW T \in SUBSET Nat, NEW x \in T, \A y \in T : x <= y
  PROVE  Min(T) = x
<1>1. \A z \in T : (\A y \in T : z <= y) => z = x
  <2> SUFFICES ASSUME NEW z \in T, \A y \in T : z <= y
               PROVE  z = x
    OBVIOUS
  <2>1. z >= x /\ z <= x /\ z \in Nat /\ x \in Nat
    OBVIOUS
  <2> QED
    BY <2>1
<1> QED
  BY <1>1 DEF Min

\* A module ends where the next one opens, or with the records.
LEMMA EntryDone ==
  ASSUME NEW rs \in Seq(Numbered), NEW n \in Openings(rs), NEW m \in n .. Len(rs),
         \A x \in Openings(rs) : x <= n \/ x > m,
         m = Len(rs) \/ m + 1 \in Openings(rs)
  PROVE  Entries(rs)[n] = EntryUpto(rs, n, m)
<1> DEFINE s == AbstractAll(rs)
           later == {x \in Openings(rs) : x > n}
<1>1. /\ Len(rs) \in Nat /\ DOMAIN rs = 1 .. Len(rs) /\ DOMAIN s = 1 .. Len(rs)
      /\ n \in 1 .. Len(rs) /\ n \in Nat /\ m \in Nat /\ n <= m /\ m <= Len(rs)
      /\ \A x \in 1 .. Len(rs) : s[x] = Abstract(rs[x])
  BY LenProperties DEF AbstractAll, Openings
<1>2. D!At(s, {"MODULENAME"}) = Openings(rs)
  <2>1. ASSUME NEW x \in 1 .. Len(rs)
        PROVE  s[x].id = "MODULENAME" <=> rs[x].id = ModuleName
    <3>1. s[x] = Abstract(rs[x])
      BY <1>1
    <3> HIDE DEF s
    <3> QED
      BY <3>1, AbstractIs
  <2> QED
    BY <1>1, <2>1 DEF D!At, Openings
<1>3. D!RunEnd(s, n) = IF later = {} THEN Len(s) ELSE Min(later) - 1
  BY <1>2, SameSets DEF D!RunEnd
<1>4. Len(s) = Len(rs)
  <2> DEFINE body(x) == Abstract(rs[x])
  <2>1. s = [x \in 1 .. Len(rs) |-> body(x)]
    BY <1>1 DEF AbstractAll
  <2>2. Len(rs) \in Nat
    BY <1>1
  <2> HIDE DEF s, body
  <2> QED
    BY <2>1, <2>2
<1> HIDE DEF s
<1>5. D!RunEnd(s, n) = m
  <2> DEFINE top == Len(rs)
  <2>1. top \in Nat /\ n \in Nat /\ m \in Nat /\ n <= m /\ m <= top
    BY <1>1
  <2>2. Openings(rs) \in SUBSET (1 .. top)
    BY <1>1 DEF Openings
  <2> HIDE DEF top
  <2>3. later \in SUBSET Nat /\ \A x \in later : x \in Nat /\ x > m /\ x <= top
    <3>1. ASSUME NEW x \in later
          PROVE  x \in Nat /\ x > m /\ x <= top
      <4>1. x \in 1 .. top /\ x > n /\ (x <= n \/ x > m)
        BY <2>2
      <4> QED
        BY <2>1, <4>1
    <3> HIDE DEF later
    <3> QED
      BY <3>1
  <2>4. CASE m = top
    <3>1. later = {}
      BY <2>1, <2>3, <2>4
    <3> QED
      BY <1>3, <1>4, <2>4, <3>1 DEF top
  <2>5. CASE m + 1 \in Openings(rs)
    <3>1. m + 1 \in later /\ \A x \in later : m + 1 <= x
      <4>1. m + 1 \in later
        BY <2>1, <2>5
      <4> HIDE DEF later
      <4> QED
        BY <2>1, <2>3, <4>1
    <3>2. Min(later) = m + 1
      <4> HIDE DEF later
      <4> QED
        BY <2>3, <3>1, LeastIs
    <3> HIDE DEF later, s
    <3> QED
      BY <2>1, <1>3, <3>1, <3>2
  <2> QED
    BY <2>4, <2>5 DEF top
<1>6. s[n].val = rs[n].payload
  <2>1. rs[n].id = ModuleName
    BY DEF Openings
  <2>2. Abstract(rs[n]).val = rs[n].payload
    BY <2>1, AbstractIs
  <2> QED
    BY <1>1, <2>2
<1>7. Entries(rs)[n] = D!DirModule(s, n)
  BY <1>1 DEF Entries, s
<1> QED
  BY <1>5, <1>6, <1>7 DEF D!DirModule, EntryUpto, s

\* The records up to m have left these entries, and the last one open.
ModulesAre(rs, mods, open, m) ==
  \/ mods = << >> /\ open = << >> /\ Openings(rs) \cap (1 .. m) = {}
  \/ \E n \in Openings(rs) \cap (1 .. m) :
       /\ \A y \in Openings(rs) \cap (1 .. m) : y <= n
       /\ mods = Listed(Entries(rs), Openings(rs) \cap (1 .. n - 1))
       /\ open = << EntryUpto(rs, n, m) >>

\* When a module closes, the entries are those of all modules so far.
LEMMA ModulesClose ==
  ASSUME NEW rs \in Seq(Numbered), NEW m \in 0 .. Len(rs),
         NEW mods, NEW open, ModulesAre(rs, mods, open, m),
         m = Len(rs) \/ m + 1 \in Openings(rs)
  PROVE  mods \o open = Listed(Entries(rs), Openings(rs) \cap (1 .. m))
<1> DEFINE top == Len(rs)
           S == Openings(rs) \cap (1 .. m)
<1>1. top \in Nat /\ m \in Nat /\ m <= top /\ Openings(rs) \in SUBSET (1 .. top)
  BY LenProperties DEF Openings
<1>2. CASE mods = << >> /\ open = << >> /\ S = {}
  <2>1. << >> \o << >> = << >>
    OBVIOUS
  <2>2. {} \in SUBSET (1 .. 0) /\ 0 \in Nat
    OBVIOUS
  <2>3. Listed(Entries(rs), {}) = << >>
    BY <2>2, ListedMore
  <2> QED
    BY <1>2, <2>1, <2>3
<1>3. ASSUME NEW n \in S, \A y \in S : y <= n,
             mods = Listed(Entries(rs), Openings(rs) \cap (1 .. n - 1)),
             open = << EntryUpto(rs, n, m) >>
      PROVE  mods \o open = Listed(Entries(rs), S)
  <2> DEFINE l == n - 1
             T == Openings(rs) \cap (1 .. l)
  <2>1. n \in Openings(rs) /\ n \in 1 .. m /\ n \in Nat /\ l \in Nat /\ l + 1 = n /\ m \in n .. top
    BY <1>1
  <2>2. \A x \in Openings(rs) : x <= n \/ x > m
    <3>1. ASSUME NEW x \in Openings(rs), ~(x > m)
          PROVE  x <= n
      <4>1. x \in 1 .. m
        BY <1>1, <3>1
      <4> QED
        BY <1>3, <4>1
    <3> QED
      BY <3>1
  <2>3. Entries(rs)[n] = EntryUpto(rs, n, m)
    BY <2>1, <2>2, EntryDone
  <2>4. T \cup {l + 1} = S
    <3>1. \A x \in 1 .. top : x \in Openings(rs) => (x \in 1 .. m <=> x \in 1 .. l \/ x = n)
      <4>1. ASSUME NEW x \in 1 .. top, x \in Openings(rs)
            PROVE  x \in 1 .. m <=> x \in 1 .. l \/ x = n
        <5>1. x <= n \/ x > m
          BY <2>2, <4>1
        <5> QED
          BY <1>1, <2>1, <4>1, <5>1
      <4> QED
        BY <4>1
    <3> QED
      BY <1>1, <2>1, <3>1
  <2>5. T \in SUBSET (1 .. l)
    OBVIOUS
  <2>6. Listed(Entries(rs), T \cup {l + 1}) = Append(Listed(Entries(rs), T), Entries(rs)[l + 1])
    BY <2>1, <2>5, ListedMore
  <2>7. PICK U : Listed(Entries(rs), T) \in Seq(U)
    BY <2>1, <2>5, ListedIs
  <2> DEFINE e == EntryUpto(rs, n, m)
  <2>8. mods \in Seq(U) /\ Listed(Entries(rs), S) = Append(mods, e) /\ open = << e >>
    BY <1>3, <2>1, <2>3, <2>4, <2>6, <2>7
  <2> HIDE DEF e
  <2>9. Append(mods, e) = mods \o << e >>
    <3>1. mods \in Seq(U \cup {e}) /\ e \in U \cup {e}
      BY <2>8
    <3> QED
      BY <3>1, AppendIsConcat
  <2> QED
    BY <2>8, <2>9
<1> QED
  BY <1>2, <1>3 DEF ModulesAre

\* One record more, and the entries.
LEMMA ModulesMore ==
  ASSUME NEW rs \in Seq(Numbered), NEW m \in Nat, m + 1 \in 1 .. Len(rs),
         NEW mods, NEW open, ModulesAre(rs, mods, open, m)
  PROVE  LET r == rs[m + 1]
         IN  /\ r.id = ModuleName => ModulesAre(rs, mods \o open, << EntryOf(r) >>, m + 1)
             /\ r.id # ModuleName /\ open = << >> => ModulesAre(rs, mods, open, m + 1)
             /\ r.id # ModuleName /\ open # << >> =>
                  ModulesAre(rs, mods, << EntryWith(open[1], r) >>, m + 1)
<1> DEFINE top == Len(rs)
           y == m + 1
           r == rs[y]
           S == Openings(rs) \cap (1 .. m)
           T == Openings(rs) \cap (1 .. y)
<1>1. /\ top \in Nat /\ m \in Nat /\ y \in Nat /\ y <= top /\ y - 1 = m /\ m \in 0 .. top
      /\ Openings(rs) \in SUBSET (1 .. top) /\ DOMAIN rs = 1 .. top
      /\ \A x : x \in 1 .. y <=> x \in 1 .. m \/ x = y
  BY LenProperties DEF Openings
<1>2. r.id = ModuleName <=> y \in Openings(rs)
  BY <1>1 DEF Openings
<1> HIDE DEF y, r, S, T
<1>3. CASE r.id = ModuleName
  <2>1. mods \o open = Listed(Entries(rs), S)
    BY <1>1, <1>2, <1>3, ModulesClose DEF S, y
  <2>2. y \in T /\ (\A x \in T : x <= y) /\ S = Openings(rs) \cap (1 .. y - 1)
    BY <1>1, <1>2, <1>3 DEF S, T
  <2>3. EntryUpto(rs, y, y) = EntryOf(r)
    BY <1>2, <1>3, EntryOpens DEF r
  <2>4. ModulesAre(rs, mods \o open, << EntryOf(r) >>, y)
    BY <2>1, <2>2, <2>3 DEF ModulesAre, T
  <2> QED
    BY <1>3, <2>4 DEF r, y
<1>4. CASE r.id # ModuleName
  <2>1. T = S
    BY <1>1, <1>2, <1>4 DEF S, T
  <2>2. CASE mods = << >> /\ open = << >> /\ S = {}
    <3>1. ModulesAre(rs, mods, open, y)
      BY <2>1, <2>2 DEF ModulesAre, T
    <3> QED
      BY <1>4, <2>2, <3>1 DEF r, y
  <2>3. ASSUME NEW n \in S, \A x \in S : x <= n,
               mods = Listed(Entries(rs), Openings(rs) \cap (1 .. n - 1)),
               open = << EntryUpto(rs, n, m) >>
        PROVE  open # << >> /\ ModulesAre(rs, mods, << EntryWith(open[1], r) >>, y)
    <3>1. n \in 1 .. m
      BY DEF S
    <3>2. EntryUpto(rs, n, y) = EntryWith(EntryUpto(rs, n, m), r)
      BY <3>1, EntryMore DEF r, y
    <3> DEFINE e == EntryUpto(rs, n, m)
    <3> HIDE DEF e
    <3>3. open # << >> /\ open[1] = e
      BY <2>3 DEF e
    <3>4. << EntryWith(open[1], r) >> = << EntryUpto(rs, n, y) >>
      BY <3>2, <3>3 DEF e
    <3>5. ModulesAre(rs, mods, << EntryUpto(rs, n, y) >>, y)
      BY <2>1, <2>3 DEF ModulesAre, T
    <3> QED
      BY <3>3, <3>4, <3>5
  <2>4. \/ mods = << >> /\ open = << >> /\ S = {}
        \/ open # << >> /\ ModulesAre(rs, mods, << EntryWith(open[1], r) >>, y)
    BY <2>3 DEF ModulesAre, S
  <2> QED
    BY <1>4, <2>2, <2>4 DEF r, y
<1> QED
  BY <1>3, <1>4

-----------------------------------------------------------------------------
(***************************************************************************)
(* What DirStream declares of all of them.                                 *)
(***************************************************************************)

\* DirStream sees as much of a record that was found as of the record.
LEMMA FoundPart ==
  ASSUME NEW rs \in Seq(Numbered)
  PROVE  /\ Len(rs) \in Nat /\ DOMAIN rs = 1 .. Len(rs)
         /\ Found(rs) \in Seq(FoundRecord) /\ Len(Found(rs)) = Len(rs)
         /\ AbstractAll(rs) = [j \in 1 .. Len(rs) |-> Abstract(rs[j])]
         /\ \A a \in Nat \ {0}, b \in Int : b <= Len(rs) =>
              AbstractAll(SubSeq(Found(rs), a, b)) = SubSeq(AbstractAll(rs), a, b)
<1>1. Len(rs) \in Nat /\ DOMAIN rs = 1 .. Len(rs)
  BY LenProperties
<1> DEFINE strip(x) == [id |-> x.id, payload |-> x.payload]
           top == Len(rs)
<1>2. Found(rs) = [j \in 1 .. top |-> strip(rs[j])]
  BY <1>1 DEF Found
<1>3. \A j \in 1 .. top : strip(rs[j]) \in FoundRecord
  <2>1. \A j \in 1 .. top : rs[j] \in Numbered
    BY <1>1, ElementOfSeq
  <2> QED
    BY <2>1 DEF Numbered, FoundRecord
<1>4. \A x : Abstract(strip(x)) = Abstract(x)
  BY DEF Abstract
<1>5. AbstractAll(rs) = [j \in 1 .. top |-> Abstract(rs[j])]
  BY <1>1 DEF AbstractAll
<1> HIDE DEF strip
<1>6. Found(rs) \in Seq(FoundRecord) /\ Len(Found(rs)) = top
  <2> DEFINE body(j) == strip(rs[j])
  <2>1. Found(rs) = [j \in 1 .. top |-> body(j)] /\ \A j \in 1 .. top : body(j) \in FoundRecord
    BY <1>2, <1>3
  <2> HIDE DEF body, top
  <2> QED
    BY <1>1, <2>1 DEF top
<1>7. ASSUME NEW a \in Nat \ {0}, NEW b \in Int, b <= top
      PROVE  AbstractAll(SubSeq(Found(rs), a, b)) = SubSeq(AbstractAll(rs), a, b)
  <2> DEFINE f == Found(rs)
             s == AbstractAll(rs)
             n == 1 + b - a
             part == SubSeq(f, a, b)
  <2>1. top \in Nat /\ \A j \in 1 .. n : j + a - 1 \in 1 .. top
    BY <1>1, <1>7
  <2> HIDE DEF top
  <2>2. \A j \in 1 .. top : Abstract(f[j]) = s[j]
    BY <1>2, <1>4, <1>5
  <2>3. part = [j \in 1 .. n |-> f[j + a - 1]]
    OBVIOUS
  <2>4. SubSeq(s, a, b) = [j \in 1 .. n |-> s[j + a - 1]]
    OBVIOUS
  <2> HIDE DEF f, s, part, n
  <2>5. DOMAIN part = 1 .. n /\ \A j \in 1 .. n : part[j] = f[j + a - 1]
    BY <2>3
  <2>6. \A j \in 1 .. n : Abstract(part[j]) = s[j + a - 1]
    BY <2>1, <2>2, <2>5
  <2>7. AbstractAll(part) = [j \in 1 .. n |-> Abstract(part[j])]
    BY <2>5 DEF AbstractAll
  <2>8. [j \in 1 .. n |-> Abstract(part[j])] = [j \in 1 .. n |-> s[j + a - 1]]
    BY <2>6
  <2> QED
    BY <2>4, <2>7, <2>8 DEF part, s, f
<1> QED
  BY <1>1, <1>5, <1>6, <1>7

\* The first record of a kind, for DirStream and for the loop.
LEMMA FirstMark ==
  ASSUME NEW rs \in Seq(Numbered), NEW id, NEW name, NEW mark, MarkIs(rs, mark, id, Len(rs)),
         \A r : Abstract(r).id = name <=> r.id = id
  PROVE  LET a == D!FirstAt(AbstractAll(rs), name)
         IN  \/ mark = -1 /\ a = 0
             \/ a \in 1 .. Len(rs) /\ mark = rs[a].start
<1> DEFINE s == AbstractAll(rs)
           hits == {x \in 1 .. Len(rs) : rs[x].id = id}
<1>1. Len(rs) \in Nat /\ DOMAIN s = 1 .. Len(rs) /\ \A j \in 1 .. Len(rs) : s[j] = Abstract(rs[j])
  BY FoundPart
<1>2. D!At(s, {name}) = hits
  BY <1>1 DEF D!At
<1>3. D!FirstAt(s, name) = IF hits = {} THEN 0 ELSE Min(hits)
  BY <1>2, SameSets DEF D!FirstAt
<1>4. CASE mark = -1 /\ \A j \in 1 .. Len(rs) : rs[j].id # id
  BY <1>3, <1>4
<1>5. ASSUME NEW j \in 1 .. Len(rs), rs[j].id = id, mark = rs[j].start,
             \A l \in 1 .. j - 1 : rs[l].id # id
      PROVE  D!FirstAt(s, name) = j
  <2>1. hits \in SUBSET Nat /\ j \in hits
    BY <1>5
  <2>2. \A x \in hits : j <= x
    <3>1. ASSUME NEW x \in hits, ~(j <= x)
          PROVE  FALSE
      <4>1. x \in 1 .. j - 1 /\ rs[x].id = id
        BY <1>1, <3>1
      <4> QED
        BY <1>5, <4>1
    <3> HIDE DEF hits
    <3> QED
      BY <3>1
  <2> HIDE DEF hits
  <2>3. Min(hits) = j /\ hits # {}
    BY <2>1, <2>2, LeastIs
  <2> QED
    BY <1>3, <2>3
<1> QED
  BY <1>4, <1>5 DEF MarkIs

\* After all records, the names are those that DirStream declares.
LEMMA NamesDeclared ==
  ASSUME NEW rs \in Seq(Numbered), NEW names, NamesAre(rs, names, Len(rs))
  PROVE  names = D!RefNames(AbstractAll(rs))
<1> DEFINE s == AbstractAll(rs)
           hits == {x \in 1 .. Len(rs) : rs[x].id = ReferenceName}
           fresh == {x \in hits : \A y \in hits : s[y].val = s[x].val => x <= y}
<1>1. /\ Len(rs) \in Nat /\ DOMAIN rs = 1 .. Len(rs)
      /\ DOMAIN s = 1 .. Len(rs) /\ \A j \in 1 .. Len(rs) : s[j] = Abstract(rs[j])
  BY FoundPart
<1>2. D!At(s, {"REFERENCENAME"}) = hits
  <2>1. \A j \in 1 .. Len(rs) : s[j].id = "REFERENCENAME" <=> rs[j].id = ReferenceName
    BY <1>1, AbstractIs
  <2> QED
    BY <1>1, <2>1 DEF D!At
<1>3. \A x \in hits : s[x].val = rs[x].payload
  <2> SUFFICES ASSUME NEW x \in hits
               PROVE  s[x].val = rs[x].payload
    OBVIOUS
  <2>1. s[x] = Abstract(rs[x]) /\ rs[x].id = ReferenceName
    BY <1>1
  <2> QED
    BY <2>1, AbstractIs
<1>4. D!RefNames(s) = [j \in 1 .. Cardinality(fresh) |-> s[D!Nth(fresh, j)].val]
  BY <1>2, SameSets DEF D!RefNames
<1> HIDE DEF s
<1>5. fresh = Mentions(rs)
  <2>1. ASSUME NEW x \in fresh
        PROVE  x \in Mentions(rs)
    <3>1. x \in 1 .. Len(rs) /\ rs[x].id = ReferenceName
      OBVIOUS
    <3>2. ASSUME NEW y \in 1 .. x - 1, rs[y].id = ReferenceName, rs[y].payload = rs[x].payload
          PROVE  FALSE
      <4>1. y \in hits /\ x \in hits /\ ~(x <= y)
        BY <1>1, <3>1, <3>2
      <4>2. s[y].val = s[x].val
        BY <1>3, <3>2, <4>1
      <4> QED
        BY <4>1, <4>2
    <3> QED
      BY <1>1, <3>1, <3>2 DEF Mentions
  <2>2. ASSUME NEW x \in Mentions(rs)
        PROVE  x \in fresh
    <3>1. /\ x \in 1 .. Len(rs) /\ rs[x].id = ReferenceName
          /\ \A y \in 1 .. x - 1 : rs[y].id = ReferenceName => rs[y].payload # rs[x].payload
      BY <1>1 DEF Mentions
    <3>2. ASSUME NEW y \in hits, s[y].val = s[x].val, ~(x <= y)
          PROVE  FALSE
      <4>1. y \in 1 .. x - 1 /\ rs[y].id = ReferenceName
        BY <1>1, <3>1, <3>2
      <4>2. rs[y].payload = rs[x].payload
        BY <1>3, <3>1, <3>2
      <4> QED
        BY <3>1, <4>1, <4>2
    <3>3. x \in hits
      BY <3>1
    <3> QED
      BY <3>2, <3>3
  <2> HIDE DEF fresh
  <2> QED
    BY <2>1, <2>2
<1>6. Mentions(rs) \cap (1 .. Len(rs)) = Mentions(rs) /\ Mentions(rs) \in SUBSET (1 .. Len(rs))
      /\ Mentions(rs) \in SUBSET hits
  BY <1>1 DEF Mentions
<1> DEFINE M == Mentions(rs)
           get(j) == s[D!Nth(M, j)].val
           body(j) == Payloads(rs)[D!Nth(M, j)]
<1>7. \A j \in 1 .. Cardinality(M) : get(j) = body(j)
  <2> SUFFICES ASSUME NEW j \in 1 .. Cardinality(M)
               PROVE  get(j) = body(j)
    OBVIOUS
  <2>1. D!Nth(M, j) \in M
    BY <1>1, <1>6, NthAt
  <2>2. D!Nth(M, j) \in hits /\ D!Nth(M, j) \in DOMAIN rs
    BY <1>1, <1>6, <2>1
  <2> QED
    BY <1>3, <2>2 DEF Payloads
<1>8. names = [j \in 1 .. Cardinality(M) |-> body(j)]
  BY <1>6 DEF NamesAre, Listed
<1>9. D!RefNames(s) = [j \in 1 .. Cardinality(M) |-> get(j)]
  BY <1>4, <1>5
<1> HIDE DEF get, body, M
<1> QED
  BY <1>7, <1>8, <1>9 DEF s

\* After all records and the last flush, the entries are those that DirStream
\* declares.
LEMMA ModulesDeclared ==
  ASSUME NEW rs \in Seq(Numbered), NEW mods, NEW open, ModulesAre(rs, mods, open, Len(rs))
  PROVE  mods \o open = D!DirModules(AbstractAll(rs))
<1> DEFINE s == AbstractAll(rs)
           S == Openings(rs)
<1>1. /\ Len(rs) \in Nat /\ Len(rs) \in 0 .. Len(rs) /\ DOMAIN rs = 1 .. Len(rs)
      /\ DOMAIN s = 1 .. Len(rs) /\ \A j \in 1 .. Len(rs) : s[j] = Abstract(rs[j])
  BY FoundPart
<1>2. D!At(s, {"MODULENAME"}) = S
  <2>1. \A j \in 1 .. Len(rs) : s[j].id = "MODULENAME" <=> rs[j].id = ModuleName
    BY <1>1, AbstractIs
  <2> QED
    BY <1>1, <2>1 DEF D!At, Openings
<1>3. S \cap (1 .. Len(rs)) = S /\ S \in SUBSET (1 .. Len(rs))
  BY <1>1 DEF Openings
<1>4. mods \o open = Listed(Entries(rs), S)
  BY <1>1, <1>3, ModulesClose
<1> DEFINE get(j) == D!DirModule(s, D!Nth(S, j))
           body(j) == Entries(rs)[D!Nth(S, j)]
<1>5. D!DirModules(s) = [j \in 1 .. Cardinality(S) |-> get(j)]
  BY <1>2, SameSets DEF D!DirModules
<1>6. \A j \in 1 .. Cardinality(S) : get(j) = body(j)
  <2> SUFFICES ASSUME NEW j \in 1 .. Cardinality(S)
               PROVE  get(j) = body(j)
    OBVIOUS
  <2>1. D!Nth(S, j) \in S
    BY <1>1, <1>3, NthAt
  <2>2. D!Nth(S, j) \in DOMAIN rs
    BY <1>1, <1>3, <2>1
  <2> QED
    BY <2>2 DEF Entries
<1>7. Listed(Entries(rs), S) = [j \in 1 .. Cardinality(S) |-> body(j)]
  BY DEF Listed
<1> HIDE DEF get, body
<1> QED
  BY <1>4, <1>5, <1>6, <1>7

\* The walk over the first e bytes of b is clean and gets the first m records.
WalksTo(b, rs, e, m) ==
  Clean(Slice(b, 0, e)) /\ Walk(Slice(b, 0, e)) = SubSeq(Found(rs), 1, m)

\* The records of b stand where the walk over it gets to.
Walked(b, rs) ==
  \A j \in 1 .. Len(rs) :
    /\ rs[j].start + 6 <= Len(b) /\ WalksTo(b, rs, rs[j].start, j - 1)
    /\ \A l \in 1 .. j - 1 : rs[l].start < rs[j].start

\* What lies between two records is walked to those from the one to the other.
LEMMA Between ==
  ASSUME NEW b \in Seq(Byte), NEW rs \in Seq(Numbered), Walked(b, rs),
         NEW j \in 1 .. Len(rs), NEW l \in j .. Len(rs)
  PROVE  AbstractAll(Walk(Slice(b, rs[j].start, rs[l].start))) = SubSeq(AbstractAll(rs), j, l - 1)
<1> DEFINE s == rs[j].start
           t == rs[l].start
           f == Found(rs)
<1>1. /\ Len(rs) \in Nat /\ j \in Nat /\ l \in Nat /\ j >= 1 /\ l <= Len(rs) /\ l \in 1 .. Len(rs)
      /\ Len(b) \in Nat /\ f \in Seq(FoundRecord) /\ Len(f) = Len(rs)
  BY FoundPart, LenProperties
<1>2. s \in Nat /\ t \in Nat
  <2>1. rs[j] \in Numbered /\ rs[l] \in Numbered
    BY <1>1, ElementOfSeq
  <2> QED
    BY <2>1 DEF Numbered
<1>3. /\ s + 6 <= Len(b) /\ WalksTo(b, rs, s, j - 1)
      /\ t + 6 <= Len(b) /\ WalksTo(b, rs, t, l - 1)
  BY <1>1 DEF Walked
<1>4. s <= t
  <2>1. CASE j = l
    BY <1>2, <2>1
  <2>2. CASE j # l
    <3>1. j \in 1 .. l - 1
      BY <1>1, <2>2
    <3>2. s < t
      BY <1>1, <3>1 DEF Walked
    <3> QED
      BY <1>2, <3>2
  <2> QED
    BY <2>1, <2>2
<1> HIDE DEF s, t, f
<1> DEFINE head == Slice(b, 0, s)
           part == Slice(b, s, t)
<1>5. head \in Seq(Byte) /\ part \in Seq(Byte) /\ Slice(b, 0, t) = head \o part
  <2>1. s \in 0 .. Len(b) /\ t \in s .. Len(b) /\ 0 + 1 \in 1 .. Len(b) + 1
        /\ s \in (0 + 1) - 1 .. Len(b)
    BY <1>1, <1>2, <1>3, <1>4
  <2>2. SubSeq(b, 0 + 1, s) \o SubSeq(b, s + 1, t) = SubSeq(b, 0 + 1, t)
    BY <2>1, ConcatAdjacentSubSeq
  <2>3. head \in Seq(Byte) /\ part \in Seq(Byte)
    BY <1>2, <2>1, SliceIs
  <2> QED
    BY <2>2, <2>3 DEF Slice
<1> HIDE DEF head, part
<1>6. Clean(head) /\ Walk(head) = SubSeq(f, 1, j - 1) /\ Walk(head \o part) = SubSeq(f, 1, l - 1)
  BY <1>3, <1>5 DEF WalksTo, head, f
<1>7. Walk(head \o part) = Walk(head) \o Walk(part)
  BY <1>5, <1>6, WalkConcat
<1>8. SubSeq(f, 1, j - 1) \o SubSeq(f, (j - 1) + 1, l - 1) = SubSeq(f, 1, l - 1)
  <2>1. 1 \in 1 .. Len(f) + 1 /\ j - 1 \in 1 - 1 .. Len(f) /\ l - 1 \in j - 1 .. Len(f)
    BY <1>1
  <2> QED
    BY <1>1, <2>1, ConcatAdjacentSubSeq
<1>9. (j - 1) + 1 = j
  BY <1>1
<1>10. Walk(part) = SubSeq(f, j, l - 1)
  <2>1. SubSeq(f, 1, j - 1) \in Seq(FoundRecord) /\ SubSeq(f, j, l - 1) \in Seq(FoundRecord)
    <3>1. \A x \in 1 .. Len(f) : f[x] \in FoundRecord
      BY <1>1, ElementOfSeq
    <3>2. (\A x \in 1 .. j - 1 : x \in 1 .. Len(f)) /\ (\A x \in j .. l - 1 : x \in 1 .. Len(f))
      BY <1>1
    <3>3. /\ \A x \in 1 .. j - 1 : f[x] \in FoundRecord
          /\ \A x \in j .. l - 1 : f[x] \in FoundRecord
      BY <3>1, <3>2
    <3>4. 1 \in Int /\ j \in Int /\ j - 1 \in Int /\ l - 1 \in Int
      BY <1>1
    <3> QED
      BY <3>3, <3>4, SubSeqProperties
  <2>2. Walk(part) \in Seq(FoundRecord)
    <3>1. PICK g : IsWalk(part, g, 0) /\ Walk(part) = g[0]
      BY <1>5, WalkIs
    <3>2. 0 \in 0 .. Len(part) + 6
      BY <1>5, LenProperties
    <3> QED
      BY <3>1, <3>2 DEF IsWalk
  <2>3. SubSeq(f, 1, j - 1) \o Walk(part) = SubSeq(f, 1, j - 1) \o SubSeq(f, j, l - 1)
    BY <1>6, <1>7, <1>8, <1>9
  <2>4. \A u, v, w \in Seq(FoundRecord) : u \o v = u \o w => v = w
    BY ConcatSimplifications
  <2> QED
    BY <2>1, <2>2, <2>3, <2>4
<1>11. AbstractAll(SubSeq(f, j, l - 1)) = SubSeq(AbstractAll(rs), j, l - 1)
  <2>1. j \in Nat \ {0} /\ l - 1 \in Int /\ l - 1 <= Len(rs)
    BY <1>1
  <2> QED
    BY <2>1, FoundPart DEF f
<1> QED
  BY <1>10, <1>11 DEF part, s, t

\* The span that Read keeps is empty, or it ends where a record starts.
SpanUpto(b, mark) == IF mark > 0 THEN Slice(b, 0, mark) ELSE << >>
SpanOf(b, from, to) == IF from >= 0 /\ to > from THEN Slice(b, from, to) ELSE << >>

\* The two spans hold the runs of records that DirStream declares.
LEMMA SpansDeclared ==
  ASSUME NEW b \in Seq(Byte), NEW rs \in Seq(Numbered), Walked(b, rs),
         NEW from, NEW to, MarkIs(rs, from, ReferenceName, Len(rs)),
         MarkIs(rs, to, ProjectModules, Len(rs))
  PROVE  LET s == AbstractAll(rs)
         IN  /\ AbstractAll(Walk(SpanUpto(b, IF from < 0 THEN to ELSE from))) = D!ProjectInfoRaw(s)
             /\ AbstractAll(Walk(SpanOf(b, from, to))) = D!RefsRaw(s)
<1> DEFINE s == AbstractAll(rs)
           x == D!RefStart(s)
           y == D!RefEnd(s)
           top == Len(rs)
<1>1. top \in Nat /\ Len(b) \in Nat /\ \A j \in 1 .. top : rs[j].start \in Nat
  <2>1. \A j \in 1 .. top : rs[j] \in Numbered
    BY ElementOfSeq
  <2>2. \A j \in 1 .. top : rs[j].start \in Nat
    BY <2>1 DEF Numbered
  <2> QED
    BY <2>2, LenProperties
<1>2. (from = -1 /\ x = 0) \/ (x \in 1 .. top /\ from = rs[x].start)
  <2>1. \A r : Abstract(r).id = "REFERENCENAME" <=> r.id = ReferenceName
    BY AbstractIs
  <2> QED
    BY <2>1, FirstMark DEF D!RefStart
<1>3. (to = -1 /\ y = 0) \/ (y \in 1 .. top /\ to = rs[y].start)
  <2>1. \A r : Abstract(r).id = "PROJECTMODULES" <=> r.id = ProjectModules
    BY AbstractIs
  <2> QED
    BY <2>1, FirstMark DEF D!RefEnd
<1>4. AbstractAll(Walk(<< >>)) = << >>
  <2>1. Walk(<< >>) = << >>
    BY NoBytes
  <2>2. AbstractAll(<< >>) = << >>
    BY DEF AbstractAll
  <2> QED
    BY <2>1, <2>2
<1>5. \A j \in Int : j < 1 => SubSeq(s, 1, j) = << >>
  <2> HIDE DEF s
  <2> QED
    BY SubSeqEmpty
<1> HIDE DEF s, x, y, top
<1>6. ASSUME NEW j \in 1 .. top, NEW mark, mark = rs[j].start
      PROVE  AbstractAll(Walk(SpanUpto(b, mark))) = SubSeq(s, 1, j - 1)
  <2>1. mark \in Nat /\ WalksTo(b, rs, mark, j - 1)
    BY <1>1, <1>6 DEF Walked, top
  <2>2. SpanUpto(b, mark) = Slice(b, 0, mark)
    <3>1. CASE mark > 0
      BY <3>1 DEF SpanUpto
    <3>2. CASE ~(mark > 0)
      <4>1. mark = 0
        BY <2>1, <3>2
      <4>2. SubSeq(b, 0 + 1, 0) = << >>
        BY SubSeqEmpty
      <4> QED
        BY <3>2, <4>1, <4>2 DEF SpanUpto, Slice
    <3> QED
      BY <3>1, <3>2
  <2>3. Walk(SpanUpto(b, mark)) = SubSeq(Found(rs), 1, j - 1)
    BY <2>1, <2>2 DEF WalksTo
  <2>4. 1 \in Nat \ {0} /\ j - 1 \in Int /\ j - 1 <= top
    BY <1>1
  <2> QED
    BY <2>3, <2>4, FoundPart DEF s, top
<1>7. AbstractAll(Walk(SpanUpto(b, IF from < 0 THEN to ELSE from))) = D!ProjectInfoRaw(s)
  <2>1. D!ProjectInfoRaw(s) = SubSeq(s, 1, (IF x # 0 THEN x ELSE y) - 1)
    BY DEF D!ProjectInfoRaw, D!InfoEnd, x, y
  <2>2. CASE x \in 1 .. top /\ from = rs[x].start
    <3>1. ~(from < 0) /\ x # 0
      BY <1>1, <2>2
    <3> QED
      BY <1>6, <2>1, <2>2, <3>1
  <2>3. CASE from = -1 /\ x = 0 /\ y \in 1 .. top /\ to = rs[y].start
    <3>1. from < 0
      BY <2>3
    <3> QED
      BY <1>6, <2>1, <2>3, <3>1
  <2>4. CASE from = -1 /\ x = 0 /\ to = -1 /\ y = 0
    <3>1. from < 0 /\ ~(to > 0) /\ 0 - 1 < 1 /\ 0 - 1 \in Int
      BY <2>4
    <3>2. SpanUpto(b, to) = << >>
      BY <3>1 DEF SpanUpto
    <3>3. SubSeq(s, 1, 0 - 1) = << >>
      BY <1>5, <3>1
    <3> QED
      BY <1>4, <2>1, <2>4, <3>1, <3>2, <3>3
  <2> QED
    BY <1>2, <1>3, <2>2, <2>3, <2>4
<1>8. AbstractAll(Walk(SpanOf(b, from, to))) = D!RefsRaw(s)
  <2>1. D!RefsRaw(s) = IF x # 0 /\ y > x THEN SubSeq(s, x, y - 1) ELSE << >>
    BY DEF D!RefsRaw, x, y
  <2>2. CASE x \in 1 .. top /\ y \in 1 .. top /\ y > x
    <3>1. from = rs[x].start /\ to = rs[y].start /\ x # 0 /\ x \in 1 .. y - 1 /\ y \in x .. top
      BY <1>1, <1>2, <1>3, <2>2
    <3>2. from < to /\ from \in Nat /\ to \in Nat
      <4>1. rs[x].start < rs[y].start
        BY <2>2, <3>1 DEF Walked, top
      <4> QED
        BY <1>1, <2>2, <3>1, <4>1
    <3>3. SpanOf(b, from, to) = Slice(b, from, to)
      BY <3>2 DEF SpanOf
    <3>4. AbstractAll(Walk(Slice(b, rs[x].start, rs[y].start))) = SubSeq(s, x, y - 1)
      BY <2>2, <3>1, Between DEF s, top
    <3> QED
      BY <2>1, <2>2, <3>1, <3>3, <3>4
  <2>3. CASE ~(x \in 1 .. top /\ y \in 1 .. top /\ y > x)
    <3>1. ~(x # 0 /\ y > x)
      BY <1>1, <1>2, <1>3, <2>3
    <3>2. ~(from >= 0 /\ to > from)
      <4>1. CASE from = -1
        BY <4>1
      <4>2. CASE x \in 1 .. top /\ from = rs[x].start /\ to = -1
        BY <1>1, <4>2
      <4>3. CASE x \in 1 .. top /\ from = rs[x].start /\ y \in 1 .. top /\ to = rs[y].start
        <5>1. from \in Nat /\ to \in Nat /\ x \in Nat /\ y \in Nat /\ ~(y > x)
          BY <1>1, <2>3, <4>3
        <5>2. y = x \/ y \in 1 .. x - 1
          BY <1>1, <4>3, <5>1
        <5>3. CASE y = x
          BY <4>3, <5>1, <5>3
        <5>4. CASE y \in 1 .. x - 1
          <6>1. rs[y].start < rs[x].start
            BY <4>3, <5>4 DEF Walked, top
          <6> QED
            BY <4>3, <5>1, <6>1
        <5> QED
          BY <5>2, <5>3, <5>4
      <4> QED
        BY <1>2, <1>3, <4>1, <4>2, <4>3
    <3>3. SpanOf(b, from, to) = << >>
      BY <3>2 DEF SpanOf
    <3> QED
      BY <1>4, <2>1, <3>1, <3>3
  <2> QED
    BY <2>2, <2>3
<1> QED
  BY <1>7, <1>8 DEF s

-----------------------------------------------------------------------------
(***************************************************************************)
(* What Write makes is bytes.                                              *)
(***************************************************************************)

\* The entries and the result of ParseDir.
DirEntry == [Name : Seq(Byte), StreamName : Seq(Byte), Offset : Nat, TypeID : Nat]
DirInfo == [SysKind : Nat, LCID : Nat, CodePage : Nat, RefNames : Seq(Seq(Byte)),
            RefsRaw : Seq(Byte), ProjectInfoRaw : Seq(Byte), Modules : Seq(DirEntry)]

\* A concatenation of bytes is bytes.
LEMMA FlatBytes ==
  ASSUME NEW m \in Nat, NEW parts, DOMAIN parts = 1 .. m, \A n \in 1 .. m : parts[n] \in Seq(Byte)
  PROVE  FlattenSeq([n \in 1 .. m |-> parts[n]]) \in Seq(Byte)
<1>1. m \in 0 .. m
  OBVIOUS
<1>2. Upto(parts, m) \in Seq(Byte)
  BY <1>1, Grows
<1> QED
  BY <1>2 DEF Upto

\* Every record that is built is bytes.
LEMMA RecordBytesBuilt ==
  /\ \A n \in Nat, width \in {2, 4} : LE(n, width) \in Seq(Byte)
  /\ \A id \in Nat, payload \in Seq(Byte) : sizedRecord(id, payload) \in Seq(Byte)
  /\ \A id \in Nat, n \in Nat : recU16(id, n) \in Seq(Byte) /\ recU32(id, n) \in Seq(Byte)
<1>1. ASSUME NEW n \in Nat, NEW width \in {2, 4}
      PROVE  LE(n, width) \in Seq(Byte)
  <2>1. \A j \in 1 .. 4 : Place[j] \in Nat \ {0}
    <3>1. /\ Place[1] = 1 /\ Place[2] = Base /\ Place[3] = Base * Base
          /\ Place[4] = Base * Base * Base
      BY DEF Place
    <3>2. \A j \in 1 .. 4 : j = 1 \/ j = 2 \/ j = 3 \/ j = 4
      OBVIOUS
    <3> HIDE DEF Place
    <3> QED
      BY <3>1, <3>2, Bases
  <2> DEFINE body(j) == (n \div Place[j]) % Base
  <2>2. \A j \in 1 .. width : body(j) \in Byte
    <3> SUFFICES ASSUME NEW j \in 1 .. width
                 PROVE  body(j) \in Byte
      OBVIOUS
    <3>1. j \in 1 .. 4
      OBVIOUS
    <3>2. n \div Place[j] \in Nat
      BY <2>1, <3>1, Divided
    <3> DEFINE q == n \div Place[j]
    <3> HIDE DEF q
    <3>3. q % Base \in 0 .. Base - 1
      BY <3>2, Bases, Divided DEF q
    <3> QED
      BY <3>3 DEF q, Byte
  <2>3. LE(n, width) = [j \in 1 .. width |-> body(j)] /\ width \in Nat
    BY DEF LE
  <2> HIDE DEF body
  <2> QED
    BY <2>2, <2>3
<1>2. ASSUME NEW id \in Nat, NEW payload \in Seq(Byte)
      PROVE  sizedRecord(id, payload) \in Seq(Byte)
  <2>1. LE(id, 2) \in Seq(Byte) /\ LE(Len(payload), 4) \in Seq(Byte)
    BY <1>1, LenProperties
  <2>2. LE(id, 2) \o LE(Len(payload), 4) \in Seq(Byte)
    BY <2>1, ConcatProperties
  <2>3. (LE(id, 2) \o LE(Len(payload), 4)) \o payload \in Seq(Byte)
    BY <2>2, ConcatProperties
  <2> QED
    BY <2>3 DEF sizedRecord
<1>3. ASSUME NEW id \in Nat, NEW n \in Nat
      PROVE  recU16(id, n) \in Seq(Byte) /\ recU32(id, n) \in Seq(Byte)
  BY <1>1, <1>2 DEF recU16, recU32
<1> QED
  BY <1>1, <1>2, <1>3

\* A name in UTF-16 is bytes.
LEMMA WideBytes ==
  ASSUME NEW name \in Seq(Byte)
  PROVE  utf16le(name) \in Seq(Byte)
<1> DEFINE m == Len(name)
           parts == [n \in 1 .. m |-> << name[n], 0 >>]
<1>1. m \in Nat /\ DOMAIN name = 1 .. m /\ \A n \in 1 .. m : name[n] \in Byte
  BY LenProperties, ElementOfSeq
<1>2. 0 \in Byte
  BY Bases DEF Byte
<1>3. \A n \in 1 .. m : parts[n] \in Seq(Byte)
  BY <1>1, <1>2
<1>4. DOMAIN parts = 1 .. m /\ utf16le(name) = FlattenSeq(parts)
      /\ parts = [n \in 1 .. m |-> parts[n]]
  BY <1>1 DEF utf16le
<1> HIDE DEF parts, m
<1>5. FlattenSeq([n \in 1 .. m |-> parts[n]]) \in Seq(Byte)
  BY <1>1, <1>3, <1>4, FlatBytes
<1> QED
  BY <1>4, <1>5

\* The records of a module are bytes.
LEMMA ModuleBytes ==
  ASSUME NEW dm \in DirEntry
  PROVE  modRecord(ModuleSpec(dm)) \in Seq(Byte)
<1> DEFINE m == ModuleSpec(dm)
<1>1. /\ m.Name \in Seq(Byte) /\ m.StreamName \in Seq(Byte) /\ m.TypeID \in Nat
  BY DEF DirEntry, ModuleSpec, StreamOf, ProcModule, OtherModule
<1> HIDE DEF m
<1>2. /\ ModuleName \in Nat /\ ModuleNameUnicode \in Nat /\ StreamNameId \in Nat
      /\ StreamNameUnicode \in Nat /\ DocString \in Nat /\ DocStringUnicode \in Nat
      /\ ModuleOffset \in Nat /\ HelpContext \in Nat /\ ModuleCookie \in Nat /\ ModuleEnd \in Nat
      /\ Base * Base - 1 \in Nat /\ << >> \in Seq(Byte) /\ 0 \in Nat
  BY Bases DEF ModuleName, ModuleNameUnicode, StreamNameId, StreamNameUnicode, DocString,
               DocStringUnicode, ModuleOffset, HelpContext, ModuleCookie, ModuleEnd
<1>3. utf16le(m.Name) \in Seq(Byte) /\ utf16le(m.StreamName) \in Seq(Byte)
  BY <1>1, WideBytes
<1>4. \A a, b \in Seq(Byte) : a \o b \in Seq(Byte)
  BY ConcatProperties
<1> DEFINE a == sizedRecord(ModuleName, m.Name) \o sizedRecord(ModuleNameUnicode, utf16le(m.Name))
           b == a \o sizedRecord(StreamNameId, m.StreamName)
                  \o sizedRecord(StreamNameUnicode, utf16le(m.StreamName))
           c == b \o sizedRecord(DocString, << >>) \o sizedRecord(DocStringUnicode, << >>)
           d == c \o recU32(ModuleOffset, 0) \o recU32(HelpContext, 0)
           e == d \o recU16(ModuleCookie, Base * Base - 1)
<1>5. a \in Seq(Byte)
  BY <1>1, <1>2, <1>3, <1>4, RecordBytesBuilt
<1> HIDE DEF a
<1>6. b \in Seq(Byte)
  BY <1>1, <1>2, <1>3, <1>4, <1>5, RecordBytesBuilt
<1> HIDE DEF b
<1>7. c \in Seq(Byte)
  BY <1>2, <1>4, <1>6, RecordBytesBuilt
<1> HIDE DEF c
<1>8. d \in Seq(Byte)
  BY <1>2, <1>4, <1>7, RecordBytesBuilt
<1> HIDE DEF d
<1>9. e \in Seq(Byte)
  BY <1>2, <1>4, <1>8, RecordBytesBuilt
<1> HIDE DEF e
<1>10. e \o sizedRecord(m.TypeID, << >>) \o sizedRecord(ModuleEnd, << >>) \in Seq(Byte)
  BY <1>1, <1>2, <1>4, <1>9, RecordBytesBuilt
<1> QED
  BY <1>10 DEF modRecord, a, b, c, d, e, m

\* The dir stream that Write makes is bytes.
LEMMA BuiltBytes ==
  ASSUME NEW info \in DirInfo
  PROVE  BuiltDir(info) \in Seq(Byte)
<1> DEFINE specs == [j \in DOMAIN info.Modules |-> ModuleSpec(info.Modules[j])]
           m == Len(info.Modules)
           parts == [j \in 1 .. m |-> modRecord(specs[j])]
<1>1. /\ info.ProjectInfoRaw \in Seq(Byte) /\ info.RefsRaw \in Seq(Byte)
      /\ info.Modules \in Seq(DirEntry)
  BY DEF DirInfo
<1>2. m \in Nat /\ DOMAIN info.Modules = 1 .. m /\ \A j \in 1 .. m : info.Modules[j] \in DirEntry
  BY <1>1, LenProperties, ElementOfSeq
<1>3. /\ DOMAIN specs = 1 .. m /\ Len(specs) = m
      /\ \A j \in 1 .. m : specs[j] = ModuleSpec(info.Modules[j])
  <2>1. specs = [j \in 1 .. m |-> ModuleSpec(info.Modules[j])]
    BY <1>2
  <2> HIDE DEF m
  <2> QED
    BY <1>2, <2>1
<1> HIDE DEF specs, m
<1>4. \A j \in 1 .. m : parts[j] \in Seq(Byte)
  <2> SUFFICES ASSUME NEW j \in 1 .. m
               PROVE  modRecord(specs[j]) \in Seq(Byte)
    OBVIOUS
  <2> QED
    BY <1>2, <1>3, ModuleBytes
<1>5. DOMAIN parts = 1 .. m /\ parts = [j \in 1 .. m |-> parts[j]]
      /\ parts = [j \in DOMAIN specs |-> modRecord(specs[j])]
  BY <1>3
<1> HIDE DEF parts
<1>6. FlattenSeq(parts) \in Seq(Byte)
  <2>1. FlattenSeq([j \in 1 .. m |-> parts[j]]) \in Seq(Byte)
    BY <1>2, <1>4, <1>5, FlatBytes
  <2> QED
    BY <1>5, <2>1
<1>7. \A a, b \in Seq(Byte) : a \o b \in Seq(Byte)
  BY ConcatProperties
<1>8. /\ recU16(ProjectModules, m) \in Seq(Byte)
      /\ recU16(ProjectCookie, Base * Base - 1) \in Seq(Byte)
      /\ sizedRecord(Terminator, << >>) \in Seq(Byte)
  <2>1. /\ ProjectModules \in Nat /\ ProjectCookie \in Nat /\ Terminator \in Nat
        /\ Base * Base - 1 \in Nat /\ << >> \in Seq(Byte)
    BY Bases DEF ProjectModules, ProjectCookie, Terminator
  <2> QED
    BY <1>2, <2>1, RecordBytesBuilt
<1>9. BuildProjectModules(specs)
        = recU16(ProjectModules, m) \o recU16(ProjectCookie, Base * Base - 1)
            \o FlattenSeq(parts) \o sizedRecord(Terminator, << >>)
  BY <1>3, <1>5 DEF BuildProjectModules
<1>10. BuildProjectModules(specs) \in Seq(Byte)
  BY <1>6, <1>7, <1>8, <1>9
<1> QED
  BY <1>1, <1>7, <1>10 DEF BuiltDir, specs

-----------------------------------------------------------------------------
(***************************************************************************)
(* The inductive invariant of the parser.                                  *)
(***************************************************************************)

\* The walk over b stands at e, behind the records rs.
StandsAt(b, rs, e) ==
  /\ b \in Seq(Byte) /\ rs \in Seq(Numbered) /\ e \in Nat /\ Walked(b, rs)
  /\ \A j \in 1 .. Len(rs) : rs[j].start < e
  /\ e <= Len(b) => WalksTo(b, rs, e, Len(rs))

\* At the beginning.
LEMMA StandsAtStart ==
  ASSUME NEW b \in Seq(Byte)
  PROVE  StandsAt(b, << >>, 0)
<1>1. Slice(b, 0, 0) = << >>
  <2>1. SubSeq(b, 0 + 1, 0) = << >>
    BY SubSeqEmpty
  <2> QED
    BY <2>1 DEF Slice
<1>2. << >> \in Seq(Numbered) /\ Len(<< >>) = 0 /\ 1 .. 0 = {}
  OBVIOUS
<1>3. SubSeq(Found(<< >>), 1, 0) = << >>
  BY SubSeqEmpty
<1>4. WalksTo(b, << >>, 0, 0)
  BY <1>1, <1>3, NoBytes DEF WalksTo
<1> QED
  BY <1>2, <1>4 DEF StandsAt, Walked

\* Over PROJECTVERSION.
LEMMA StandsAfterVersion ==
  ASSUME NEW b, NEW rs, NEW e, StandsAt(b, rs, e), e + 6 <= Len(b), IdAt(b, e) = Version
  PROVE  StandsAt(b, rs, e + 12)
<1>1. /\ b \in Seq(Byte) /\ rs \in Seq(Numbered) /\ e \in Nat /\ Walked(b, rs)
      /\ \A j \in 1 .. Len(rs) : rs[j].start < e
      /\ e <= Len(b) => WalksTo(b, rs, e, Len(rs))
  BY DEF StandsAt
<1>2. Len(b) \in Nat /\ Len(rs) \in Nat /\ e <= Len(b)
  BY <1>1, LenProperties
<1>3. \A j \in 1 .. Len(rs) : rs[j].start < e + 12
  <2>1. \A j \in 1 .. Len(rs) : rs[j].start \in Nat
    <3>1. \A j \in 1 .. Len(rs) : rs[j] \in Numbered
      BY <1>1, ElementOfSeq
    <3> QED
      BY <3>1 DEF Numbered
  <2> QED
    BY <1>1, <2>1
<1>4. NextAt(b, e) = e + 12 /\ RecordAt(b, e) = << >>
  BY DEF NextAt, RecordAt
<1>5. Clean(Slice(b, 0, e)) /\ Walk(Slice(b, 0, e)) = SubSeq(Found(rs), 1, Len(rs))
  BY <1>1, <1>2 DEF WalksTo
<1>6. ASSUME e + 12 <= Len(b)
      PROVE  WalksTo(b, rs, e + 12, Len(rs))
  <2>1. /\ Clean(Slice(b, 0, e + 12))
        /\ Walk(Slice(b, 0, e + 12)) = Walk(Slice(b, 0, e)) \o << >>
    BY <1>1, <1>4, <1>5, <1>6, WalkOn
  <2>2. SubSeq(Found(rs), 1, Len(rs)) = Found(rs) /\ Found(rs) \in Seq(FoundRecord)
    <3>1. Found(rs) \in Seq(FoundRecord) /\ Len(Found(rs)) = Len(rs)
      BY <1>1, FoundPart
    <3> QED
      BY <3>1, SubSeqFull
  <2>3. Found(rs) \o << >> = Found(rs)
    BY <2>2, ConcatEmptySeq
  <2> QED
    BY <1>5, <2>1, <2>2, <2>3 DEF WalksTo
<1>7. e + 12 \in Nat
  BY <1>1
<1> QED
  BY <1>1, <1>3, <1>6, <1>7 DEF StandsAt

\* Over a record.
LEMMA StandsAfterRecord ==
  ASSUME NEW b, NEW rs, NEW e, StandsAt(b, rs, e), e + 6 <= Len(b), IdAt(b, e) # Version,
         EndAt(b, e) <= Len(b)
  PROVE  StandsAt(b, Append(rs, [id |-> IdAt(b, e), start |-> e,
                                 payload |-> Slice(b, e + 6, EndAt(b, e))]), EndAt(b, e))
<1> DEFINE r == [id |-> IdAt(b, e), start |-> e, payload |-> Slice(b, e + 6, EndAt(b, e))]
           f == [id |-> r.id, payload |-> r.payload]
           more == Append(rs, r)
           n == Len(rs)
           y == EndAt(b, e)
<1>1. /\ b \in Seq(Byte) /\ rs \in Seq(Numbered) /\ e \in Nat /\ Walked(b, rs)
      /\ \A j \in 1 .. n : rs[j].start < e
      /\ e <= Len(b) => WalksTo(b, rs, e, n)
  BY DEF StandsAt
<1>2. /\ Len(b) \in Nat /\ n \in Nat /\ e <= Len(b) /\ DOMAIN rs = 1 .. n
      /\ \A j \in 1 .. n : rs[j].start \in Nat
  <2>1. \A j \in 1 .. n : rs[j] \in Numbered
    BY <1>1, ElementOfSeq
  <2>2. \A j \in 1 .. n : rs[j].start \in Nat
    BY <2>1 DEF Numbered
  <2> QED
    BY <1>1, <2>2, LenProperties
<1>3. /\ IdAt(b, e) \in Nat /\ y \in Nat /\ y >= e + 6
      /\ [id |-> IdAt(b, e), payload |-> Slice(b, e + 6, y)] \in FoundRecord
  BY <1>1, HeaderAt
<1>4. r \in Numbered /\ r.start = e /\ f \in FoundRecord /\ RecordAt(b, e) = << f >>
  BY <1>1, <1>3 DEF Numbered, FoundRecord, RecordAt
<1>5. NextAt(b, e) = y
  BY DEF NextAt
<1>6. /\ more \in Seq(Numbered) /\ Len(more) = n + 1
      /\ \A j \in 1 .. n : more[j] = rs[j]
      /\ more[n + 1] = r
  BY <1>1, <1>4, AppendProperties
<1>7. Found(more) = Append(Found(rs), f)
  BY <1>1, <1>4, FoundMore
<1> HIDE DEF r, f, y
<1>8. /\ Found(rs) \in Seq(FoundRecord) /\ Len(Found(rs)) = n
      /\ Found(more) \in Seq(FoundRecord) /\ Len(Found(more)) = n + 1
  BY <1>1, <1>6, FoundPart
<1> HIDE DEF more, n
<1>9. Found(more) = Found(rs) \o << f >>
  BY <1>4, <1>7, <1>8, AppendIsConcat
<1>10. ASSUME NEW m \in 0 .. n
       PROVE  SubSeq(Found(more), 1, m) = SubSeq(Found(rs), 1, m)
  <2>1. << f >> \in Seq(FoundRecord)
    BY <1>4
  <2>2. CASE m = 0
    <3>1. SubSeq(Found(more), 1, 0) = << >> /\ SubSeq(Found(rs), 1, 0) = << >>
      BY SubSeqEmpty
    <3> QED
      BY <2>2, <3>1
  <2>3. CASE m # 0
    <3>1. 1 \in 1 .. Len(Found(rs)) /\ m \in 1 .. Len(Found(rs))
      BY <1>2, <1>8, <2>3
    <3>2. SubSeq(Found(rs) \o << f >>, 1, m) = SubSeq(Found(rs), 1, m)
      BY <1>8, <2>1, <3>1, SubSeqOfConcat1
    <3> QED
      BY <1>9, <3>2
  <2> QED
    BY <2>2, <2>3
<1>11. \A q : \A m \in 0 .. n : WalksTo(b, rs, q, m) => WalksTo(b, more, q, m)
  BY <1>10 DEF WalksTo
<1>12. WalksTo(b, rs, e, n)
  BY <1>1, <1>2
<1>13. Walked(b, more)
  <2>1. ASSUME NEW j \in 1 .. n
        PROVE  /\ more[j].start + 6 <= Len(b) /\ WalksTo(b, more, more[j].start, j - 1)
               /\ \A l \in 1 .. j - 1 : more[l].start < more[j].start
    <3>1. /\ rs[j].start + 6 <= Len(b) /\ WalksTo(b, rs, rs[j].start, j - 1)
          /\ \A l \in 1 .. j - 1 : rs[l].start < rs[j].start
      BY <1>1 DEF Walked, n
    <3>2. j - 1 \in 0 .. n /\ \A l \in 1 .. j - 1 : l \in 1 .. n
      BY <1>2
    <3> QED
      BY <1>6, <1>11, <3>1, <3>2
  <2>2. /\ e + 6 <= Len(b) /\ WalksTo(b, more, e, n)
        /\ \A l \in 1 .. n : more[l].start < e
    <3>1. n \in 0 .. n
      BY <1>2
    <3> QED
      BY <1>1, <1>6, <1>11, <1>12, <3>1
  <2>3. (n + 1) - 1 = n /\ \A j \in 1 .. n + 1 : j \in 1 .. n \/ j = n + 1
    BY <1>2
  <2> QED
    BY <1>4, <1>6, <2>1, <2>2, <2>3 DEF Walked
<1>14. \A j \in 1 .. n + 1 : more[j].start < y
  <2> SUFFICES ASSUME NEW j \in 1 .. n + 1
               PROVE  more[j].start < y
    OBVIOUS
  <2>1. CASE j = n + 1
    <3>1. more[j].start = e
      BY <1>4, <1>6, <2>1
    <3> QED
      BY <1>1, <1>3, <3>1
  <2>2. CASE j # n + 1
    <3>1. j \in 1 .. n
      BY <1>2, <2>2
    <3>2. more[j].start \in Nat /\ more[j].start < e
      BY <1>1, <1>2, <1>6, <3>1
    <3> QED
      BY <1>1, <1>3, <3>2
  <2> QED
    BY <2>1, <2>2
<1>15. WalksTo(b, more, y, n + 1)
  <2>1. Clean(Slice(b, 0, e)) /\ Walk(Slice(b, 0, e)) = SubSeq(Found(rs), 1, n)
    BY <1>12 DEF WalksTo
  <2>2. y <= Len(b)
    BY DEF y
  <2>3. /\ Clean(Slice(b, 0, y))
        /\ Walk(Slice(b, 0, y)) = Walk(Slice(b, 0, e)) \o << f >>
    BY <1>1, <1>4, <1>5, <2>1, <2>2, WalkOn
  <2>4. SubSeq(Found(rs), 1, n) = Found(rs) /\ SubSeq(Found(more), 1, n + 1) = Found(more)
    BY <1>8, SubSeqFull
  <2> QED
    BY <1>9, <2>1, <2>3, <2>4 DEF WalksTo
<1> QED
  BY <1>1, <1>3, <1>6, <1>13, <1>14, <1>15 DEF StandsAt, more, r, y

\* The locals of ParseDir and its result stand for the records up to m.
Seen(rs, m) ==
  /\ di.CodePage = D!LastVal(AbstractAll(rs), "PROJECTCODEPAGE", 1, m, 0)
  /\ MarkIs(rs, refStart, ReferenceName, m) /\ MarkIs(rs, refEnd, ProjectModules, m)
  /\ NamesAre(rs, di.RefNames, m) /\ ModulesAre(rs, di.Modules, cur, m)

\* The result and the open module are of their types.
DirTyped == di \in DirInfo /\ (cur = << >> \/ \E e \in DirEntry : cur = << e >>)

\* The inductive invariant.
DirInv ==
  /\ StandsAt(plain, recs, i) /\ DirTyped
  /\ stage \in {"walk", "parse", "parsed"}
  /\ stage = "walk" => /\ k = 1 /\ cur = << >> /\ refStart = -1 /\ refEnd = -1
                       /\ di = NoInfo
  /\ stage = "parse" => k \in 1 .. Len(recs) + 1 /\ Seen(recs, k - 1)
  /\ ParsesAsDeclared

\* What the loop does with one record.
Effect ==
  /\ di'.CodePage = (IF R.id = CodePageId THEN le16(R.payload) ELSE di.CodePage)
  /\ refStart' = (IF R.id = ReferenceName /\ refStart < 0 THEN R.start ELSE refStart)
  /\ refEnd' = (IF R.id = ProjectModules /\ refEnd < 0 THEN R.start ELSE refEnd)
  /\ di'.RefNames = (IF R.id = ReferenceName /\ R.payload \notin ToSet(di.RefNames)
                       THEN Append(di.RefNames, R.payload) ELSE di.RefNames)
  /\ R.id = ModuleName => di'.Modules = di.Modules \o cur /\ cur' = << EntryOf(R) >>
  /\ R.id # ModuleName => /\ di'.Modules = di.Modules
                          /\ cur' = (IF cur = << >> THEN << >> ELSE << EntryWith(cur[1], R) >>)

\* The ids that the loop knows differ.
LEMMA Ids ==
  /\ SysKind = 1 /\ CodePageId = 3 /\ ProjectModules = 15 /\ LCID = 20 /\ ReferenceName = 22
  /\ ModuleName = 25 /\ StreamNameId = 26 /\ ProcModule = 33 /\ OtherModule = 34
  /\ ModuleOffset = 49
BY DEF SysKind, CodePageId, ProjectModules, LCID, ReferenceName, ModuleName, StreamNameId,
       ProcModule, OtherModule, ModuleOffset

\* A record that says nothing of an entry leaves it as it is.
LEMMA EntrySame ==
  ASSUME DirTyped, NEW r, r.id \notin Fields
  PROVE  cur = IF cur = << >> THEN << >> ELSE << EntryWith(cur[1], r) >>
<1>1. CASE cur = << >>
  BY <1>1
<1>2. ASSUME NEW e \in DirEntry, cur = << e >>
      PROVE  cur # << >> /\ << EntryWith(cur[1], r) >> = cur
  <2>1. /\ r.id # StreamNameId /\ r.id # ModuleOffset /\ r.id \notin {ProcModule, OtherModule}
    BY DEF Fields
  <2>2. e = [Name |-> e.Name, StreamName |-> e.StreamName, Offset |-> e.Offset,
             TypeID |-> e.TypeID]
    BY DEF DirEntry
  <2>3. EntryWith(e, r) = e
    BY <2>1, <2>2 DEF EntryWith
  <2> HIDE DEF EntryWith
  <2>4. cur # << >> /\ cur[1] = e
    BY <1>2
  <2> QED
    BY <1>2, <2>3, <2>4
<1> QED
  BY <1>1, <1>2 DEF DirTyped

\* Each of the steps has that effect, and keeps the types.
LEMMA StepEffect ==
  ASSUME DirTyped, recs \in Seq(Numbered), k \in 1 .. Len(recs),
         \/ TakeSysKind \/ TakeLCID \/ TakeCodePage \/ TakeReferenceName \/ EndReferences
         \/ OpenModule \/ TakeStreamName \/ TakeOffset \/ TakeType \/ PassOver
  PROVE  Effect /\ DirTyped'
<1> DEFINE r == R
<1>1. r \in Numbered /\ r.payload \in Seq(Byte) /\ r.id \in Nat
  <2>1. r \in Numbered
    BY ElementOfSeq DEF R
  <2> QED
    BY <2>1 DEF Numbered
<1>2. /\ di \in DirInfo /\ di.Modules \in Seq(DirEntry) /\ di.RefNames \in Seq(Seq(Byte))
  BY DEF DirTyped, DirInfo
<1>3. le16(r.payload) \in Nat /\ le32(r.payload) \in Nat
  BY <1>1, NumbersRead
<1> HIDE DEF r
<1>4. r.id \notin Fields => cur = IF cur = << >> THEN << >> ELSE << EntryWith(cur[1], r) >>
  BY EntrySame
<1>5. ASSUME \/ TakeSysKind \/ TakeLCID \/ TakeCodePage
      PROVE  Effect /\ DirTyped'
  <2>1. /\ cur' = cur /\ refStart' = refStart /\ refEnd' = refEnd
        /\ \/ r.id = SysKind /\ di' = [di EXCEPT !.SysKind = le32(r.payload)]
           \/ r.id = LCID /\ di' = [di EXCEPT !.LCID = le32(r.payload)]
           \/ r.id = CodePageId /\ di' = [di EXCEPT !.CodePage = le16(r.payload)]
    BY <1>5 DEF TakeSysKind, TakeLCID, TakeCodePage, Looking, r
  <2>2. /\ r.id # ReferenceName /\ r.id # ProjectModules /\ r.id # ModuleName
        /\ r.id \notin Fields /\ SysKind # CodePageId /\ LCID # CodePageId
    BY <2>1, Ids DEF Fields
  <2>3. /\ di'.CodePage = (IF r.id = CodePageId THEN le16(r.payload) ELSE di.CodePage)
        /\ di'.RefNames = di.RefNames /\ di'.Modules = di.Modules /\ di' \in DirInfo
    BY <1>2, <1>3, <2>1, <2>2 DEF DirInfo
  <2>4. DirTyped'
    BY <2>1, <2>3 DEF DirTyped
  <2> QED
    BY <1>4, <2>1, <2>2, <2>3, <2>4 DEF Effect, r
<1>6. ASSUME TakeReferenceName
      PROVE  Effect /\ DirTyped'
  <2> DEFINE names == IF r.payload \in ToSet(di.RefNames) THEN di.RefNames
                      ELSE Append(di.RefNames, r.payload)
  <2>1. /\ cur' = cur /\ refEnd' = refEnd /\ r.id = ReferenceName
        /\ refStart' = IF refStart < 0 THEN r.start ELSE refStart
        /\ di' = [di EXCEPT !.RefNames = names]
    BY <1>6 DEF TakeReferenceName, Looking, r
  <2>2. /\ r.id # CodePageId /\ r.id # ProjectModules /\ r.id # ModuleName /\ r.id \notin Fields
    BY <2>1, Ids DEF Fields
  <2>3. names \in Seq(Seq(Byte))
    BY <1>1, <1>2, AppendProperties
  <2>4. names = IF r.payload \notin ToSet(di.RefNames) THEN Append(di.RefNames, r.payload)
                ELSE di.RefNames
    OBVIOUS
  <2> HIDE DEF names
  <2>5. /\ di'.CodePage = di.CodePage /\ di'.RefNames = names /\ di'.Modules = di.Modules
        /\ di' \in DirInfo
    BY <1>2, <2>1, <2>3 DEF DirInfo
  <2>6. DirTyped'
    BY <2>1, <2>5 DEF DirTyped
  <2> QED
    BY <1>4, <2>1, <2>2, <2>4, <2>5, <2>6 DEF Effect, r
<1>7. ASSUME EndReferences
      PROVE  Effect /\ DirTyped'
  <2>1. /\ cur' = cur /\ refStart' = refStart /\ di' = di /\ r.id = ProjectModules
        /\ refEnd' = IF refEnd < 0 THEN r.start ELSE refEnd
    BY <1>7 DEF EndReferences, Looking, r
  <2>2. /\ r.id # CodePageId /\ r.id # ReferenceName /\ r.id # ModuleName /\ r.id \notin Fields
    BY <2>1, Ids DEF Fields
  <2>3. DirTyped'
    BY <2>1 DEF DirTyped
  <2> QED
    BY <1>4, <2>1, <2>2, <2>3 DEF Effect, r
<1>8. ASSUME OpenModule
      PROVE  Effect /\ DirTyped'
  <2> DEFINE mods == di.Modules \o cur
  <2>1. /\ refStart' = refStart /\ refEnd' = refEnd /\ r.id = ModuleName
        /\ di' = [di EXCEPT !.Modules = mods] /\ cur' = << EntryOf(r) >>
    BY <1>8 DEF OpenModule, Looking, EntryOf, r
  <2>2. /\ r.id # CodePageId /\ r.id # ReferenceName /\ r.id # ProjectModules
    BY <2>1, Ids
  <2>3. mods \in Seq(DirEntry)
    <3>1. cur \in Seq(DirEntry)
      <4>1. CASE cur = << >>
        BY <4>1
      <4>2. ASSUME NEW e \in DirEntry, cur = << e >>
            PROVE  cur \in Seq(DirEntry)
        BY <4>2
      <4> QED
        BY <4>1, <4>2 DEF DirTyped
    <3> QED
      BY <1>2, <3>1, ConcatProperties
  <2> HIDE DEF mods
  <2>4. /\ di'.CodePage = di.CodePage /\ di'.RefNames = di.RefNames /\ di'.Modules = mods
        /\ di' \in DirInfo
    BY <1>2, <2>1, <2>3 DEF DirInfo
  <2>5. EntryOf(r) \in DirEntry
    BY <1>1 DEF EntryOf, DirEntry
  <2>6. DirTyped'
    BY <2>1, <2>4, <2>5 DEF DirTyped
  <2> QED
    BY <2>1, <2>2, <2>4, <2>6 DEF Effect, r, mods
<1>9. ASSUME TakeStreamName \/ TakeOffset \/ TakeType
      PROVE  Effect /\ DirTyped'
  <2>1. /\ refStart' = refStart /\ refEnd' = refEnd /\ di' = di /\ cur # << >>
        /\ \/ r.id = StreamNameId /\ cur' = [cur EXCEPT ![1]["StreamName"] = r.payload]
           \/ r.id = ModuleOffset /\ cur' = [cur EXCEPT ![1]["Offset"] = le32(r.payload)]
           \/ r.id \in {ProcModule, OtherModule} /\ cur' = [cur EXCEPT ![1]["TypeID"] = r.id]
    BY <1>9 DEF TakeStreamName, TakeOffset, TakeType, TakeField, Looking, r
  <2>2. PICK e \in DirEntry : cur = << e >>
    BY <2>1 DEF DirTyped
  <2>3. /\ r.id # CodePageId /\ r.id # ReferenceName /\ r.id # ProjectModules
        /\ r.id # ModuleName /\ StreamNameId # ModuleOffset
        /\ StreamNameId \notin {ProcModule, OtherModule}
        /\ ModuleOffset \notin {ProcModule, OtherModule}
    BY <2>1, Ids
  <2>4. /\ \A f, v : [cur EXCEPT ![1][f] = v] = << [e EXCEPT ![f] = v] >>
        /\ cur[1] = e
    BY <2>2
  <2>5. /\ [e EXCEPT !["StreamName"] = r.payload]
             = [Name |-> e.Name, StreamName |-> r.payload, Offset |-> e.Offset, TypeID |-> e.TypeID]
        /\ [e EXCEPT !["Offset"] = le32(r.payload)]
             = [Name |-> e.Name, StreamName |-> e.StreamName, Offset |-> le32(r.payload),
                TypeID |-> e.TypeID]
        /\ [e EXCEPT !["TypeID"] = r.id]
             = [Name |-> e.Name, StreamName |-> e.StreamName, Offset |-> e.Offset,
                TypeID |-> r.id]
    <3>1. /\ [e EXCEPT !["StreamName"] = r.payload] = [e EXCEPT !.StreamName = r.payload]
          /\ [e EXCEPT !["Offset"] = le32(r.payload)] = [e EXCEPT !.Offset = le32(r.payload)]
          /\ [e EXCEPT !["TypeID"] = r.id] = [e EXCEPT !.TypeID = r.id]
      OBVIOUS
    <3>2. \A v : /\ [e EXCEPT !.StreamName = v] = [Name |-> e.Name, StreamName |-> v,
                                                   Offset |-> e.Offset, TypeID |-> e.TypeID]
                 /\ [e EXCEPT !.Offset = v] = [Name |-> e.Name, StreamName |-> e.StreamName,
                                               Offset |-> v, TypeID |-> e.TypeID]
                 /\ [e EXCEPT !.TypeID = v] = [Name |-> e.Name, StreamName |-> e.StreamName,
                                               Offset |-> e.Offset, TypeID |-> v]
      BY DEF DirEntry
    <3> QED
      BY <3>1, <3>2
  <2>6. cur' = << EntryWith(e, r) >>
    <3>1. CASE r.id = StreamNameId /\ cur' = [cur EXCEPT ![1]["StreamName"] = r.payload]
      <4>1. r.id # ModuleOffset /\ r.id \notin {ProcModule, OtherModule}
        BY <2>3, <3>1
      <4>2. EntryWith(e, r) = [Name |-> e.Name, StreamName |-> r.payload, Offset |-> e.Offset,
                               TypeID |-> e.TypeID]
        BY <3>1, <4>1 DEF EntryWith
      <4>3. cur' = << [e EXCEPT !["StreamName"] = r.payload] >>
        BY <2>4, <3>1
      <4> QED
        BY <2>5, <4>2, <4>3
    <3>2. CASE r.id = ModuleOffset /\ cur' = [cur EXCEPT ![1]["Offset"] = le32(r.payload)]
      <4>1. r.id # StreamNameId /\ r.id \notin {ProcModule, OtherModule}
        BY <2>3, <3>2
      <4>2. EntryWith(e, r) = [Name |-> e.Name, StreamName |-> e.StreamName,
                               Offset |-> le32(r.payload), TypeID |-> e.TypeID]
        BY <3>2, <4>1 DEF EntryWith
      <4>3. cur' = << [e EXCEPT !["Offset"] = le32(r.payload)] >>
        BY <2>4, <3>2
      <4> QED
        BY <2>5, <4>2, <4>3
    <3>3. CASE r.id \in {ProcModule, OtherModule} /\ cur' = [cur EXCEPT ![1]["TypeID"] = r.id]
      <4>1. r.id # StreamNameId /\ r.id # ModuleOffset
        BY <2>3, <3>3
      <4>2. EntryWith(e, r) = [Name |-> e.Name, StreamName |-> e.StreamName,
                               Offset |-> e.Offset, TypeID |-> r.id]
        BY <3>3, <4>1 DEF EntryWith
      <4>3. cur' = << [e EXCEPT !["TypeID"] = r.id] >>
        BY <2>4, <3>3
      <4> QED
        BY <2>5, <4>2, <4>3
    <3> QED
      BY <2>1, <3>1, <3>2, <3>3
  <2>7. EntryWith(e, r) \in DirEntry
    BY <1>1, <1>3 DEF EntryWith, DirEntry
  <2>8. DirTyped'
    BY <2>1, <2>6, <2>7 DEF DirTyped
  <2> QED
    BY <2>1, <2>3, <2>4, <2>6, <2>8 DEF Effect, r
<1>10. ASSUME PassOver
       PROVE  Effect /\ DirTyped'
  <2>1. /\ cur' = cur /\ refStart' = refStart /\ refEnd' = refEnd /\ di' = di
        /\ r.id \in Known => r.id \in Fields /\ cur = << >>
    BY <1>10 DEF PassOver, r
  <2>2. /\ r.id # CodePageId /\ r.id # ReferenceName /\ r.id # ProjectModules
        /\ r.id # ModuleName
    BY <2>1, Ids DEF Known, Fields
  <2>3. cur = IF cur = << >> THEN << >> ELSE << EntryWith(cur[1], r) >>
    BY <1>4, <2>1 DEF Known
  <2>4. DirTyped'
    BY <2>1 DEF DirTyped
  <2> QED
    BY <2>1, <2>2, <2>3, <2>4 DEF Effect, r
<1> QED
  BY <1>5, <1>6, <1>7, <1>8, <1>9, <1>10

\* The two spans are bytes.
LEMMA SpanBytes ==
  ASSUME NEW b \in Seq(Byte), NEW rs \in Seq(Numbered), Walked(b, rs),
         NEW from, NEW to, NEW id1, NEW id2, MarkIs(rs, from, id1, Len(rs)),
         MarkIs(rs, to, id2, Len(rs))
  PROVE  /\ SpanUpto(b, IF from < 0 THEN to ELSE from) \in Seq(Byte)
         /\ SpanOf(b, from, to) \in Seq(Byte)
<1>1. Len(b) \in Nat /\ << >> \in Seq(Byte)
  BY LenProperties
<1>2. \A mark, id : MarkIs(rs, mark, id, Len(rs)) => mark = -1 \/ mark \in 0 .. Len(b)
  <2> SUFFICES ASSUME NEW j \in 1 .. Len(rs)
               PROVE  rs[j].start \in 0 .. Len(b)
    BY DEF MarkIs
  <2>1. rs[j] \in Numbered
    BY ElementOfSeq
  <2>2. rs[j].start \in Nat /\ rs[j].start + 6 <= Len(b)
    BY <2>1 DEF Numbered, Walked
  <2> QED
    BY <1>1, <2>2
<1>3. (from = -1 \/ from \in 0 .. Len(b)) /\ (to = -1 \/ to \in 0 .. Len(b))
  BY <1>2
<1>4. \A m \in Nat : \A n \in m .. Len(b) : Slice(b, m, n) \in Seq(Byte)
  BY SliceIs
<1>5. \A mark : mark = -1 \/ mark \in 0 .. Len(b) => SpanUpto(b, mark) \in Seq(Byte)
  BY <1>1, <1>4 DEF SpanUpto
<1>6. SpanOf(b, from, to) \in Seq(Byte)
  <2>1. CASE from >= 0 /\ to > from
    <3>1. from \in Nat /\ to \in from .. Len(b)
      BY <1>1, <1>3, <2>1
    <3> QED
      BY <1>4, <2>1, <3>1 DEF SpanOf
  <2>2. CASE ~(from >= 0 /\ to > from)
    BY <1>1, <2>2 DEF SpanOf
  <2> QED
    BY <2>1, <2>2
<1> QED
  BY <1>3, <1>5, <1>6

\* The start of a call.
Started(b) ==
  /\ plain = b /\ stage = "walk" /\ i = 0 /\ recs = << >> /\ k = 1 /\ cur = << >>
  /\ refStart = -1 /\ refEnd = -1 /\ di = NoInfo

\* Nothing has been walked.
LEMMA StartedKeeps == \A b \in Seq(Byte) : Started(b) => DirInv
<1> SUFFICES ASSUME NEW b \in Seq(Byte), Started(b)
             PROVE  DirInv
  OBVIOUS
<1>1. NoInfo \in DirInfo
  BY DEF NoInfo, DirInfo
<1>2. StandsAt(plain, recs, i)
  BY StandsAtStart DEF Started
<1> QED
  BY <1>1, <1>2 DEF Started, DirInv, DirTyped, ParsesAsDeclared

\* DirInv holds at the start of a Read.
LEMMA DirInit == Init => DirInv
<1> SUFFICES ASSUME Init
             PROVE  DirInv
  OBVIOUS
<1>1. PICK input \in Inputs : origin = input.dir
  BY DEF Init
<1>2. origin.plain \in Seq(Byte)
  BY <1>1, StreamsAssumption DEF StreamsAssumption, IsStream
<1>3. Started(origin.plain)
  BY DEF Init, Called, Fresh, Started
<1> QED
  BY <1>2, <1>3, StartedKeeps

\* Before the first record nothing has been seen.
LEMMA NothingSeen ==
  ASSUME recs \in Seq(Numbered), cur = << >>, refStart = -1, refEnd = -1, di = NoInfo
  PROVE  Seen(recs, 0)
<1>1. \A S : S \cap (1 .. 0) = {}
  OBVIOUS
<1>2. \A id : MarkIs(recs, -1, id, 0)
  BY DEF MarkIs
<1>3. D!LastVal(AbstractAll(recs), "PROJECTCODEPAGE", 1, 0, 0) = 0
  <2>1. Len(recs) \in Nat /\ DOMAIN AbstractAll(recs) = 1 .. Len(recs)
    BY FoundPart
  <2>2. 0 < 1 /\ 0 \in Nat /\ 1 \in Nat
    OBVIOUS
  <2> QED
    BY <2>1, <2>2, LastValNone
<1>4. NamesAre(recs, << >>, 0)
  <2>1. Listed(Payloads(recs), {}) = << >>
    <3>1. {} \in SUBSET (1 .. 0) /\ 0 \in Nat
      OBVIOUS
    <3> QED
      BY <3>1, ListedMore
  <2>2. ToSet(<< >>) = {}
    BY DEF ToSet
  <2> QED
    BY <1>1, <2>1, <2>2 DEF NamesAre
<1>5. ModulesAre(recs, << >>, << >>, 0)
  BY <1>1 DEF ModulesAre
<1>6. di.CodePage = 0 /\ di.RefNames = << >> /\ di.Modules = << >>
  BY DEF NoInfo
<1> QED
  BY <1>2, <1>3, <1>4, <1>5, <1>6 DEF Seen

\* The steps of the walk.
LEMMA WalkKeeps ==
  ASSUME DirInv, SkipVersion \/ CutRecord \/ WalkEnds
  PROVE  DirInv'
<1>1. StandsAt(plain, recs, i) /\ DirTyped
  BY DEF DirInv
<1>2. /\ stage = "walk" /\ plain' = plain /\ k' = k /\ cur' = cur
      /\ refStart' = refStart /\ refEnd' = refEnd /\ di' = di
  BY DEF SkipVersion, CutRecord, WalkEnds, loops
<1>3. /\ k = 1 /\ cur = << >> /\ refStart = -1 /\ refEnd = -1 /\ di = NoInfo
  BY <1>2 DEF DirInv
<1>4. DirTyped'
  BY <1>1, <1>2 DEF DirTyped
<1>5. CASE SkipVersion
  <2>1. i' = i + 12 /\ recs' = recs /\ stage' = "walk"
    BY <1>2, <1>5 DEF SkipVersion
  <2>2. i + 6 <= Len(plain) /\ IdAt(plain, i) = Version
    BY <1>5 DEF SkipVersion, HeaderFits, Id, IdAt
  <2>3. StandsAt(plain, recs, i + 12)
    BY <1>1, <2>2, StandsAfterVersion
  <2> QED
    BY <1>2, <1>3, <1>4, <2>1, <2>3 DEF DirInv, ParsesAsDeclared
<1>6. CASE CutRecord
  <2>1. stage' = "walk"
    BY <1>2, <1>6 DEF CutRecord
  <2>2. i' = EndAt(plain, i)
    BY <1>6 DEF CutRecord, Size, EndAt
  <2>3. recs' = Append(recs, [id |-> IdAt(plain, i), start |-> i,
                              payload |-> Slice(plain, i + 6, EndAt(plain, i))])
    BY <1>6 DEF CutRecord, Id, IdAt, Size, EndAt
  <2>4. i + 6 <= Len(plain) /\ IdAt(plain, i) # Version /\ EndAt(plain, i) <= Len(plain)
    BY <1>6 DEF CutRecord, HeaderFits, Id, IdAt, PayloadFits, Size, EndAt
  <2>5. StandsAt(plain, recs', i')
    BY <1>1, <2>2, <2>3, <2>4, StandsAfterRecord
  <2> QED
    BY <1>2, <1>3, <1>4, <2>1, <2>5 DEF DirInv, ParsesAsDeclared
<1>7. CASE WalkEnds
  <2>1. i' = i /\ recs' = recs /\ stage' = "parse"
    BY <1>7 DEF WalkEnds
  <2>2. recs \in Seq(Numbered) /\ Len(recs) \in Nat
    BY <1>1, LenProperties DEF StandsAt
  <2>3. Seen(recs, 0)
    BY <1>3, <2>2, NothingSeen
  <2>4. Seen(recs, k - 1)'
    BY <1>2, <1>3, <2>1, <2>3 DEF Seen
  <2>5. k' \in 1 .. Len(recs') + 1
    BY <1>2, <1>3, <2>1, <2>2
  <2> QED
    BY <1>1, <1>2, <1>4, <2>1, <2>4, <2>5 DEF DirInv, ParsesAsDeclared
<1> QED
  BY <1>5, <1>6, <1>7

\* The steps of the loop.
LEMMA LoopKeeps ==
  ASSUME DirInv,
         \/ TakeSysKind \/ TakeLCID \/ TakeCodePage \/ TakeReferenceName \/ EndReferences
         \/ OpenModule \/ TakeStreamName \/ TakeOffset \/ TakeType \/ PassOver
  PROVE  DirInv'
<1>1. StandsAt(plain, recs, i) /\ DirTyped
  BY DEF DirInv
<1>2. stage = "parse" /\ k <= Len(recs) /\ Advance
  BY DEF TakeSysKind, TakeLCID, TakeCodePage, TakeReferenceName, EndReferences,
         OpenModule, TakeStreamName, TakeOffset, TakeType, TakeField, PassOver, Looking
<1>3. /\ k' = k + 1 /\ plain' = plain /\ stage' = stage /\ i' = i /\ recs' = recs
  BY <1>2 DEF Advance
<1>4. recs \in Seq(Numbered) /\ Len(recs) \in Nat
  BY <1>1, LenProperties DEF StandsAt
<1>5. k \in 1 .. Len(recs) + 1 /\ Seen(recs, k - 1)
  BY <1>2 DEF DirInv
<1> DEFINE m == k - 1
<1>6. k \in 1 .. Len(recs) /\ m \in Nat /\ m + 1 = k /\ m + 1 \in 1 .. Len(recs) /\ 1 <= m + 1
  BY <1>2, <1>4, <1>5
<1>7. Effect /\ DirTyped'
  BY <1>1, <1>4, <1>6, StepEffect
<1> DEFINE rs == recs
           r == rs[m + 1]
<1>8. R = r
  BY <1>6 DEF R
<1> HIDE DEF m
<1>9. /\ di.CodePage = D!LastVal(AbstractAll(rs), "PROJECTCODEPAGE", 1, m, 0)
      /\ MarkIs(rs, refStart, ReferenceName, m) /\ MarkIs(rs, refEnd, ProjectModules, m)
      /\ NamesAre(rs, di.RefNames, m) /\ ModulesAre(rs, di.Modules, cur, m)
  BY <1>5 DEF Seen, m
<1>10. di'.CodePage = D!LastVal(AbstractAll(rs), "PROJECTCODEPAGE", 1, m + 1, 0)
  <2>1. /\ DOMAIN AbstractAll(rs) = 1 .. Len(rs) /\ AbstractAll(rs)[m + 1] = Abstract(r)
    BY <1>4, <1>6, FoundPart
  <2>2. D!LastVal(AbstractAll(rs), "PROJECTCODEPAGE", 1, m + 1, 0)
          = IF Abstract(r).id = "PROJECTCODEPAGE" THEN Abstract(r).val
            ELSE D!LastVal(AbstractAll(rs), "PROJECTCODEPAGE", 1, m, 0)
    BY <1>4, <1>6, <2>1, LastValMore
  <2>3. /\ Abstract(r).id = "PROJECTCODEPAGE" <=> r.id = CodePageId
        /\ r.id = CodePageId => Abstract(r).val = le16(r.payload)
    BY AbstractIs
  <2>4. di'.CodePage = IF r.id = CodePageId THEN le16(r.payload) ELSE di.CodePage
    BY <1>7, <1>8 DEF Effect
  <2> HIDE DEF r
  <2> QED
    BY <1>9, <2>2, <2>3, <2>4
<1>11. MarkIs(rs, refStart', ReferenceName, m + 1)
  <2>1. MarkIs(rs, IF r.id = ReferenceName /\ refStart < 0 THEN r.start ELSE refStart,
               ReferenceName, m + 1)
    BY <1>4, <1>6, <1>9, MarkMore
  <2>2. refStart' = IF r.id = ReferenceName /\ refStart < 0 THEN r.start ELSE refStart
    BY <1>7, <1>8 DEF Effect
  <2> QED
    BY <2>1, <2>2
<1>12. MarkIs(rs, refEnd', ProjectModules, m + 1)
  <2>1. MarkIs(rs, IF r.id = ProjectModules /\ refEnd < 0 THEN r.start ELSE refEnd,
               ProjectModules, m + 1)
    BY <1>4, <1>6, <1>9, MarkMore
  <2>2. refEnd' = IF r.id = ProjectModules /\ refEnd < 0 THEN r.start ELSE refEnd
    BY <1>7, <1>8 DEF Effect
  <2> QED
    BY <2>1, <2>2
<1>13. NamesAre(rs, di'.RefNames, m + 1)
  <2>1. NamesAre(rs, IF r.id = ReferenceName /\ r.payload \notin ToSet(di.RefNames)
                       THEN Append(di.RefNames, r.payload) ELSE di.RefNames, m + 1)
    BY <1>4, <1>6, <1>9, NamesMore
  <2>2. di'.RefNames = IF r.id = ReferenceName /\ r.payload \notin ToSet(di.RefNames)
                         THEN Append(di.RefNames, r.payload) ELSE di.RefNames
    BY <1>7, <1>8 DEF Effect
  <2> QED
    BY <2>1, <2>2
<1>14. ModulesAre(rs, di'.Modules, cur', m + 1)
  <2>1. /\ r.id = ModuleName => ModulesAre(rs, di.Modules \o cur, << EntryOf(r) >>, m + 1)
        /\ r.id # ModuleName /\ cur = << >> => ModulesAre(rs, di.Modules, cur, m + 1)
        /\ r.id # ModuleName /\ cur # << >> =>
             ModulesAre(rs, di.Modules, << EntryWith(cur[1], r) >>, m + 1)
    BY <1>4, <1>6, <1>9, ModulesMore
  <2>2. /\ r.id = ModuleName => di'.Modules = di.Modules \o cur /\ cur' = << EntryOf(r) >>
        /\ r.id # ModuleName => di'.Modules = di.Modules
        /\ r.id # ModuleName =>
             cur' = IF cur = << >> THEN << >> ELSE << EntryWith(cur[1], r) >>
    BY <1>7, <1>8 DEF Effect
  <2> HIDE DEF r, rs
  <2> QED
    BY <2>1, <2>2
<1>15. Seen(recs, k - 1)'
  <2>1. (k - 1)' = m + 1 /\ recs' = rs
    BY <1>3, <1>5, <1>6
  <2> HIDE DEF rs
  <2> QED
    BY <1>10, <1>11, <1>12, <1>13, <1>14, <2>1 DEF Seen
<1>16. k' \in 1 .. Len(recs') + 1
  BY <1>3, <1>4, <1>6
<1> QED
  BY <1>1, <1>2, <1>3, <1>7, <1>15, <1>16 DEF DirInv, ParsesAsDeclared

\* The last flush, and the spans.
LEMMA ParseEndsKeeps ==
  ASSUME DirInv, ParseEnds
  PROVE  DirInv'
<1>1. StandsAt(plain, recs, i) /\ DirTyped
  BY DEF DirInv
<1>2. /\ stage = "parse" /\ k > Len(recs) /\ cur' = << >> /\ stage' = "parsed"
      /\ plain' = plain /\ i' = i /\ recs' = recs
      /\ di' = [di EXCEPT !.Modules = @ \o cur, !.ProjectInfoRaw = Spans.ProjectInfoRaw,
                          !.RefsRaw = Spans.RefsRaw]
  BY DEF ParseEnds
<1>3. plain \in Seq(Byte) /\ recs \in Seq(Numbered) /\ Len(recs) \in Nat /\ Walked(plain, recs)
  BY <1>1, LenProperties DEF StandsAt
<1>4. Seen(recs, Len(recs))
  <2>1. k \in 1 .. Len(recs) + 1 /\ Seen(recs, k - 1)
    BY <1>2 DEF DirInv
  <2>2. k - 1 = Len(recs)
    BY <1>2, <1>3, <2>1
  <2> QED
    BY <2>1, <2>2
<1> DEFINE all  == AbstractAll(recs)
           info == SpanUpto(plain, IF refStart < 0 THEN refEnd ELSE refStart)
           refs == SpanOf(plain, refStart, refEnd)
           mods == di.Modules \o cur
<1>5. Spans.ProjectInfoRaw = info /\ Spans.RefsRaw = refs
  BY DEF Spans, SpanUpto, SpanOf, InfoEnd
<1>6. /\ di.CodePage = D!LastVal(all, "PROJECTCODEPAGE", 1, Len(recs), 0)
      /\ MarkIs(recs, refStart, ReferenceName, Len(recs))
      /\ MarkIs(recs, refEnd, ProjectModules, Len(recs))
      /\ NamesAre(recs, di.RefNames, Len(recs)) /\ ModulesAre(recs, di.Modules, cur, Len(recs))
  BY <1>4 DEF Seen
<1>7. di.CodePage = D!CodePage(all)
  <2>1. Len(all) = Len(recs)
    <3> DEFINE body(j) == Abstract(recs[j])
    <3>1. all = [j \in 1 .. Len(recs) |-> body(j)]
      BY <1>3, FoundPart
    <3> HIDE DEF all, body
    <3> QED
      BY <1>3, <3>1
  <2> QED
    BY <1>6, <2>1 DEF D!CodePage
<1>8. di.RefNames = D!RefNames(all)
  BY <1>3, <1>6, NamesDeclared
<1>9. mods = D!DirModules(all)
  BY <1>3, <1>6, ModulesDeclared
<1>10. AbstractAll(Walk(info)) = D!ProjectInfoRaw(all) /\ AbstractAll(Walk(refs)) = D!RefsRaw(all)
  BY <1>3, <1>6, SpansDeclared
<1>11. info \in Seq(Byte) /\ refs \in Seq(Byte)
  BY <1>3, <1>6, SpanBytes
<1>12. mods \in Seq(DirEntry)
  <2>1. cur \in Seq(DirEntry)
    <3>1. CASE cur = << >>
      BY <3>1
    <3>2. ASSUME NEW e \in DirEntry, cur = << e >>
          PROVE  cur \in Seq(DirEntry)
      BY <3>2
    <3> QED
      BY <1>1, <3>1, <3>2 DEF DirTyped
  <2>2. di.Modules \in Seq(DirEntry)
    BY <1>1 DEF DirTyped, DirInfo
  <2> QED
    BY <2>1, <2>2, ConcatProperties
<1> HIDE DEF info, refs, mods, all
<1>13. di' = [di EXCEPT !.Modules = mods, !.ProjectInfoRaw = info, !.RefsRaw = refs]
  BY <1>2, <1>5 DEF mods
<1>14. di \in DirInfo
  BY <1>1 DEF DirTyped
<1>15. /\ di' \in DirInfo /\ di'.CodePage = di.CodePage /\ di'.RefNames = di.RefNames
       /\ di'.Modules = mods /\ di'.ProjectInfoRaw = info /\ di'.RefsRaw = refs
  BY <1>11, <1>12, <1>13, <1>14 DEF DirInfo
<1>16. ParsesAsDeclared'
  <2>1. AbstractAll(recs)' = all
    BY <1>2 DEF all
  <2>2. /\ di'.CodePage = D!CodePage(all) /\ di'.RefNames = D!RefNames(all)
        /\ di'.Modules = D!DirModules(all)
        /\ AbstractAll(Walk(di'.ProjectInfoRaw)) = D!ProjectInfoRaw(all)
        /\ AbstractAll(Walk(di'.RefsRaw)) = D!RefsRaw(all)
    BY <1>7, <1>8, <1>9, <1>10, <1>15
  <2> QED
    BY <1>2, <2>2 DEF ParsesAsDeclared, all
<1>17. DirTyped'
  BY <1>2, <1>15 DEF DirTyped
<1> QED
  BY <1>1, <1>2, <1>16, <1>17 DEF DirInv

\* What leaves the parser alone keeps it.
LEMMA DirKept ==
  ASSUME DirInv, UNCHANGED dirVars
  PROVE  DirInv'
<1>1. /\ plain' = plain /\ stage' = stage /\ i' = i /\ recs' = recs /\ k' = k /\ cur' = cur
      /\ refStart' = refStart /\ refEnd' = refEnd /\ di' = di
  BY DEF dirVars, loops
<1> QED
  BY <1>1 DEF DirInv, DirTyped, Seen, ParsesAsDeclared

\* Every step of Read, and the Read after a Write, keeps the invariant.
LEMMA DirStep == DirInv /\ [Next]_vars => DirInv'
<1> SUFFICES ASSUME DirInv, [Next]_vars
             PROVE  DirInv'
  OBVIOUS
<1>1. CASE Parse
  <2>1. DirNext
    BY <1>1 DEF Parse
  <2>2. CASE SkipVersion \/ CutRecord \/ WalkEnds
    BY <2>2, WalkKeeps
  <2>3. CASE \/ TakeSysKind \/ TakeLCID \/ TakeCodePage \/ TakeReferenceName \/ EndReferences
             \/ OpenModule \/ TakeStreamName \/ TakeOffset \/ TakeType \/ PassOver
    BY <2>3, LoopKeeps
  <2>4. CASE ParseEnds
    BY <2>4, ParseEndsKeeps
  <2> QED
    BY <2>1, <2>2, <2>3, <2>4 DEF DirNext
<1>2. CASE CallProtection
  BY <1>2, DirKept DEF CallProtection
<1>3. CASE Protection
  BY <1>3, DirKept DEF Protection
<1>4. CASE WriteAndRead
  <2>1. BuiltDir(di) \in Seq(Byte)
    BY BuiltBytes DEF DirInv, DirTyped
  <2>2. \E b \in Seq(Byte) : Started(b)'
    BY <1>4, <2>1 DEF WriteAndRead, Fresh, Started
  <2>3. (\A b \in Seq(Byte) : Started(b) => DirInv)'
    BY StartedKeeps, PTL
  <2> QED
    BY <2>2, <2>3
<1>5. CASE UNCHANGED vars
  BY <1>5, DirKept DEF vars
<1> QED
  BY <1>1, <1>2, <1>3, <1>4, <1>5 DEF Next

\* The inductive invariant of the parser holds of every Read, on any bytes.
THEOREM DirInvariant == FairSpec => []DirInv
BY DirInit, DirStep, PTL DEF FairSpec

\* On any bytes the loop of ParseDir computes what DirStream declares, and the
\* spans it keeps hold the runs of records that DirStream takes for them.
THEOREM ParsesAsDeclaredHolds == FairSpec => []ParsesAsDeclared
<1>1. DirInv => ParsesAsDeclared
  BY DEF DirInv
<1> QED
  BY <1>1, DirInvariant, PTL

-----------------------------------------------------------------------------
(***************************************************************************)
(* What Write makes of the modules, walked.                                *)
(***************************************************************************)

\* The walk over b is clean and gets w.
Walks(b, w) ==
  b \in Seq(Byte) /\ Clean(b) /\ w \in Seq(FoundRecord) /\ Walk(b) = w

\* Nothing is walked to nothing.
LEMMA WalksNothing == Walks(<< >>, << >>)
BY NoBytes DEF Walks

\* One behind the other.
LEMMA WalksBoth ==
  ASSUME NEW a, NEW b, NEW v, NEW w, Walks(a, v), Walks(b, w)
  PROVE  Walks(a \o b, v \o w)
<1>1. /\ a \in Seq(Byte) /\ b \in Seq(Byte) /\ Clean(a) /\ Clean(b)
      /\ v \in Seq(FoundRecord) /\ w \in Seq(FoundRecord) /\ Walk(a) = v /\ Walk(b) = w
  BY DEF Walks
<1>2. a \o b \in Seq(Byte) /\ v \o w \in Seq(FoundRecord)
  BY <1>1, ConcatProperties
<1>3. Clean(a \o b) /\ Walk(a \o b) = v \o w
  BY <1>1, CleanConcat, WalkConcat
<1> QED
  BY <1>2, <1>3 DEF Walks

\* A record as it is built is walked to that record.
LEMMA WalksOne ==
  ASSUME NEW id \in 0 .. Base * Base - 1, id # Version, NEW payload \in Seq(Byte),
         Len(payload) < Base * Base * Base * Base
  PROVE  Walks(sizedRecord(id, payload), << [id |-> id, payload |-> payload] >>)
<1> DEFINE b == sizedRecord(id, payload)
           size == Len(payload)
<1>1. /\ b \in Seq(Byte) /\ size \in Nat /\ Len(b) = 6 + size
      /\ le16(Slice(b, 0, 2)) = id /\ le32(Slice(b, 2, 6)) = size
      /\ Slice(b, 6, 6 + size) = payload
  BY SizedBytes
<1>2. id \in Nat /\ [id |-> id, payload |-> payload] \in FoundRecord
  BY Bases DEF FoundRecord
<1> HIDE DEF b, size
<1>3. IdAt(b, 0) = id
  BY <1>1 DEF IdAt
<1>4. EndAt(b, 0) = 6 + size
  BY <1>1 DEF EndAt
<1>5. NextAt(b, 0) = Len(b) /\ Len(b) >= 6
  BY <1>1, <1>3, <1>4 DEF NextAt
<1>6. RecordAt(b, 0) = << [id |-> id, payload |-> payload] >>
  <2>1. Slice(b, 0 + 6, EndAt(b, 0)) = payload
    BY <1>1, <1>4
  <2> QED
    BY <1>3, <2>1 DEF RecordAt
<1>7. Clean(b) /\ Walk(b) = RecordAt(b, 0)
  BY <1>1, <1>5, OneRecord
<1>8. << [id |-> id, payload |-> payload] >> \in Seq(FoundRecord)
  BY <1>2
<1>9. Walks(b, << [id |-> id, payload |-> payload] >>)
  BY <1>1, <1>6, <1>7, <1>8 DEF Walks
<1> QED
  BY <1>9 DEF b

\* Small ids and sizes fit in their fields.
LEMMA SmallFits ==
  /\ Base * Base \in Nat /\ Base * Base >= 64 /\ (Base = 8 \/ Base * Base >= 81)
  /\ Base * Base * Base * Base \in Nat /\ Base * Base * Base * Base > 4
<1>1. Base \in Nat /\ Base >= 8
  BY BaseAssumption
<1>2. Base * Base >= 8 * Base /\ 8 * Base \in Nat /\ Base * Base \in Nat
  BY <1>1
<1>3. Base = 8 \/ Base * Base >= 9 * Base
  BY <1>1
<1> DEFINE q == Base * Base
<1>4. q \in Nat /\ q >= 64 /\ (Base = 8 \/ q >= 81)
  BY <1>1, <1>2, <1>3
<1> HIDE DEF q
<1>5. q * Base >= q /\ q * Base \in Nat
  BY <1>1, <1>4
<1> DEFINE c == q * Base
<1> HIDE DEF c
<1>6. c \in Nat /\ c >= 64
  BY <1>4, <1>5 DEF c
<1>7. c * Base >= c /\ c * Base \in Nat
  BY <1>1, <1>6
<1>8. c * Base > 4
  BY <1>6, <1>7
<1>9. c * Base = Base * Base * Base * Base
  BY DEF c, q
<1> QED
  BY <1>4, <1>7, <1>8, <1>9 DEF q

\* What is built beside the fields that the parser reads.
Others == {ModuleNameUnicode, StreamNameUnicode, DocString, DocStringUnicode, HelpContext,
           ModuleCookie, ModuleEnd, ProjectCookie, Terminator}

\* With 8 values of a byte, ids of three digits lose the highest.
LEMMA ShortId ==
  ASSUME Base = 8, NEW id \in 64 .. 127
  PROVE  LE(id, 2) = LE(id - 64, 2)
<1>1. Place[1] = 1 /\ Place[2] = 8
  BY DEF Place
<1> HIDE DEF Place
<1>2. \A n \in 1 .. 2 : n = 1 \/ n = 2
  OBVIOUS
<1>3. (id \div 1) % 8 = ((id - 64) \div 1) % 8
  OBVIOUS
<1>4. (id \div 8) % 8 = ((id - 64) \div 8) % 8
  OBVIOUS
<1>5. \A n \in 1 .. 2 : (id \div Place[n]) % Base = ((id - 64) \div Place[n]) % Base
  BY <1>1, <1>2, <1>3, <1>4
<1> QED
  BY <1>5 DEF LE

\* The parser passes over it.
LEMMA WalksOther ==
  ASSUME NEW id \in Others, NEW payload \in Seq(Byte), Len(payload) < Base * Base * Base * Base
  PROVE  \E r \in FoundRecord : Walks(sizedRecord(id, payload), << r >>) /\ r.id \notin Known
<1>1. /\ id \in 0 .. 127 /\ id # Version /\ id \notin Known
      /\ id > 63 => id = 71 \/ id = 72
  BY DEF Others, ModuleNameUnicode, StreamNameUnicode, DocString, DocStringUnicode, HelpContext,
         ModuleCookie, ModuleEnd, ProjectCookie, Terminator, Version, Known, Fields, StreamNameId,
         ModuleOffset, ProcModule, OtherModule, SysKind, LCID, CodePageId, ReferenceName,
         ProjectModules, ModuleName
<1>2. CASE id \in 0 .. Base * Base - 1
  <2>1. Walks(sizedRecord(id, payload), << [id |-> id, payload |-> payload] >>)
    BY <1>1, <1>2, WalksOne
  <2>2. id \in Nat
    BY <1>1
  <2>3. [id |-> id, payload |-> payload] \in FoundRecord
    BY <2>2 DEF FoundRecord
  <2> QED
    BY <1>1, <2>1, <2>3
<1>3. CASE id \notin 0 .. Base * Base - 1
  <2>1. id > 63 /\ Base = 8
    BY <1>1, <1>3, SmallFits
  <2> DEFINE low == id - 64
  <2>2. low \in {7, 8}
    BY <1>1, <2>1
  <2>3. low # Version /\ low \notin Known
    BY <2>2 DEF Version, Known, Fields, StreamNameId, ModuleOffset, ProcModule, OtherModule,
                SysKind, LCID, CodePageId, ReferenceName, ProjectModules, ModuleName
  <2>4. low \in 0 .. Base * Base - 1 /\ low \in Nat
    BY <2>2, SmallFits
  <2>5. LE(id, 2) = LE(low, 2)
    <3>1. id \in 64 .. 127
      BY <1>1, <2>1
    <3> QED
      BY <2>1, <3>1, ShortId
  <2>6. sizedRecord(id, payload) = sizedRecord(low, payload)
    BY <2>5 DEF sizedRecord
  <2> HIDE DEF low
  <2>7. Walks(sizedRecord(low, payload), << [id |-> low, payload |-> payload] >>)
    BY <2>3, <2>4, WalksOne
  <2>8. [id |-> low, payload |-> payload] \in FoundRecord
    BY <2>4 DEF FoundRecord
  <2> QED
    BY <2>3, <2>6, <2>7, <2>8
<1> QED
  BY <1>2, <1>3

\* Numbers are as wide as they are asked to be.
LEMMA NumberIs ==
  ASSUME NEW n \in Nat, NEW width \in {2, 4}
  PROVE  LE(n, width) \in Seq(Byte) /\ Len(LE(n, width)) = width
<1>1. LE(n, width) \in Seq(Byte) /\ width \in Nat
  BY RecordBytesBuilt
<1>2. DOMAIN LE(n, width) = 1 .. width
  BY DEF LE
<1> QED
  BY <1>1, <1>2, LenProperties

\* A name in UTF-16 has twice as many bytes.
LEMMA WideLength ==
  ASSUME NEW name \in Seq(Byte)
  PROVE  utf16le(name) \in Seq(Byte) /\ Len(utf16le(name)) = 2 * Len(name)
<1> DEFINE m == Len(name)
           parts == [n \in 1 .. m |-> << name[n], 0 >>]
<1>1. m \in Nat /\ DOMAIN name = 1 .. m /\ \A n \in 1 .. m : name[n] \in Byte
  BY LenProperties, ElementOfSeq
<1>2. 0 \in Byte
  BY Bases DEF Byte
<1>3. \A n \in 1 .. m : parts[n] \in Seq(Byte) /\ Len(parts[n]) = 2
  BY <1>1, <1>2
<1>4. utf16le(name) = FlattenSeq(parts) /\ parts = [n \in 1 .. m |-> parts[n]]
  BY <1>1 DEF utf16le
<1> HIDE DEF parts, m
<1>5. Upto(parts, m) = utf16le(name)
  BY <1>4 DEF Upto
<1>6. InPlace(parts, m)
  BY <1>1, <1>3, Placed
<1>7. ASSUME NEW j \in 0 .. m
      PROVE  Len(Upto(parts, j)) = 2 * j
  <2> DEFINE T == {x \in 0 .. m : Len(Upto(parts, x)) # 2 * x}
  <2> SUFFICES ASSUME T # {}
               PROVE  FALSE
    OBVIOUS
  <2>1. T \in SUBSET Nat
    OBVIOUS
  <2>2. PICK x \in T : \A y \in T : x <= y
    BY <2>1, LeastOf
  <2>3. x \in 0 .. m /\ Len(Upto(parts, x)) # 2 * x
    BY <2>2
  <2>4. x # 0
    BY <1>6, <2>3 DEF InPlace
  <2>5. x - 1 \in 0 .. m - 1 /\ x - 1 \in 0 .. m /\ x - 1 < x /\ (x - 1) + 1 = x
    BY <1>1, <2>3, <2>4
  <2>6. Len(Upto(parts, x - 1)) = 2 * (x - 1)
    BY <2>2, <2>5
  <2>7. Len(Upto(parts, x)) = Len(Upto(parts, x - 1)) + Len(parts[x])
    BY <1>6, <2>5 DEF InPlace
  <2>8. Len(parts[x]) = 2
    BY <1>1, <1>3, <2>3, <2>4
  <2> QED
    BY <2>3, <2>5, <2>6, <2>7, <2>8
<1>8. Len(utf16le(name)) = 2 * m
  BY <1>1, <1>5, <1>7
<1>9. utf16le(name) \in Seq(Byte)
  BY WideBytes
<1> QED
  BY <1>8, <1>9 DEF m

\* A walk over b, wherever it stands in a stream, takes the modules listed and the
\* open one from the one pair to the other, and mentions nothing of the project.
Leads(b, mods, open, mods2, open2) ==
  \E w : /\ Walks(b, w) /\ \A j \in 1 .. Len(w) : w[j].id \notin ProjectIds
         /\ \A rs \in Seq(Numbered), a \in Nat :
              /\ a + Len(w) <= Len(rs)
              /\ \A j \in 1 .. Len(w) : Found(rs)[a + j] = w[j]
              /\ ModulesAre(rs, mods, open, a)
              => ModulesAre(rs, mods2, open2, a + Len(w))

\* Nothing changes nothing.
LEMMA LeadsNowhere ==
  ASSUME NEW mods, NEW open
  PROVE  Leads(<< >>, mods, open, mods, open)
<1>1. Walks(<< >>, << >>) /\ Len(<< >>) = 0
  BY WalksNothing
<1>2. \A j \in 1 .. Len(<< >>) : << >>[j].id \notin ProjectIds
  BY <1>1
<1>3. \A a \in Nat : a + Len(<< >>) = a
  BY <1>1
<1> QED
  BY <1>1, <1>2, <1>3 DEF Leads

\* One behind the other.
LEMMA LeadsOn ==
  ASSUME NEW b, NEW c, NEW m1, NEW o1, NEW m2, NEW o2, NEW m3, NEW o3,
         Leads(b, m1, o1, m2, o2), Leads(c, m2, o2, m3, o3)
  PROVE  Leads(b \o c, m1, o1, m3, o3)
<1>1. PICK v : /\ Walks(b, v) /\ \A j \in 1 .. Len(v) : v[j].id \notin ProjectIds
               /\ \A rs \in Seq(Numbered), a \in Nat :
                    /\ a + Len(v) <= Len(rs)
                    /\ \A j \in 1 .. Len(v) : Found(rs)[a + j] = v[j]
                    /\ ModulesAre(rs, m1, o1, a)
                    => ModulesAre(rs, m2, o2, a + Len(v))
  BY DEF Leads
<1>2. PICK w : /\ Walks(c, w) /\ \A j \in 1 .. Len(w) : w[j].id \notin ProjectIds
               /\ \A rs \in Seq(Numbered), a \in Nat :
                    /\ a + Len(w) <= Len(rs)
                    /\ \A j \in 1 .. Len(w) : Found(rs)[a + j] = w[j]
                    /\ ModulesAre(rs, m2, o2, a)
                    => ModulesAre(rs, m3, o3, a + Len(w))
  BY DEF Leads
<1> DEFINE x == v \o w
<1>3. Walks(b \o c, x)
  BY <1>1, <1>2, WalksBoth
<1>4. /\ Len(v) \in Nat /\ Len(w) \in Nat /\ Len(x) = Len(v) + Len(w)
      /\ \A j \in 1 .. Len(v) : x[j] = v[j]
      /\ \A j \in 1 .. Len(w) : x[Len(v) + j] = w[j]
  <2>1. v \in Seq(FoundRecord) /\ w \in Seq(FoundRecord)
    BY <1>1, <1>2 DEF Walks
  <2> QED
    BY <2>1, ConcatProperties, LenProperties
<1> HIDE DEF x
<1>5. \A j \in 1 .. Len(x) : j \in 1 .. Len(v) \/ \E l \in 1 .. Len(w) : j = Len(v) + l
  <2> SUFFICES ASSUME NEW j \in 1 .. Len(x), j \notin 1 .. Len(v)
               PROVE  \E l \in 1 .. Len(w) : j = Len(v) + l
    OBVIOUS
  <2>1. j - Len(v) \in 1 .. Len(w) /\ j = Len(v) + (j - Len(v))
    BY <1>4
  <2> QED
    BY <2>1
<1>6. \A j \in 1 .. Len(x) : x[j].id \notin ProjectIds
  BY <1>1, <1>2, <1>4, <1>5
<1>7. ASSUME NEW rs \in Seq(Numbered), NEW a \in Nat, a + Len(x) <= Len(rs),
             \A j \in 1 .. Len(x) : Found(rs)[a + j] = x[j], ModulesAre(rs, m1, o1, a)
      PROVE  ModulesAre(rs, m3, o3, a + Len(x))
  <2> DEFINE d == a + Len(v)
  <2>1. /\ Len(rs) \in Nat /\ d \in Nat /\ d <= Len(rs) /\ d + Len(w) <= Len(rs)
        /\ d + Len(w) = a + Len(x)
    BY <1>4, <1>7, LenProperties
  <2>2. \A j \in 1 .. Len(v) : Found(rs)[a + j] = v[j]
    <3>1. \A j \in 1 .. Len(v) : j \in 1 .. Len(x)
      BY <1>4
    <3> QED
      BY <1>4, <1>7, <3>1
  <2>3. \A j \in 1 .. Len(w) : Found(rs)[d + j] = w[j]
    <3>1. \A j \in 1 .. Len(w) : Len(v) + j \in 1 .. Len(x) /\ a + (Len(v) + j) = d + j
      BY <1>4
    <3> QED
      BY <1>4, <1>7, <3>1
  <2>4. ModulesAre(rs, m2, o2, d)
    BY <1>1, <1>7, <2>1, <2>2
  <2> HIDE DEF d
  <2>5. ModulesAre(rs, m3, o3, d + Len(w))
    BY <1>2, <2>1, <2>3, <2>4
  <2> QED
    BY <2>1, <2>5
<1> QED
  BY <1>3, <1>6, <1>7 DEF Leads

\* What one record leads to.
Turn(r, mods, open, mods2, open2) ==
  \/ r.id = ModuleName /\ mods2 = mods \o open /\ open2 = << EntryOf(r) >>
  \/ r.id # ModuleName /\ open = << >> /\ mods2 = mods /\ open2 = << >>
  \/ r.id # ModuleName /\ open # << >> /\ mods2 = mods /\ open2 = << EntryWith(open[1], r) >>

\* One record.
LEMMA LeadsOne ==
  ASSUME NEW b, NEW r \in FoundRecord, Walks(b, << r >>), r.id \notin ProjectIds,
         NEW m1, NEW o1, NEW m2, NEW o2, Turn(r, m1, o1, m2, o2)
  PROVE  Leads(b, m1, o1, m2, o2)
<1> DEFINE w == << r >>
<1>1. Len(w) = 1 /\ w[1] = r
  OBVIOUS
<1>2. \A j \in 1 .. Len(w) : w[j].id \notin ProjectIds
  BY <1>1
<1> HIDE DEF w
<1>3. ASSUME NEW rs \in Seq(Numbered), NEW a \in Nat, a + Len(w) <= Len(rs),
             \A j \in 1 .. Len(w) : Found(rs)[a + j] = w[j], ModulesAre(rs, m1, o1, a)
      PROVE  ModulesAre(rs, m2, o2, a + Len(w))
  <2>1. Len(rs) \in Nat /\ DOMAIN rs = 1 .. Len(rs)
    BY LenProperties
  <2>2. a + 1 \in 1 .. Len(rs)
    BY <1>1, <1>3, <2>1
  <2> DEFINE q == rs[a + 1]
  <2>3. [id |-> q.id, payload |-> q.payload] = r
    <3>1. Found(rs)[a + 1] = r
      BY <1>1, <1>3
    <3> QED
      BY <2>1, <2>2, <3>1 DEF Found
  <2>4. q.id = r.id /\ q.payload = r.payload
    BY <2>3
  <2>5. EntryOf(q) = EntryOf(r) /\ EntryWith(o1[1], q) = EntryWith(o1[1], r)
    BY <2>4 DEF EntryOf, EntryWith
  <2>6. /\ q.id = ModuleName => ModulesAre(rs, m1 \o o1, << EntryOf(q) >>, a + 1)
        /\ q.id # ModuleName /\ o1 = << >> => ModulesAre(rs, m1, o1, a + 1)
        /\ q.id # ModuleName /\ o1 # << >> =>
             ModulesAre(rs, m1, << EntryWith(o1[1], q) >>, a + 1)
    BY <1>3, <2>2, ModulesMore
  <2> HIDE DEF q
  <2>7. ModulesAre(rs, m2, o2, a + 1)
    BY <2>4, <2>5, <2>6 DEF Turn
  <2> QED
    BY <1>1, <2>7
<1>4. Walks(b, w)
  BY DEF w
<1> QED
  BY <1>2, <1>3, <1>4 DEF Leads

\* An entry, field by field.
EntryIs(name, stream, offset, type) ==
  [Name |-> name, StreamName |-> stream, Offset |-> offset, TypeID |-> type]

\* The ids of a module's fields that the parser reads, as they are built.
LEMMA FieldIds ==
  /\ \A id \in {ModuleName, StreamNameId, ModuleOffset, ProcModule, OtherModule, ProjectModules} :
       id \in 0 .. Base * Base - 1 /\ id # Version /\ id \notin ProjectIds /\ id \in Nat
  /\ ModuleName # StreamNameId /\ ModuleName # ModuleOffset /\ StreamNameId # ModuleOffset
  /\ \A id \in {ModuleName, StreamNameId, ModuleOffset, ProjectModules} :
       id # ProcModule /\ id # OtherModule
  /\ ProjectModules # ModuleName /\ ProjectModules # StreamNameId
  /\ ProjectModules # ModuleOffset
BY SmallFits DEF ModuleName, StreamNameId, ModuleOffset, ProcModule, OtherModule, Version,
                 ProjectModules, ProjectIds, SysKind, LCID, CodePageId, ReferenceName

\* An id that the parser does not know says nothing.
LEMMA UnknownIds ==
  ASSUME NEW id, id \notin Known
  PROVE  /\ id \notin ProjectIds /\ id # ModuleName /\ id # StreamNameId /\ id # ModuleOffset
         /\ id # ProcModule /\ id # OtherModule /\ id # ProjectModules
BY DEF Known, Fields, ProjectIds

\* A record that is passed over.
LEMMA LeadsPast ==
  ASSUME NEW id \in Others, NEW payload \in Seq(Byte), Len(payload) < Base * Base * Base * Base,
         NEW mods, NEW n, NEW s, NEW f, NEW t, NEW open,
         open \in {<< >>, << EntryIs(n, s, f, t) >>}
  PROVE  Leads(sizedRecord(id, payload), mods, open, mods, open)
<1>1. PICK r \in FoundRecord : Walks(sizedRecord(id, payload), << r >>) /\ r.id \notin Known
  BY WalksOther
<1>2. /\ r.id \notin ProjectIds /\ r.id # ModuleName /\ r.id # StreamNameId
      /\ r.id # ModuleOffset /\ r.id # ProcModule /\ r.id # OtherModule
  BY <1>1, UnknownIds
<1>3. EntryWith(EntryIs(n, s, f, t), r) = EntryIs(n, s, f, t)
  BY <1>2 DEF EntryWith, EntryIs
<1> DEFINE e == EntryIs(n, s, f, t)
<1>4. open = << >> \/ (open = << e >> /\ open # << >> /\ open[1] = e)
  OBVIOUS
<1> HIDE DEF e
<1>5. EntryWith(e, r) = e
  BY <1>3 DEF e
<1>6. Turn(r, mods, open, mods, open)
  BY <1>2, <1>4, <1>5 DEF Turn
<1> QED
  BY <1>1, <1>2, <1>6, LeadsOne

\* The record that opens a module.
LEMMA LeadsOpen ==
  ASSUME NEW name \in Seq(Byte), Len(name) < Base * Base * Base * Base, NEW mods, NEW open
  PROVE  Leads(sizedRecord(ModuleName, name), mods, open,
               mods \o open, << EntryIs(name, << >>, 0, 0) >>)
<1> DEFINE r == [id |-> ModuleName, payload |-> name]
<1>1. Walks(sizedRecord(ModuleName, name), << r >>) /\ ModuleName \notin ProjectIds
  BY FieldIds, WalksOne
<1>2. r \in FoundRecord
  BY FieldIds DEF FoundRecord
<1>3. EntryOf(r) = EntryIs(name, << >>, 0, 0) /\ r.id = ModuleName
  BY DEF EntryOf, EntryIs
<1> HIDE DEF r
<1>4. Turn(r, mods, open, mods \o open, << EntryIs(name, << >>, 0, 0) >>)
  BY <1>3 DEF Turn
<1> QED
  BY <1>1, <1>2, <1>3, <1>4, LeadsOne

\* A record with a field of the open module.
LEMMA LeadsField ==
  ASSUME NEW id \in {StreamNameId, ModuleOffset, ProcModule, OtherModule},
         NEW payload \in Seq(Byte), Len(payload) < Base * Base * Base * Base,
         NEW mods, NEW n, NEW s, NEW f, NEW t
  PROVE  Leads(sizedRecord(id, payload), mods, << EntryIs(n, s, f, t) >>, mods,
               << EntryIs(n, IF id = StreamNameId THEN payload ELSE s,
                          IF id = ModuleOffset THEN le32(payload) ELSE f,
                          IF id \in {ProcModule, OtherModule} THEN id ELSE t) >>)
<1> DEFINE r == [id |-> id, payload |-> payload]
           e == EntryIs(n, s, f, t)
           e2 == EntryIs(n, IF id = StreamNameId THEN payload ELSE s,
                         IF id = ModuleOffset THEN le32(payload) ELSE f,
                         IF id \in {ProcModule, OtherModule} THEN id ELSE t)
<1>1. id \in 0 .. Base * Base - 1 /\ id # Version /\ id \notin ProjectIds /\ id \in Nat
      /\ id # ModuleName
  BY FieldIds
<1>2. Walks(sizedRecord(id, payload), << r >>)
  BY <1>1, WalksOne
<1>3. r \in FoundRecord /\ r.id = id /\ r.payload = payload
  BY <1>1 DEF FoundRecord
<1>4. EntryWith(e, r) = e2
  BY DEF EntryWith, EntryIs
<1> HIDE DEF r, e, e2
<1>5. << e >> # << >> /\ << e >>[1] = e
  OBVIOUS
<1>6. Turn(r, mods, << e >>, mods, << e2 >>)
  BY <1>1, <1>3, <1>4, <1>5 DEF Turn
<1>7. Leads(sizedRecord(id, payload), mods, << e >>, mods, << e2 >>)
  BY <1>1, <1>2, <1>3, <1>6, LeadsOne
<1> QED
  BY <1>7 DEF e, e2

\* A module as it is saved is the entry that its records lead to.
LEMMA SavedIs ==
  ASSUME NEW dm
  PROVE  LET m == ModuleSpec(dm)
         IN  Saved(dm) = EntryIs(m.Name, m.StreamName, 0, m.TypeID)
BY DEF Saved, EntryIs

\* The sizes of the names of a module, in UTF-16 too, fit in their fields.
SizesFit(dm) ==
  /\ 2 * Len(dm.Name) < Base * Base * Base * Base
  /\ 2 * Len(dm.StreamName) < Base * Base * Base * Base

\* The records that Write makes of a module lead to the module as it is saved.
LEMMA LeadsModule ==
  ASSUME NEW dm \in DirEntry, SizesFit(dm), NEW mods, NEW open
  PROVE  Leads(modRecord(ModuleSpec(dm)), mods, open, mods \o open, << Saved(dm) >>)
<1> DEFINE m == ModuleSpec(dm)
           n == m.Name
           s == m.StreamName
           t == m.TypeID
           top == Base * Base * Base * Base
           new == mods \o open
           e1 == EntryIs(n, << >>, 0, 0)
           e2 == EntryIs(n, s, 0, 0)
           e3 == EntryIs(n, s, 0, t)
<1>1. /\ dm.Name \in Seq(Byte) /\ dm.StreamName \in Seq(Byte)
  BY DEF DirEntry
<1>2. /\ n \in Seq(Byte) /\ s \in Seq(Byte) /\ t \in {ProcModule, OtherModule}
      /\ n = dm.Name /\ (s = dm.Name \/ s = dm.StreamName)
  BY <1>1 DEF ModuleSpec, StreamOf
<1>3. top \in Nat /\ top > 4
  BY SmallFits
<1>4. 2 * Len(n) < top /\ 2 * Len(s) < top
  BY <1>2 DEF SizesFit
<1>5. Saved(dm) = e3
  BY SavedIs
<1> DEFINE b1 == sizedRecord(ModuleName, n)
           b2 == sizedRecord(ModuleNameUnicode, utf16le(n))
           b3 == sizedRecord(StreamNameId, s)
           b4 == sizedRecord(StreamNameUnicode, utf16le(s))
           b5 == sizedRecord(DocString, << >>)
           b6 == sizedRecord(DocStringUnicode, << >>)
           b7 == sizedRecord(ModuleOffset, LE(0, 4))
           b8 == sizedRecord(HelpContext, LE(0, 4))
           b9 == sizedRecord(ModuleCookie, LE(Base * Base - 1, 2))
           b10 == sizedRecord(t, << >>)
           b11 == sizedRecord(ModuleEnd, << >>)
<1>6. modRecord(m) = b1 \o b2 \o b3 \o b4 \o b5 \o b6 \o b7 \o b8 \o b9 \o b10 \o b11
  BY DEF modRecord, recU32, recU16
<1> HIDE DEF m, n, s, t, top
<1>7. Len(n) \in Nat /\ Len(s) \in Nat /\ Len(n) < top /\ Len(s) < top
  BY <1>2, <1>3, <1>4, LenProperties
<1>8. /\ utf16le(n) \in Seq(Byte) /\ Len(utf16le(n)) < top
      /\ utf16le(s) \in Seq(Byte) /\ Len(utf16le(s)) < top
  BY <1>2, <1>4, WideLength
<1>9. << >> \in Seq(Byte) /\ Len(<< >>) < top
  BY <1>3
<1>10. LE(0, 4) \in Seq(Byte) /\ Len(LE(0, 4)) < top /\ le32(LE(0, 4)) = 0
  <2>1. 0 < Base * Base * Base * Base
    BY SmallFits
  <2>2. LE(0, 4) \in Seq(Byte) /\ Len(LE(0, 4)) = 4 /\ le32(LE(0, 4)) = 0
    BY <2>1, FourBack
  <2> QED
    BY <1>3, <2>2
<1>11. LE(Base * Base - 1, 2) \in Seq(Byte) /\ Len(LE(Base * Base - 1, 2)) < top
  <2>1. Base * Base - 1 \in Nat
    BY SmallFits
  <2>2. LE(Base * Base - 1, 2) \in Seq(Byte) /\ Len(LE(Base * Base - 1, 2)) = 2
    BY <2>1, NumberIs
  <2> QED
    BY <1>3, <2>2
<1>12. /\ ModuleNameUnicode \in Others /\ StreamNameUnicode \in Others /\ DocString \in Others
       /\ DocStringUnicode \in Others /\ HelpContext \in Others /\ ModuleCookie \in Others
       /\ ModuleEnd \in Others
  BY DEF Others
<1>13. /\ << e1 >> \in {<< >>, << e1 >>} /\ << e2 >> \in {<< >>, << e2 >>}
       /\ << e3 >> \in {<< >>, << e3 >>}
  OBVIOUS
<1>14. Leads(b1, mods, open, new, << e1 >>)
  BY <1>2, <1>7, LeadsOpen DEF top
<1>15. Leads(b2, new, << e1 >>, new, << e1 >>)
  BY <1>8, <1>12, <1>13, LeadsPast DEF top
<1>16. Leads(b3, new, << e1 >>, new, << e2 >>)
  <2>1. /\ StreamNameId \in {StreamNameId, ModuleOffset, ProcModule, OtherModule}
        /\ StreamNameId # ModuleOffset /\ StreamNameId \notin {ProcModule, OtherModule}
    BY FieldIds
  <2>2. Leads(sizedRecord(StreamNameId, s), new, << EntryIs(n, << >>, 0, 0) >>, new,
              << EntryIs(n, IF StreamNameId = StreamNameId THEN s ELSE << >>,
                         IF StreamNameId = ModuleOffset THEN le32(s) ELSE 0,
                         IF StreamNameId \in {ProcModule, OtherModule}
                           THEN StreamNameId ELSE 0) >>)
    BY <1>2, <1>7, <2>1, LeadsField DEF top
  <2> QED
    BY <2>1, <2>2
<1>17. Leads(b4, new, << e2 >>, new, << e2 >>)
  BY <1>8, <1>12, <1>13, LeadsPast DEF top
<1>18. Leads(b5, new, << e2 >>, new, << e2 >>) /\ Leads(b6, new, << e2 >>, new, << e2 >>)
  BY <1>9, <1>12, <1>13, LeadsPast DEF top
<1>19. Leads(b7, new, << e2 >>, new, << e2 >>)
  <2>1. /\ ModuleOffset \in {StreamNameId, ModuleOffset, ProcModule, OtherModule}
        /\ StreamNameId # ModuleOffset /\ ModuleOffset \notin {ProcModule, OtherModule}
    BY FieldIds
  <2>2. Leads(sizedRecord(ModuleOffset, LE(0, 4)), new, << EntryIs(n, s, 0, 0) >>, new,
              << EntryIs(n, IF ModuleOffset = StreamNameId THEN LE(0, 4) ELSE s,
                         IF ModuleOffset = ModuleOffset THEN le32(LE(0, 4)) ELSE 0,
                         IF ModuleOffset \in {ProcModule, OtherModule}
                           THEN ModuleOffset ELSE 0) >>)
    BY <1>10, <2>1, LeadsField DEF top
  <2> QED
    BY <1>10, <2>1, <2>2
<1>20. Leads(b8, new, << e2 >>, new, << e2 >>)
  BY <1>10, <1>12, <1>13, LeadsPast DEF top
<1>21. Leads(b9, new, << e2 >>, new, << e2 >>)
  BY <1>11, <1>12, <1>13, LeadsPast DEF top
<1>22. Leads(b10, new, << e2 >>, new, << e3 >>)
  <2>1. /\ t \in {StreamNameId, ModuleOffset, ProcModule, OtherModule}
        /\ t # ModuleOffset /\ t # StreamNameId /\ t \in {ProcModule, OtherModule}
    BY <1>2, FieldIds
  <2>2. Leads(sizedRecord(t, << >>), new, << EntryIs(n, s, 0, 0) >>, new,
              << EntryIs(n, IF t = StreamNameId THEN << >> ELSE s,
                         IF t = ModuleOffset THEN le32(<< >>) ELSE 0,
                         IF t \in {ProcModule, OtherModule} THEN t ELSE 0) >>)
    BY <1>9, <2>1, LeadsField DEF top
  <2> QED
    BY <2>1, <2>2
<1>23. Leads(b11, new, << e3 >>, new, << e3 >>)
  BY <1>9, <1>12, <1>13, LeadsPast DEF top
<1> HIDE DEF b1, b2, b3, b4, b5, b6, b7, b8, b9, b10, b11, e1, e2, e3, new
<1> DEFINE c2 == b1 \o b2
           c4 == c2 \o b3 \o b4
           c6 == c4 \o b5 \o b6
           c8 == c6 \o b7 \o b8
           c10 == c8 \o b9 \o b10
<1>24. Leads(c2, mods, open, new, << e1 >>)
  BY <1>14, <1>15, LeadsOn
<1> HIDE DEF c2
<1>25. Leads(c4, mods, open, new, << e2 >>)
  <2>1. Leads(c2 \o b3, mods, open, new, << e2 >>)
    BY <1>16, <1>24, LeadsOn
  <2> QED
    BY <1>17, <2>1, LeadsOn
<1> HIDE DEF c4
<1>26. Leads(c6, mods, open, new, << e2 >>)
  <2>1. Leads(c4 \o b5, mods, open, new, << e2 >>)
    BY <1>18, <1>25, LeadsOn
  <2> QED
    BY <1>18, <2>1, LeadsOn
<1> HIDE DEF c6
<1>27. Leads(c8, mods, open, new, << e2 >>)
  <2>1. Leads(c6 \o b7, mods, open, new, << e2 >>)
    BY <1>19, <1>26, LeadsOn
  <2> QED
    BY <1>20, <2>1, LeadsOn
<1> HIDE DEF c8
<1>28. Leads(c10, mods, open, new, << e3 >>)
  <2>1. Leads(c8 \o b9, mods, open, new, << e2 >>)
    BY <1>21, <1>27, LeadsOn
  <2> QED
    BY <1>22, <2>1, LeadsOn
<1> HIDE DEF c10
<1>29. Leads(c10 \o b11, mods, open, new, << e3 >>)
  BY <1>23, <1>28, LeadsOn
<1>30. modRecord(m) = c10 \o b11
  BY <1>6 DEF c10, c8, c6, c4, c2
<1>31. Leads(modRecord(m), mods, open, new, << Saved(dm) >>)
  BY <1>5, <1>29, <1>30
<1> QED
  BY <1>31 DEF m, new

\* The walk over b is clean and begins with PROJECTMODULES.
Opens(b) ==
  /\ Len(b) >= 6 /\ IdAt(b, 0) = ProjectModules
  /\ \E v : Walks(b, v) /\ Len(v) \in Nat /\ Len(v) >= 1 /\ v[1].id = ProjectModules

\* It does so with whatever is walked behind.
LEMMA OpensOn ==
  ASSUME NEW b, NEW c, Opens(b), NEW w, Walks(c, w)
  PROVE  Opens(b \o c)
<1>1. PICK v : Walks(b, v) /\ Len(v) \in Nat /\ Len(v) >= 1 /\ v[1].id = ProjectModules
  BY DEF Opens
<1>2. Walks(b \o c, v \o w)
  BY <1>1, WalksBoth
<1>3. v \in Seq(FoundRecord) /\ w \in Seq(FoundRecord)
  BY <1>1 DEF Walks
<1>4. Len(w) \in Nat /\ Len(v \o w) = Len(v) + Len(w) /\ (v \o w)[1] = v[1]
  BY <1>1, <1>3, ConcatProperties, LenProperties
<1>5. Len(v \o w) \in Nat /\ Len(v \o w) >= 1
  BY <1>1, <1>4
<1>6. Len(b \o c) >= 6 /\ IdAt(b \o c, 0) = ProjectModules
  <2>1. b \in Seq(Byte) /\ c \in Seq(Byte) /\ Len(b) >= 6 /\ IdAt(b, 0) = ProjectModules
    BY <1>1 DEF Walks, Opens
  <2>2. Len(c) \in Nat /\ Len(b) \in Nat /\ Len(b \o c) = Len(b) + Len(c) /\ Holds(b \o c, 0, b)
    BY <2>1, HoldsBoth
  <2>3. IdAt(b \o c, 0 + 0) = IdAt(b, 0)
    BY <2>1, <2>2, SameHeader
  <2> QED
    BY <2>1, <2>2, <2>3
<1> QED
  BY <1>1, <1>2, <1>4, <1>5, <1>6 DEF Opens

\* The record with the number of modules.
LEMMA LeadsCount ==
  ASSUME NEW n \in Nat
  PROVE  /\ Leads(recU16(ProjectModules, n), << >>, << >>, << >>, << >>)
         /\ Opens(recU16(ProjectModules, n))
<1> DEFINE p == LE(n, 2)
           r == [id |-> ProjectModules, payload |-> p]
           b == sizedRecord(ProjectModules, p)
<1>1. p \in Seq(Byte) /\ Len(p) < Base * Base * Base * Base
  <2>1. p \in Seq(Byte) /\ Len(p) = 2
    BY NumberIs
  <2> DEFINE top == Base * Base * Base * Base
  <2>2. top \in Nat /\ top > 4
    BY SmallFits
  <2> HIDE DEF p, top
  <2>3. Len(p) < top
    BY <2>1, <2>2
  <2> QED
    BY <2>1, <2>3 DEF top
<1> HIDE DEF p
<1>2. /\ ProjectModules \in 0 .. Base * Base - 1 /\ ProjectModules # Version
      /\ ProjectModules \notin ProjectIds /\ ProjectModules \in Nat
      /\ ProjectModules # ModuleName
  BY FieldIds
<1>3. Walks(b, << r >>)
  BY <1>1, <1>2, WalksOne
<1>9. Len(b) >= 6 /\ IdAt(b, 0) = ProjectModules
  <2>1. Len(b) = 6 + Len(p) /\ Len(p) \in Nat /\ le16(Slice(b, 0, 2)) = ProjectModules
    BY <1>1, <1>2, SizedBytes
  <2> HIDE DEF b
  <2> QED
    BY <2>1 DEF IdAt
<1>4. r \in FoundRecord /\ r.id = ProjectModules
  BY <1>1, <1>2 DEF FoundRecord
<1> HIDE DEF r, b
<1>5. Turn(r, << >>, << >>, << >>, << >>)
  BY <1>2, <1>4 DEF Turn
<1>6. Leads(b, << >>, << >>, << >>, << >>)
  BY <1>2, <1>3, <1>4, <1>5, LeadsOne
<1>7. Len(<< r >>) = 1 /\ << r >>[1] = r
  OBVIOUS
<1>8. Opens(b)
  BY <1>3, <1>4, <1>7, <1>9 DEF Opens
<1> QED
  BY <1>6, <1>8 DEF recU16, b, p

\* What leads somewhere is walked.
LEMMA LeadsWalks ==
  ASSUME NEW b, NEW m1, NEW o1, NEW m2, NEW o2, Leads(b, m1, o1, m2, o2)
  PROVE  \E w : Walks(b, w)
BY DEF Leads

\* The first c modules as they are saved.
SavedUpto(mods, c) == [j \in 1 .. c |-> Saved(mods[j])]

\* All that BuildProjectModules makes leads to the modules as they are saved.
LEMMA LeadsBuilt ==
  ASSUME NEW dms \in Seq(DirEntry), \A j \in 1 .. Len(dms) : SizesFit(dms[j])
  PROVE  LET b == BuildProjectModules([j \in DOMAIN dms |-> ModuleSpec(dms[j])])
         IN  /\ Opens(b)
             /\ \E mods, open : /\ Leads(b, << >>, << >>, mods, open)
                                /\ mods \o open = SavedUpto(dms, Len(dms))
<1> DEFINE n == Len(dms)
           specs == [j \in DOMAIN dms |-> ModuleSpec(dms[j])]
           parts == [j \in 1 .. n |-> modRecord(specs[j])]
           One(open) == open = << >> \/ \E a, s, f, t : open = << EntryIs(a, s, f, t) >>
           Good(c) == \E mods, open : /\ Leads(Upto(parts, c), << >>, << >>, mods, open)
                                      /\ mods \o open = SavedUpto(dms, c) /\ One(open)
<1>1. /\ n \in Nat /\ DOMAIN dms = 1 .. n /\ \A j \in 1 .. n : dms[j] \in DirEntry
  BY LenProperties, ElementOfSeq
<1>2. DOMAIN specs = 1 .. n /\ Len(specs) = n /\ \A j \in 1 .. n : specs[j] = ModuleSpec(dms[j])
  BY <1>1
<1>3. \A j \in 1 .. n : parts[j] = modRecord(ModuleSpec(dms[j]))
  BY <1>2
<1>4. FlattenSeq([j \in DOMAIN specs |-> modRecord(specs[j])]) = Upto(parts, n)
  <2>1. [j \in DOMAIN specs |-> modRecord(specs[j])] = [j \in 1 .. n |-> parts[j]]
    BY <1>2
  <2> QED
    BY <2>1 DEF Upto
<1> HIDE DEF n, specs, parts
<1>5. \A j \in 1 .. n : parts[j] \in Seq(Byte)
  BY <1>1, <1>3, ModuleBytes
<1>6. /\ Upto(parts, 0) = << >>
      /\ \A c \in 0 .. n - 1 : Upto(parts, c + 1) = Upto(parts, c) \o parts[c + 1]
  BY <1>1, <1>5, Grows
<1>7. Good(0)
  <2>1. Leads(<< >>, << >>, << >>, << >>, << >>)
    BY LeadsNowhere
  <2>2. << >> \o << >> = SavedUpto(dms, 0)
    BY DEF SavedUpto
  <2>3. One(<< >>)
    OBVIOUS
  <2> HIDE DEF One
  <2> QED
    BY <1>6, <2>1, <2>2, <2>3
<1>8. ASSUME NEW c \in 0 .. n - 1, Good(c)
      PROVE  Good(c + 1)
  <2>1. PICK mods, open : /\ Leads(Upto(parts, c), << >>, << >>, mods, open)
                          /\ mods \o open = SavedUpto(dms, c) /\ One(open)
    BY <1>8
  <2>2. c + 1 \in 1 .. n
    BY <1>1
  <2>3. Leads(parts[c + 1], mods, open, mods \o open, << Saved(dms[c + 1]) >>)
    <3>1. dms[c + 1] \in DirEntry /\ SizesFit(dms[c + 1])
      BY <1>1, <2>2 DEF n
    <3> QED
      BY <1>3, <2>2, <3>1, LeadsModule
  <2>4. Leads(Upto(parts, c + 1), << >>, << >>, mods \o open, << Saved(dms[c + 1]) >>)
    BY <1>6, <2>1, <2>3, LeadsOn
  <2>5. SavedUpto(dms, c) \o << Saved(dms[c + 1]) >> = SavedUpto(dms, c + 1)
    <3> DEFINE v(j) == Saved(dms[j])
    <3>1. [j \in 1 .. c |-> v(j)] \o << v(c + 1) >> = [j \in 1 .. c + 1 |-> v(j)]
      <4> HIDE DEF v
      <4> QED
        BY <1>1
    <3> QED
      BY <3>1 DEF SavedUpto
  <2>6. One(<< Saved(dms[c + 1]) >>)
    BY SavedIs
  <2> HIDE DEF One
  <2> QED
    BY <2>1, <2>4, <2>5, <2>6
<1>9. \A c \in 0 .. n : Good(c)
  <2> DEFINE T == {c \in 0 .. n : ~Good(c)}
  <2> HIDE DEF Good
  <2> SUFFICES ASSUME T # {}
               PROVE  FALSE
    OBVIOUS
  <2>1. T \in SUBSET Nat
    OBVIOUS
  <2>2. PICK x \in T : \A y \in T : x <= y
    BY <2>1, LeastOf
  <2>3. x \in 0 .. n /\ ~Good(x) /\ x # 0
    BY <1>7, <2>2
  <2>4. x - 1 \in 0 .. n - 1 /\ x - 1 \in 0 .. n /\ x - 1 < x /\ (x - 1) + 1 = x
    BY <1>1, <2>3
  <2>5. Good(x - 1)
    BY <2>2, <2>4
  <2> QED
    BY <1>8, <2>3, <2>4, <2>5
<1>10. PICK mods, open : /\ Leads(Upto(parts, n), << >>, << >>, mods, open)
                         /\ mods \o open = SavedUpto(dms, n) /\ One(open)
  <2>1. Good(n)
    BY <1>1, <1>9
  <2> HIDE DEF One
  <2> QED
    BY <2>1
<1> HIDE DEF Good
<1> DEFINE b1 == recU16(ProjectModules, n)
           b2 == recU16(ProjectCookie, Base * Base - 1)
           b3 == Upto(parts, n)
           b4 == sizedRecord(Terminator, << >>)
<1>11. BuildProjectModules(specs) = b1 \o b2 \o b3 \o b4
  BY <1>2, <1>4 DEF BuildProjectModules
<1>12. Leads(b1, << >>, << >>, << >>, << >>) /\ Opens(b1)
  BY <1>1, LeadsCount
<1>13. Leads(b2, << >>, << >>, << >>, << >>)
  <2> DEFINE p == LE(Base * Base - 1, 2)
  <2>1. Base * Base - 1 \in Nat
    BY SmallFits
  <2>2. p \in Seq(Byte) /\ Len(p) < Base * Base * Base * Base
    <3>1. p \in Seq(Byte) /\ Len(p) = 2
      BY <2>1, NumberIs
    <3> DEFINE top == Base * Base * Base * Base
    <3>2. top \in Nat /\ top > 4
      BY SmallFits
    <3> HIDE DEF p, top
    <3>3. Len(p) < top
      BY <3>1, <3>2
    <3> QED
      BY <3>1, <3>3 DEF top
  <2> HIDE DEF p
  <2>3. ProjectCookie \in Others /\ << >> \in {<< >>, << EntryIs(0, 0, 0, 0) >>}
    BY DEF Others
  <2>4. Leads(sizedRecord(ProjectCookie, p), << >>, << >>, << >>, << >>)
    BY <2>2, <2>3, LeadsPast
  <2> QED
    BY <2>4 DEF recU16, p
<1>14. Leads(b4, mods, open, mods, open)
  <2>1. Terminator \in Others /\ << >> \in Seq(Byte) /\ Len(<< >>) < Base * Base * Base * Base
    BY SmallFits DEF Others
  <2>2. CASE open = << >>
    <3>1. << >> \in {<< >>, << EntryIs(0, 0, 0, 0) >>}
      OBVIOUS
    <3> QED
      BY <2>1, <2>2, <3>1, LeadsPast
  <2>3. CASE open # << >>
    <3>1. PICK a, s, f, t : open = << EntryIs(a, s, f, t) >>
      BY <1>10, <2>3
    <3>2. open \in {<< >>, << EntryIs(a, s, f, t) >>}
      BY <3>1
    <3> QED
      BY <2>1, <3>2, LeadsPast
  <2> QED
    BY <2>2, <2>3
<1> HIDE DEF b1, b2, b3, b4, One
<1>15. Leads(b3, << >>, << >>, mods, open) /\ mods \o open = SavedUpto(dms, n)
  BY <1>10 DEF b3
<1> DEFINE c2 == b1 \o b2
           c3 == c2 \o b3
<1>16. Leads(c2, << >>, << >>, << >>, << >>) /\ Opens(c2)
  <2>1. \E w : Walks(b2, w)
    BY <1>13, LeadsWalks
  <2> QED
    BY <1>12, <1>13, <2>1, LeadsOn, OpensOn
<1> HIDE DEF c2
<1>17. Leads(c3, << >>, << >>, mods, open) /\ Opens(c3)
  <2>1. \E w : Walks(b3, w)
    BY <1>15, LeadsWalks
  <2> QED
    BY <1>15, <1>16, <2>1, LeadsOn, OpensOn
<1> HIDE DEF c3
<1>18. Leads(c3 \o b4, << >>, << >>, mods, open) /\ Opens(c3 \o b4)
  <2>1. \E w : Walks(b4, w)
    BY <1>14, LeadsWalks
  <2> QED
    BY <1>14, <1>17, <2>1, LeadsOn, OpensOn
<1>19. BuildProjectModules(specs) = c3 \o b4
  BY <1>11 DEF c3, c2
<1>20. /\ Opens(BuildProjectModules(specs))
       /\ Leads(BuildProjectModules(specs), << >>, << >>, mods, open)
  BY <1>18, <1>19
<1> QED
  BY <1>15, <1>20 DEF specs, n

-----------------------------------------------------------------------------
(***************************************************************************)
(* Where the records of a stream stand.                                    *)
(***************************************************************************)

\* A record stands at p, and the walk gets there with n records.
PlaceAt(b, p, n) ==
  /\ p \in Nat /\ p + 6 <= Len(b) /\ IdAt(b, p) # Version
  /\ Clean(Slice(b, 0, p)) /\ Len(Walk(Slice(b, 0, p))) = n

\* Between two such places there is a record.
LEMMA NotBefore ==
  ASSUME NEW b \in Seq(Byte), NEW p, NEW q, NEW n, PlaceAt(b, p, n), PlaceAt(b, q, n)
  PROVE  ~(p < q)
<1> SUFFICES ASSUME p < q
             PROVE  FALSE
  OBVIOUS
<1>1. /\ p \in Nat /\ q \in Nat /\ q + 6 <= Len(b) /\ IdAt(b, p) # Version /\ Len(b) \in Nat
      /\ Clean(Slice(b, 0, p)) /\ Clean(Slice(b, 0, q))
      /\ Len(Walk(Slice(b, 0, p))) = Len(Walk(Slice(b, 0, q)))
  BY LenProperties DEF PlaceAt
<1> DEFINE a == Slice(b, 0, p)
           c == Slice(b, p, q)
<1>2. /\ a \in Seq(Byte) /\ c \in Seq(Byte) /\ Len(c) = q - p
      /\ \A x \in 1 .. q - p : c[x] = b[p + x]
  <2>1. p \in 0 .. Len(b) /\ q \in p .. Len(b) /\ 0 \in Nat
    BY <1>1
  <2> QED
    BY <1>1, <2>1, SliceIs
<1>3. Slice(b, 0, q) = a \o c
  <2>1. 0 + 1 \in 1 .. Len(b) + 1 /\ p \in (0 + 1) - 1 .. Len(b) /\ q \in p .. Len(b)
    BY <1>1
  <2>2. SubSeq(b, 0 + 1, p) \o SubSeq(b, p + 1, q) = SubSeq(b, 0 + 1, q)
    BY <2>1, ConcatAdjacentSubSeq
  <2> QED
    BY <2>2 DEF Slice
<1> HIDE DEF a, c
<1>4. Clean(a) /\ Clean(a \o c)
  BY <1>1, <1>3 DEF a
<1>5. Clean(c) /\ Walk(a \o c) = Walk(a) \o Walk(c)
  BY <1>2, <1>4, CleanRest, WalkConcat
<1>6. Walk(a) \in Seq(FoundRecord) /\ Walk(c) \in Seq(FoundRecord)
  <2>1. \A s \in Seq(Byte) : Walk(s) \in Seq(FoundRecord)
    <3> SUFFICES ASSUME NEW s \in Seq(Byte)
                 PROVE  Walk(s) \in Seq(FoundRecord)
      OBVIOUS
    <3>1. PICK g : IsWalk(s, g, 0) /\ Walk(s) = g[0]
      BY WalkIs
    <3>2. 0 \in 0 .. Len(s) + 6
      BY LenProperties
    <3> QED
      BY <3>1, <3>2 DEF IsWalk
  <2> QED
    BY <1>2, <2>1
<1>7. Len(Walk(c)) = 0
  <2>1. Len(Walk(a \o c)) = Len(Walk(a)) + Len(Walk(c))
    BY <1>5, <1>6, ConcatProperties
  <2>2. Len(Walk(a)) \in Nat /\ Len(Walk(c)) \in Nat
    BY <1>6, LenProperties
  <2>3. Len(Walk(a \o c)) = Len(Walk(a))
    BY <1>1, <1>3 DEF a
  <2> QED
    BY <2>1, <2>2, <2>3
<1>8. PICK P : IsPath(c, P)
  BY <1>5 DEF Clean
<1>9. 0 + 6 <= Len(c) /\ NextAt(c, 0) \in 0 .. Len(c) /\ Len(c) \in Nat
  <2>1. 0 # Len(c) /\ Len(c) \in Nat
    BY <1>1, <1>2
  <2> QED
    BY <1>8, <2>1 DEF IsPath
<1>10. Holds(b, p, c)
  BY <1>1, <1>2, <1>9 DEF Holds
<1>11. IdAt(b, p + 0) = IdAt(c, 0) /\ p + 0 = p
  BY <1>1, <1>9, <1>10, SameHeader
<1>12. IdAt(c, 0) # Version
  BY <1>1, <1>11
<1>13. EndAt(c, 0) <= Len(c) /\ EndAt(c, 0) \in 0 .. Len(c) + 6
  <2>1. NextAt(c, 0) = EndAt(c, 0)
    BY <1>12 DEF NextAt
  <2> QED
    BY <1>9, <2>1
<1>14. PICK g : IsWalk(c, g, 0) /\ Walk(c) = g[0]
  BY <1>2, WalkIs
<1>15. /\ g[0] = WalkAt(c, g, 0) /\ g[EndAt(c, 0)] \in Seq(FoundRecord)
       /\ g[0] \in Seq(FoundRecord)
  BY <1>9, <1>13, <1>14 DEF IsWalk
<1> DEFINE r == [id |-> IdAt(c, 0), payload |-> Slice(c, 0 + 6, EndAt(c, 0))]
           t == g[EndAt(c, 0)]
<1>16. g[0] = << r >> \o t
  <2>1. ~(0 + 6 > Len(c))
    BY <1>9
  <2> QED
    BY <1>12, <1>13, <1>15, <2>1 DEF WalkAt
<1>17. r \in FoundRecord
  <2>1. EndAt(c, 0) <= Len(c) =>
          [id |-> IdAt(c, 0), payload |-> Slice(c, 0 + 6, EndAt(c, 0))] \in FoundRecord
    BY <1>2, <1>9, HeaderAt
  <2> QED
    BY <1>13, <2>1
<1> HIDE DEF r, t
<1>18. Len(<< r >> \o t) = 1 + Len(t) /\ Len(t) \in Nat
  <2>1. << r >> \in Seq(FoundRecord) /\ Len(<< r >>) = 1 /\ t \in Seq(FoundRecord)
    BY <1>15, <1>17 DEF t
  <2> QED
    BY <2>1, ConcatProperties, LenProperties
<1> QED
  BY <1>7, <1>14, <1>16, <1>18

\* Such a place is the only one.
LEMMA SamePlace ==
  ASSUME NEW b \in Seq(Byte), NEW p, NEW q, NEW n, PlaceAt(b, p, n), PlaceAt(b, q, n)
  PROVE  p = q
<1>1. ~(p < q) /\ ~(q < p)
  BY NotBefore
<1>2. p \in Nat /\ q \in Nat
  BY DEF PlaceAt
<1> QED
  BY <1>1, <1>2

\* What the walk takes at a place.
ReadsAt(b, r) ==
  /\ r.start + 6 <= Len(b) /\ r.id # Version /\ r.id = IdAt(b, r.start)
  /\ EndAt(b, r.start) <= Len(b)
  /\ r.payload = Slice(b, r.start + 6, EndAt(b, r.start))

\* A record stands where the walk has found it.
LEMMA PlaceOf ==
  ASSUME NEW b \in Seq(Byte), NEW rs \in Seq(Numbered), Walked(b, rs),
         NEW j \in 1 .. Len(rs), ReadsAt(b, rs[j])
  PROVE  PlaceAt(b, rs[j].start, j - 1)
<1>1. rs[j].start \in Nat
  <2>1. rs[j] \in Numbered
    BY ElementOfSeq
  <2> QED
    BY <2>1 DEF Numbered
<1>2. rs[j].start + 6 <= Len(b) /\ WalksTo(b, rs, rs[j].start, j - 1)
  BY DEF Walked
<1>3. IdAt(b, rs[j].start) # Version
  BY DEF ReadsAt
<1>4. Len(SubSeq(Found(rs), 1, j - 1)) = j - 1
  <2>1. Found(rs) \in Seq(FoundRecord) /\ Len(Found(rs)) = Len(rs) /\ Len(rs) \in Nat
    BY FoundPart
  <2>2. 1 \in Int /\ j - 1 \in Nat /\ 1 <= (j - 1) + 1 /\ \A x \in 1 .. j - 1 : x \in 1 .. Len(rs)
    BY <2>1
  <2>3. \A x \in 1 .. j - 1 : Found(rs)[x] \in FoundRecord
    BY <2>1, <2>2, ElementOfSeq
  <2>4. Len(SubSeq(Found(rs), 1, j - 1)) = IF 1 <= j - 1 THEN ((j - 1) - 1) + 1 ELSE 0
    BY <2>2, <2>3, SubSeqProperties
  <2> QED
    BY <2>2, <2>4
<1> QED
  BY <1>1, <1>2, <1>3, <1>4 DEF PlaceAt, WalksTo

-----------------------------------------------------------------------------
(***************************************************************************)
(* What the second Read gives beside the first.                            *)
(***************************************************************************)

\* Records by their number in the first four bytes.
Low(rs) == [j \in DOMAIN rs |-> [id |-> rs[j].id, val |-> le32(rs[j].payload)]]

\* A Read of b gets these records and this result.
Gives(b, rs, info) ==
  /\ b \in Seq(Byte) /\ rs \in Seq(Numbered) /\ info \in DirInfo
  /\ Walked(b, rs) /\ Found(rs) = Walk(b) /\ \A j \in 1 .. Len(rs) : ReadsAt(b, rs[j])
  /\ info.SysKind = D!LastVal(Low(rs), SysKind, 1, Len(rs), 0)
  /\ info.LCID = D!LastVal(Low(rs), LCID, 1, Len(rs), 0)
  /\ info.CodePage = D!CodePage(AbstractAll(rs))
  /\ info.RefNames = D!RefNames(AbstractAll(rs))
  /\ info.Modules = D!DirModules(AbstractAll(rs))
  /\ \E from, to :
       /\ MarkIs(rs, from, ReferenceName, Len(rs)) /\ MarkIs(rs, to, ProjectModules, Len(rs))
       /\ info.ProjectInfoRaw = SpanUpto(b, IF from < 0 THEN to ELSE from)
       /\ info.RefsRaw = SpanOf(b, from, to)

\* The records that stand before the first PROJECTMODULES, at y.
Heading(rs, y) ==
  /\ y \in 1 .. Len(rs) /\ rs[y].id = ProjectModules
  /\ \A l \in 1 .. y - 1 : rs[l].id # ProjectModules

\* The two spans cut the bytes before PROJECTMODULES at the first reference.
Cuts(b, rs, y, info) ==
  LET e == rs[y].start
  IN  \/ /\ \A l \in 1 .. y - 1 : rs[l].id # ReferenceName
         /\ info.ProjectInfoRaw = Slice(b, 0, e) /\ info.RefsRaw = << >>
      \/ \E x \in 1 .. y - 1 :
           /\ rs[x].id = ReferenceName /\ \A l \in 1 .. x - 1 : rs[l].id # ReferenceName
           /\ info.ProjectInfoRaw = Slice(b, 0, rs[x].start)
           /\ info.RefsRaw = Slice(b, rs[x].start, e)

\* Where a record stands in the stream.
LEMMA StartsIn ==
  ASSUME NEW b \in Seq(Byte), NEW rs \in Seq(Numbered), Walked(b, rs), NEW j \in 1 .. Len(rs)
  PROVE  rs[j].start \in Nat /\ rs[j].start + 6 <= Len(b) /\ Len(b) \in Nat /\ Len(rs) \in Nat
<1>1. rs[j] \in Numbered
  BY ElementOfSeq
<1> QED
  BY <1>1, LenProperties DEF Numbered, Walked

\* Up to a place, SpanUpto is a slice.
LEMMA UptoPlace ==
  ASSUME NEW b, NEW mark \in Nat
  PROVE  SpanUpto(b, mark) = Slice(b, 0, mark)
<1>1. CASE mark > 0
  BY <1>1 DEF SpanUpto
<1>2. CASE ~(mark > 0)
  <2>1. mark = 0
    BY <1>2
  <2>2. SubSeq(b, 0 + 1, 0) = << >>
    BY SubSeqEmpty
  <2> QED
    BY <1>2, <2>1, <2>2 DEF SpanUpto, Slice
<1> QED
  BY <1>1, <1>2

\* Two neighbouring slices are one.
LEMMA SlicesJoin ==
  ASSUME NEW b \in Seq(Byte), NEW p \in Nat, NEW q \in p .. Len(b)
  PROVE  Slice(b, 0, p) \o Slice(b, p, q) = Slice(b, 0, q)
<1>1. Len(b) \in Nat
  BY LenProperties
<1>2. 0 + 1 \in 1 .. Len(b) + 1 /\ p \in (0 + 1) - 1 .. Len(b) /\ q \in p .. Len(b)
  BY <1>1
<1>3. SubSeq(b, 0 + 1, p) \o SubSeq(b, p + 1, q) = SubSeq(b, 0 + 1, q)
  BY <1>2, ConcatAdjacentSubSeq
<1> QED
  BY <1>3 DEF Slice

\* Where the modules follow the references, the spans cut what stands before.
LEMMA CutsIt ==
  ASSUME NEW b, NEW rs, NEW info, Gives(b, rs, info),
         D!RefEnd(AbstractAll(rs)) > D!RefStart(AbstractAll(rs))
  PROVE  \E y : Heading(rs, y) /\ Cuts(b, rs, y, info)
<1> DEFINE s == AbstractAll(rs)
           top == Len(rs)
           x == D!RefStart(s)
           y == D!RefEnd(s)
<1>1. b \in Seq(Byte) /\ rs \in Seq(Numbered) /\ Walked(b, rs)
  BY DEF Gives
<1>2. PICK from, to :
        /\ MarkIs(rs, from, ReferenceName, top) /\ MarkIs(rs, to, ProjectModules, top)
        /\ info.ProjectInfoRaw = SpanUpto(b, IF from < 0 THEN to ELSE from)
        /\ info.RefsRaw = SpanOf(b, from, to)
  BY DEF Gives
<1>3. top \in Nat /\ DOMAIN s = 1 .. top /\ \A j \in 1 .. top : s[j] = Abstract(rs[j])
  BY <1>1, FoundPart
<1>4. \A j \in 1 .. top : rs[j].start \in Nat
  BY <1>1, StartsIn
<1>5. (from = -1 /\ x = 0) \/ (x \in 1 .. top /\ from = rs[x].start)
  <2>1. \A r : Abstract(r).id = "REFERENCENAME" <=> r.id = ReferenceName
    BY AbstractIs
  <2> QED
    BY <1>1, <1>2, <2>1, FirstMark DEF D!RefStart
<1>6. (to = -1 /\ y = 0) \/ (y \in 1 .. top /\ to = rs[y].start)
  <2>1. \A r : Abstract(r).id = "PROJECTMODULES" <=> r.id = ProjectModules
    BY AbstractIs
  <2> QED
    BY <1>1, <1>2, <2>1, FirstMark DEF D!RefEnd
<1>7. y > x
  OBVIOUS
<1> HIDE DEF s, x, y, top
<1>8. y \in 1 .. top /\ to = rs[y].start /\ to \in Nat
  BY <1>3, <1>4, <1>5, <1>6, <1>7
<1>9. PICK j \in 1 .. top : /\ rs[j].id = ProjectModules /\ to = rs[j].start
                            /\ \A l \in 1 .. j - 1 : rs[l].id # ProjectModules
  BY <1>2, <1>8 DEF MarkIs
<1>10. \A l, n \in 1 .. top : rs[l].start = rs[n].start => l = n
  <2> SUFFICES ASSUME NEW l \in 1 .. top, NEW n \in 1 .. top, l \in 1 .. n - 1
               PROVE  rs[l].start # rs[n].start
    BY <1>3
  <2>1. rs[l].start < rs[n].start
    BY <1>1 DEF Walked, top
  <2> QED
    BY <1>4, <2>1
<1>11. Heading(rs, y)
  <2>1. j = y
    BY <1>8, <1>9, <1>10
  <2> QED
    BY <1>8, <1>9, <2>1 DEF Heading, top
<1>12. CASE from = -1
  <2>1. \A l \in 1 .. top : rs[l].id # ReferenceName
    BY <1>2, <1>4, <1>12 DEF MarkIs
  <2>2. \A l \in 1 .. y - 1 : l \in 1 .. top
    BY <1>3, <1>8
  <2>3. info.ProjectInfoRaw = Slice(b, 0, to) /\ info.RefsRaw = << >>
    <3>1. from < 0 /\ ~(from >= 0)
      BY <1>12
    <3> QED
      BY <1>2, <1>8, <3>1, UptoPlace DEF SpanOf
  <2>4. Cuts(b, rs, y, info)
    BY <1>8, <2>1, <2>2, <2>3 DEF Cuts
  <2> QED
    BY <1>11, <2>4
<1>13. CASE from # -1
  <2>1. x \in 1 .. top /\ from = rs[x].start /\ from \in Nat /\ x \in 1 .. y - 1
    BY <1>3, <1>4, <1>5, <1>7, <1>8, <1>13
  <2>2. PICK n \in 1 .. top : /\ rs[n].id = ReferenceName /\ from = rs[n].start
                              /\ \A l \in 1 .. n - 1 : rs[l].id # ReferenceName
    BY <1>2, <1>13 DEF MarkIs
  <2>3. n = x
    BY <1>10, <2>1, <2>2
  <2>4. from < to
    BY <1>1, <1>8, <2>1 DEF Walked, top
  <2>5. info.ProjectInfoRaw = Slice(b, 0, from) /\ info.RefsRaw = Slice(b, from, to)
    <3>1. ~(from < 0) /\ from >= 0 /\ to > from
      BY <1>8, <2>1, <2>4
    <3> QED
      BY <1>2, <2>1, <3>1, UptoPlace DEF SpanOf
  <2>6. Cuts(b, rs, y, info)
    BY <1>8, <2>1, <2>2, <2>3, <2>5 DEF Cuts
  <2> QED
    BY <1>11, <2>6
<1> QED
  BY <1>12, <1>13

\* Spliced, the spans are those bytes.
LEMMA Spliced ==
  ASSUME NEW b \in Seq(Byte), NEW rs \in Seq(Numbered), Walked(b, rs), NEW info, NEW y,
         Heading(rs, y), Cuts(b, rs, y, info)
  PROVE  info.ProjectInfoRaw \o info.RefsRaw = Slice(b, 0, rs[y].start)
<1> DEFINE e == rs[y].start
<1>1. y \in 1 .. Len(rs) /\ Len(rs) \in Nat
  BY LenProperties DEF Heading
<1>2. e \in Nat /\ e + 6 <= Len(b) /\ Len(b) \in Nat
  BY <1>1, StartsIn
<1>3. CASE info.ProjectInfoRaw = Slice(b, 0, e) /\ info.RefsRaw = << >>
  <2>1. Slice(b, 0, e) \in Seq(Byte)
    <3>1. 0 \in Nat /\ e \in 0 .. Len(b)
      BY <1>2
    <3> QED
      BY <3>1, SliceIs
  <2> HIDE DEF e
  <2> QED
    BY <1>3, <2>1, ConcatEmptySeq DEF e
<1>4. ASSUME NEW x \in 1 .. y - 1, info.ProjectInfoRaw = Slice(b, 0, rs[x].start),
             info.RefsRaw = Slice(b, rs[x].start, e)
      PROVE  info.ProjectInfoRaw \o info.RefsRaw = Slice(b, 0, e)
  <2>1. x \in 1 .. Len(rs)
    BY <1>1
  <2>2. rs[x].start \in Nat /\ rs[x].start < e
    BY <1>1, <2>1, StartsIn DEF Walked
  <2>3. e \in rs[x].start .. Len(b)
    BY <1>2, <2>2
  <2> QED
    BY <1>4, <2>2, <2>3, SlicesJoin
<1> QED
  BY <1>3, <1>4 DEF Cuts

\* The records of the second Read: those before PROJECTMODULES, and w.
Rebuilt(rs1, rs2, y, w) ==
  /\ rs1 \in Seq(Numbered) /\ rs2 \in Seq(Numbered) /\ Heading(rs1, y) /\ Heading(rs2, y)
  /\ w \in Seq(FoundRecord) /\ Len(rs2) = y - 1 + Len(w)
  /\ \A l \in 1 .. y - 1 : rs2[l].id = rs1[l].id /\ rs2[l].payload = rs1[l].payload
  /\ \A j \in 1 .. Len(w) : Found(rs2)[y - 1 + j] = w[j]
  /\ \A l \in y .. Len(rs2) : rs2[l].id \notin ProjectIds

\* A part of a walk is a part of what is found.
LEMMA FoundAt ==
  ASSUME NEW rs \in Seq(Numbered), NEW l \in 1 .. Len(rs)
  PROVE  Found(rs)[l] = [id |-> rs[l].id, payload |-> rs[l].payload]
BY LenProperties DEF Found

\* What is spliced is walked to those records.
LEMMA RebuiltIs ==
  ASSUME NEW b1, NEW rs1, NEW first, Gives(b1, rs1, first),
         NEW rs2, NEW di2, Gives(BuiltDir(first), rs2, di2),
         NEW y, Heading(rs1, y), Cuts(b1, rs1, y, first),
         NEW built, built = BuildProjectModules(
           [j \in DOMAIN first.Modules |-> ModuleSpec(first.Modules[j])]),
         Opens(built), NEW mods, NEW open, Leads(built, << >>, << >>, mods, open)
  PROVE  \E w : /\ Rebuilt(rs1, rs2, y, w) /\ Walks(built, w)
                /\ (ModulesAre(rs2, << >>, << >>, y - 1) => ModulesAre(rs2, mods, open, Len(rs2)))
<1> DEFINE pre == Slice(b1, 0, rs1[y].start)
           f == Found(rs1)
           v == SubSeq(f, 1, y - 1)
<1>1. /\ b1 \in Seq(Byte) /\ rs1 \in Seq(Numbered) /\ Walked(b1, rs1)
      /\ rs2 \in Seq(Numbered) /\ Found(rs2) = Walk(BuiltDir(first))
  BY DEF Gives
<1>2. y \in 1 .. Len(rs1) /\ Len(rs1) \in Nat /\ Len(rs2) \in Nat
  BY <1>1, LenProperties DEF Heading
<1>3. BuiltDir(first) = pre \o built
  <2>1. first.ProjectInfoRaw \o first.RefsRaw = pre
    BY <1>1, Spliced
  <2> HIDE DEF pre
  <2> QED
    BY <2>1 DEF BuiltDir
<1>4. pre \in Seq(Byte) /\ Clean(pre) /\ Walk(pre) = v
  <2>1. rs1[y].start \in 0 .. Len(b1) /\ 0 \in Nat
    <3>1. rs1[y].start \in Nat /\ rs1[y].start + 6 <= Len(b1) /\ Len(b1) \in Nat
      BY <1>1, <1>2, StartsIn
    <3> QED
      BY <3>1
  <2>2. pre \in Seq(Byte)
    BY <1>1, <2>1, SliceIs
  <2>3. WalksTo(b1, rs1, rs1[y].start, y - 1)
    BY <1>1, <1>2 DEF Walked
  <2> QED
    BY <2>2, <2>3 DEF WalksTo
<1> HIDE DEF pre
<1>5. PICK w : /\ Walks(built, w) /\ \A j \in 1 .. Len(w) : w[j].id \notin ProjectIds
               /\ \A rs \in Seq(Numbered), a \in Nat :
                    /\ a + Len(w) <= Len(rs)
                    /\ \A j \in 1 .. Len(w) : Found(rs)[a + j] = w[j]
                    /\ ModulesAre(rs, << >>, << >>, a)
                    => ModulesAre(rs, mods, open, a + Len(w))
  BY DEF Leads
<1>6. w \in Seq(FoundRecord) /\ Len(w) \in Nat /\ Len(w) >= 1 /\ w[1].id = ProjectModules
  <2>1. PICK u : Walks(built, u) /\ Len(u) \in Nat /\ Len(u) >= 1 /\ u[1].id = ProjectModules
    BY DEF Opens
  <2>2. u = w /\ w \in Seq(FoundRecord)
    BY <1>5, <2>1 DEF Walks
  <2> QED
    BY <2>1, <2>2
<1>7. /\ v \in Seq(FoundRecord) /\ Len(v) = y - 1
      /\ \A l \in 1 .. y - 1 : v[l] = [id |-> rs1[l].id, payload |-> rs1[l].payload]
  <2>1. f \in Seq(FoundRecord) /\ Len(f) = Len(rs1)
    BY <1>1, FoundPart
  <2>2. \A l \in 1 .. y - 1 : l \in 1 .. Len(rs1)
    BY <1>2
  <2>3. \A l \in 1 .. y - 1 : f[l] \in FoundRecord
    BY <2>1, <2>2, ElementOfSeq
  <2>4. \A l \in 1 .. y - 1 : f[l] = [id |-> rs1[l].id, payload |-> rs1[l].payload]
    BY <1>1, <2>2, FoundAt
  <2> HIDE DEF f
  <2>5. 1 \in Int /\ y - 1 \in Nat /\ 1 <= (y - 1) + 1
    BY <1>2
  <2>6. /\ Len(v) = IF 1 <= y - 1 THEN ((y - 1) - 1) + 1 ELSE 0
        /\ v \in Seq(FoundRecord) /\ \A l \in 1 .. y - 1 : v[l] = f[l]
    <3>1. \A l \in 1 .. y - 1 : l \in 1 .. Len(f)
      BY <2>1, <2>2
    <3>2. v \in Seq(FoundRecord) /\ Len(v) = (IF 1 <= y - 1 THEN ((y - 1) - 1) + 1 ELSE 0)
      BY <2>3, <2>5, SubSeqProperties
    <3>3. v = [l \in 1 .. y - 1 |-> f[l]]
      BY <1>2, <2>1
    <3> QED
      BY <3>2, <3>3
  <2> QED
    BY <2>4, <2>5, <2>6
<1> HIDE DEF v, f
<1>8. Found(rs2) = v \o w
  <2>1. Walk(pre \o built) = Walk(pre) \o Walk(built) /\ Walk(built) = w
    BY <1>4, <1>5, WalkConcat DEF Walks
  <2> QED
    BY <1>1, <1>3, <1>4, <2>1
<1>9. /\ Len(rs2) = y - 1 + Len(w)
      /\ \A l \in 1 .. y - 1 : Found(rs2)[l] = v[l]
      /\ \A j \in 1 .. Len(w) : Found(rs2)[y - 1 + j] = w[j]
  <2>1. Len(Found(rs2)) = Len(rs2)
    BY <1>1, FoundPart
  <2> QED
    BY <1>6, <1>7, <1>8, <2>1, ConcatProperties
<1>10. /\ \A l \in 1 .. y - 1 : l \in 1 .. Len(rs2)
       /\ \A j \in 1 .. Len(w) : y - 1 + j \in y .. Len(rs2) /\ y - 1 + j \in 1 .. Len(rs2)
       /\ \A l \in y .. Len(rs2) : \E j \in 1 .. Len(w) : l = y - 1 + j
  <2>1. \A l \in y .. Len(rs2) : l - (y - 1) \in 1 .. Len(w) /\ l = y - 1 + (l - (y - 1))
    BY <1>2, <1>6, <1>9
  <2> QED
    BY <1>2, <1>6, <1>9, <2>1
<1>11. \A l \in 1 .. y - 1 : rs2[l].id = rs1[l].id /\ rs2[l].payload = rs1[l].payload
  <2> SUFFICES ASSUME NEW l \in 1 .. y - 1
               PROVE  rs2[l].id = rs1[l].id /\ rs2[l].payload = rs1[l].payload
    OBVIOUS
  <2>1. [id |-> rs2[l].id, payload |-> rs2[l].payload]
          = [id |-> rs1[l].id, payload |-> rs1[l].payload]
    BY <1>1, <1>7, <1>9, <1>10, FoundAt
  <2> QED
    BY <2>1
<1>12. \A j \in 1 .. Len(w) : rs2[y - 1 + j].id = w[j].id
  <2> SUFFICES ASSUME NEW j \in 1 .. Len(w)
               PROVE  rs2[y - 1 + j].id = w[j].id
    OBVIOUS
  <2>1. [id |-> rs2[y - 1 + j].id, payload |-> rs2[y - 1 + j].payload] = w[j]
    BY <1>1, <1>9, <1>10, FoundAt
  <2> QED
    BY <2>1
<1>13. \A l \in y .. Len(rs2) : rs2[l].id \notin ProjectIds
  BY <1>5, <1>10, <1>12
<1>14. Heading(rs2, y)
  <2>1. 1 \in 1 .. Len(w) /\ y - 1 + 1 = y /\ y \in 1 .. Len(rs2)
    BY <1>2, <1>6, <1>9
  <2>2. rs2[y].id = ProjectModules
    BY <1>6, <1>12, <2>1
  <2> QED
    BY <1>11, <2>1, <2>2 DEF Heading
<1>15. Rebuilt(rs1, rs2, y, w)
  BY <1>1, <1>6, <1>9, <1>11, <1>13, <1>14 DEF Rebuilt
<1>16. ModulesAre(rs2, << >>, << >>, y - 1) => ModulesAre(rs2, mods, open, Len(rs2))
  <2>1. y - 1 \in Nat /\ y - 1 + Len(w) <= Len(rs2)
    BY <1>2, <1>9
  <2> QED
    BY <1>1, <1>5, <1>9, <2>1
<1> QED
  BY <1>5, <1>15, <1>16

\* The first record of a kind gives the mark.
LEMMA MarkOf ==
  ASSUME NEW rs \in Seq(Numbered), NEW id, NEW mark, MarkIs(rs, mark, id, Len(rs)),
         NEW x \in 1 .. Len(rs), rs[x].id = id, \A l \in 1 .. x - 1 : rs[l].id # id
  PROVE  mark = rs[x].start
<1>1. PICK j \in 1 .. Len(rs) : /\ rs[j].id = id /\ mark = rs[j].start
                                /\ \A l \in 1 .. j - 1 : rs[l].id # id
  BY DEF MarkIs
<1>2. ~(j \in 1 .. x - 1) /\ ~(x \in 1 .. j - 1)
  BY <1>1
<1>3. j = x
  BY <1>2, LenProperties
<1> QED
  BY <1>1, <1>3

\* The beginning of a stream is what the stream begins with.
LEMMA Begins ==
  ASSUME NEW b \in Seq(Byte), NEW e \in 0 .. Len(b)
  PROVE  LET pre == Slice(b, 0, e)
         IN  /\ pre \in Seq(Byte) /\ Len(pre) = e /\ Holds(b, 0, pre)
             /\ \A m \in 0 .. e : \A n \in m .. e : Slice(b, m, n) = Slice(pre, m, n)
<1> DEFINE pre == Slice(b, 0, e)
<1>1. Len(b) \in Nat /\ e \in Nat /\ e <= Len(b) /\ 0 \in Nat
  BY LenProperties
<1>2. pre \in Seq(Byte) /\ Len(pre) = e - 0 /\ \A x \in 1 .. e - 0 : pre[x] = b[0 + x]
  BY <1>1, SliceIs
<1> HIDE DEF pre
<1>3. Len(pre) = e /\ \A x \in 1 .. e : b[0 + x] = pre[x]
  BY <1>1, <1>2
<1>4. Holds(b, 0, pre)
  BY <1>1, <1>2, <1>3 DEF Holds
<1>5. ASSUME NEW m \in 0 .. e, NEW n \in m .. e
      PROVE  Slice(b, m, n) = Slice(pre, m, n)
  <2>1. n \in m .. Len(pre) /\ m \in Nat /\ 0 + m = m /\ 0 + n = n
    BY <1>1, <1>3
  <2>2. 0 + n <= Len(b) /\ \A x \in 1 .. n : b[0 + x] = pre[x]
    BY <1>1, <1>3
  <2>3. Slice(b, 0 + m, 0 + n) = Slice(pre, m, n)
    BY <1>1, <1>2, <2>1, <2>2, SliceSame
  <2> QED
    BY <2>1, <2>3
<1> QED
  BY <1>2, <1>3, <1>4, <1>5 DEF pre

\* Where one place follows another there is room for a record between them.
LEMMA RoomBetween ==
  ASSUME NEW b \in Seq(Byte), NEW p, NEW q, NEW m, NEW n, PlaceAt(b, p, m), PlaceAt(b, q, n), p < q
  PROVE  p + 6 <= q
<1>1. /\ p \in Nat /\ q \in Nat /\ q + 6 <= Len(b) /\ Len(b) \in Nat
      /\ Clean(Slice(b, 0, p)) /\ Clean(Slice(b, 0, q))
  BY LenProperties DEF PlaceAt
<1> DEFINE c == Slice(b, p, q)
<1>2. c \in Seq(Byte) /\ Len(c) = q - p /\ Slice(b, 0, p) \in Seq(Byte)
  <2>1. p \in 0 .. Len(b) /\ q \in p .. Len(b) /\ 0 \in Nat
    BY <1>1
  <2> QED
    BY <1>1, <2>1, SliceIs
<1>3. Slice(b, 0, p) \o c = Slice(b, 0, q)
  <2>1. q \in p .. Len(b)
    BY <1>1
  <2> QED
    BY <1>1, <2>1, SlicesJoin
<1> HIDE DEF c
<1>4. Clean(c)
  BY <1>1, <1>2, <1>3, CleanRest
<1>5. PICK P : IsPath(c, P)
  BY <1>4 DEF Clean
<1>6. 0 + 6 <= Len(c)
  <2>1. 0 # Len(c)
    BY <1>1, <1>2
  <2> QED
    BY <1>5, <2>1 DEF IsPath
<1> QED
  BY <1>1, <1>2, <1>6

\* The second Read cuts what it reads as the first did.
LEMMA SpansBack ==
  ASSUME NEW b1, NEW rs1, NEW first, Gives(b1, rs1, first),
         NEW rs2, NEW di2, Gives(BuiltDir(first), rs2, di2),
         NEW y, Cuts(b1, rs1, y, first),
         NEW built, built = BuildProjectModules(
           [j \in DOMAIN first.Modules |-> ModuleSpec(first.Modules[j])]),
         Opens(built), NEW w, Rebuilt(rs1, rs2, y, w)
  PROVE  di2.ProjectInfoRaw = first.ProjectInfoRaw /\ di2.RefsRaw = first.RefsRaw
<1> DEFINE e == rs1[y].start
           pre == Slice(b1, 0, e)
           b2 == BuiltDir(first)
<1>1. /\ b1 \in Seq(Byte) /\ rs1 \in Seq(Numbered) /\ Walked(b1, rs1)
      /\ b2 \in Seq(Byte) /\ rs2 \in Seq(Numbered) /\ Walked(b2, rs2)
      /\ \A j \in 1 .. Len(rs1) : ReadsAt(b1, rs1[j])
      /\ \A j \in 1 .. Len(rs2) : ReadsAt(b2, rs2[j])
  BY DEF Gives
<1>2. /\ y \in 1 .. Len(rs1) /\ y \in 1 .. Len(rs2) /\ Len(rs1) \in Nat /\ Len(rs2) \in Nat
      /\ Heading(rs1, y) /\ Heading(rs2, y)
  BY <1>1, LenProperties DEF Heading, Rebuilt
<1>3. b2 = pre \o built
  <2>1. /\ b1 \in Seq(Byte) /\ rs1 \in Seq(Numbered) /\ Walked(b1, rs1) /\ Heading(rs1, y)
        /\ Cuts(b1, rs1, y, first)
    BY <1>1, <1>2
  <2>2. first.ProjectInfoRaw \o first.RefsRaw = pre
    <3> HIDE DEF b2
    <3> QED
      BY <2>1, Spliced
  <2> HIDE DEF pre
  <2> QED
    BY <2>2 DEF BuiltDir
<1>4. PlaceAt(b1, e, y - 1)
  BY <1>1, <1>2, PlaceOf
<1>5. e \in Nat /\ e \in 0 .. Len(b1) /\ Len(b1) \in Nat
  BY <1>4, <1>1, LenProperties DEF PlaceAt
<1>6. /\ pre \in Seq(Byte) /\ Len(pre) = e /\ Holds(b1, 0, pre)
      /\ \A m \in 0 .. e : \A n \in m .. e : Slice(b1, m, n) = Slice(pre, m, n)
  BY <1>1, <1>5, Begins
<1>7. built \in Seq(Byte) /\ Len(built) >= 6 /\ IdAt(built, 0) = ProjectModules
  BY DEF Opens, Walks
<1>8. /\ Len(b2) = e + Len(built) /\ Len(built) \in Nat
      /\ Holds(b2, 0, pre) /\ Holds(b2, e, built)
  <2> HIDE DEF pre, b2
  <2> QED
    BY <1>3, <1>6, <1>7, HoldsBoth
<1>9. e \in 0 .. Len(b2) /\ e + 6 <= Len(b2)
  BY <1>5, <1>7, <1>8
<1>10. Slice(b2, 0, e) = pre
  <2> DEFINE f == Slice(b2, 0, e)
  <2>1. f \in Seq(Byte) /\ Len(f) = e /\ Holds(b2, 0, f)
    BY <1>1, <1>9, Begins
  <2> HIDE DEF f, pre
  <2>2. \A x \in 1 .. e : f[x] = pre[x]
    BY <1>6, <1>8, <2>1 DEF Holds
  <2>3. f = pre
    BY <1>6, <2>1, <2>2, SeqEqual
  <2> QED
    BY <2>3 DEF f
<1>11. \A m \in 0 .. e : \A n \in m .. e : Slice(b2, m, n) = Slice(b1, m, n)
  <2>1. \A m \in 0 .. e : \A n \in m .. e : Slice(b2, m, n) = Slice(pre, m, n)
    BY <1>1, <1>9, <1>10, Begins
  <2> QED
    BY <1>6, <2>1
<1>12. rs2[y].start = e
  <2>1. PlaceAt(b2, rs2[y].start, y - 1)
    BY <1>1, <1>2, PlaceOf
  <2>2. IdAt(b2, e) # Version
    <3>1. IdAt(b2, e + 0) = IdAt(built, 0)
      BY <1>7, <1>8, SameHeader
    <3>2. e + 0 = e /\ ProjectModules # Version
      BY <1>5, FieldIds
    <3> QED
      BY <1>7, <3>1, <3>2
  <2>3. PlaceAt(b2, e, y - 1)
    BY <1>4, <1>5, <1>9, <1>10, <2>2 DEF PlaceAt
  <2> QED
    BY <1>1, <2>1, <2>3, SamePlace
<1>13. PICK from, to :
         /\ MarkIs(rs2, from, ReferenceName, Len(rs2)) /\ MarkIs(rs2, to, ProjectModules, Len(rs2))
         /\ di2.ProjectInfoRaw = SpanUpto(b2, IF from < 0 THEN to ELSE from)
         /\ di2.RefsRaw = SpanOf(b2, from, to)
  BY DEF Gives
<1>14. to = e
  BY <1>1, <1>2, <1>12, <1>13, MarkOf DEF Heading
<1> HIDE DEF pre, b2
<1>15. CASE /\ \A l \in 1 .. y - 1 : rs1[l].id # ReferenceName
            /\ first.ProjectInfoRaw = Slice(b1, 0, e) /\ first.RefsRaw = << >>
  <2>1. \A l \in 1 .. Len(rs2) : rs2[l].id # ReferenceName
    <3> SUFFICES ASSUME NEW l \in 1 .. Len(rs2)
                 PROVE  rs2[l].id # ReferenceName
      OBVIOUS
    <3>1. l \in 1 .. y - 1 \/ l \in y .. Len(rs2)
      BY <1>2
    <3>2. l \in y .. Len(rs2) => rs2[l].id # ReferenceName
      BY DEF Rebuilt, ProjectIds
    <3>3. l \in 1 .. y - 1 => rs2[l].id = rs1[l].id
      BY DEF Rebuilt
    <3> QED
      BY <1>15, <3>1, <3>2, <3>3
  <2>2. from = -1
    BY <1>13, <2>1 DEF MarkIs
  <2>3. di2.ProjectInfoRaw = Slice(b2, 0, e) /\ di2.RefsRaw = << >>
    <3>1. from < 0 /\ ~(from >= 0)
      BY <2>2
    <3> QED
      BY <1>5, <1>13, <1>14, <3>1, UptoPlace DEF SpanOf
  <2>4. Slice(b2, 0, e) = Slice(b1, 0, e)
    <3>1. 0 \in 0 .. e /\ e \in 0 .. e
      BY <1>5
    <3> QED
      BY <1>11, <3>1
  <2> QED
    BY <1>15, <2>3, <2>4
<1>16. ASSUME NEW x \in 1 .. y - 1,
              rs1[x].id = ReferenceName, \A l \in 1 .. x - 1 : rs1[l].id # ReferenceName,
              first.ProjectInfoRaw = Slice(b1, 0, rs1[x].start),
              first.RefsRaw = Slice(b1, rs1[x].start, e)
       PROVE  di2.ProjectInfoRaw = first.ProjectInfoRaw /\ di2.RefsRaw = first.RefsRaw
  <2> DEFINE p == rs1[x].start
  <2>1. /\ x \in 1 .. Len(rs1) /\ x \in 1 .. Len(rs2) /\ x \in Nat /\ y \in Nat
        /\ \A l \in 1 .. x - 1 : l \in 1 .. y - 1
    BY <1>2
  <2>2. rs2[x].id = ReferenceName /\ \A l \in 1 .. x - 1 : rs2[l].id # ReferenceName
    <3>1. \A l \in 1 .. y - 1 : rs2[l].id = rs1[l].id
      BY DEF Rebuilt
    <3> QED
      BY <1>16, <2>1, <3>1
  <2>3. from = rs2[x].start
    BY <1>1, <1>13, <2>1, <2>2, MarkOf
  <2>4. PlaceAt(b1, p, x - 1)
    BY <1>1, <2>1, PlaceOf
  <2>5. p < e
    BY <1>1, <1>2 DEF Walked
  <2>6. p + 6 <= e /\ p \in Nat
    BY <1>1, <1>4, <2>4, <2>5, RoomBetween DEF PlaceAt
  <2>7. p \in 0 .. e /\ 0 \in 0 .. e /\ e \in p .. e /\ p \in 0 .. p
    BY <1>5, <2>6
  <2>8. Slice(b2, 0, p) = Slice(b1, 0, p) /\ Slice(b2, p, e) = Slice(b1, p, e)
    BY <1>11, <2>7
  <2>9. IdAt(b2, p) = IdAt(b1, p)
    <3>1. p + 6 <= Len(pre)
      BY <1>6, <2>6
    <3>2. IdAt(b2, 0 + p) = IdAt(pre, p) /\ IdAt(b1, 0 + p) = IdAt(pre, p)
      BY <1>6, <1>8, <2>6, <3>1, SameHeader
    <3>3. 0 + p = p
      BY <2>6
    <3> QED
      BY <3>2, <3>3
  <2>10. PlaceAt(b2, p, x - 1)
    <3>1. p + 6 <= Len(b2)
      BY <1>5, <1>9, <1>8, <2>6
    <3> QED
      BY <2>4, <2>6, <2>8, <2>9, <3>1 DEF PlaceAt
  <2>11. rs2[x].start = p
    <3>1. PlaceAt(b2, rs2[x].start, x - 1)
      BY <1>1, <2>1, PlaceOf DEF b2
    <3> QED
      BY <1>1, <2>10, <3>1, SamePlace DEF b2
  <2>12. di2.ProjectInfoRaw = Slice(b2, 0, p) /\ di2.RefsRaw = Slice(b2, p, e)
    <3>1. from = p
      BY <2>3, <2>11
    <3>2. ~(p < 0) /\ p >= 0 /\ e > p
      BY <1>5, <2>5, <2>6
    <3> HIDE DEF p, e
    <3> QED
      BY <1>13, <1>14, <2>6, <3>1, <3>2, UptoPlace DEF SpanOf
  <2> QED
    BY <1>16, <2>8, <2>12
<1> QED
  BY <1>15, <1>16 DEF Cuts

\* Two sequences of records with the same ones up to m, none of a kind behind.
Alike(s1, n1, s2, n2, m, id) ==
  /\ n1 \in Nat /\ n2 \in Nat /\ m \in Nat /\ m <= n1 /\ m <= n2
  /\ DOMAIN s1 = 1 .. n1 /\ DOMAIN s2 = 1 .. n2
  /\ \A x \in 1 .. m : s1[x] = s2[x]
  /\ \A x \in m + 1 .. n1 : s1[x].id # id
  /\ \A x \in m + 1 .. n2 : s2[x].id # id

\* They have the kind at the same positions.
LEMMA SameAt ==
  ASSUME NEW s1, NEW n1, NEW s2, NEW n2, NEW m, NEW id, Alike(s1, n1, s2, n2, m, id)
  PROVE  /\ D!At(s1, {id}) = D!At(s2, {id})
         /\ D!At(s1, {id}) \in SUBSET (1 .. m)
         /\ \A x \in D!At(s1, {id}) : s1[x] = s2[x] /\ s1[x].id = id
<1>1. /\ n1 \in Nat /\ n2 \in Nat /\ m \in Nat /\ m <= n1 /\ m <= n2
      /\ DOMAIN s1 = 1 .. n1 /\ DOMAIN s2 = 1 .. n2
      /\ \A x \in 1 .. m : s1[x] = s2[x]
      /\ \A x \in m + 1 .. n1 : s1[x].id # id
      /\ \A x \in m + 1 .. n2 : s2[x].id # id
  BY DEF Alike
<1>2. D!At(s1, {id}) = {x \in 1 .. n1 : s1[x].id = id}
      /\ D!At(s2, {id}) = {x \in 1 .. n2 : s2[x].id = id}
  BY <1>1 DEF D!At
<1>3. \A n \in Nat : m <= n => \A x : x \in 1 .. n <=> x \in 1 .. m \/ x \in m + 1 .. n
  BY <1>1
<1>4. D!At(s1, {id}) = {x \in 1 .. m : s1[x].id = id}
  BY <1>1, <1>2, <1>3
<1>5. D!At(s2, {id}) = {x \in 1 .. m : s2[x].id = id}
  BY <1>1, <1>2, <1>3
<1> QED
  BY <1>1, <1>4, <1>5

\* The last value is the same.
LEMMA SameLast ==
  ASSUME NEW s1, NEW n1, NEW s2, NEW n2, NEW m, NEW id, NEW default,
         Alike(s1, n1, s2, n2, m, id)
  PROVE  D!LastVal(s1, id, 1, n1, default) = D!LastVal(s2, id, 1, n2, default)
<1> DEFINE hits == D!At(s1, {id})
<1>1. /\ D!At(s2, {id}) = hits /\ hits \in SUBSET (1 .. m)
      /\ \A x \in hits : s1[x] = s2[x]
  BY SameAt
<1>2. m \in Nat /\ n1 \in Nat /\ n2 \in Nat /\ m <= n1 /\ m <= n2
  BY DEF Alike
<1> HIDE DEF hits
<1>3. hits \cap (1 .. n1) = hits /\ hits \cap (1 .. n2) = hits
  BY <1>1, <1>2
<1>4. /\ D!LastVal(s1, id, 1, n1, default) = IF hits = {} THEN default ELSE s1[Max(hits)].val
      /\ D!LastVal(s2, id, 1, n2, default) = IF hits = {} THEN default ELSE s2[Max(hits)].val
  BY <1>1, <1>3, SameSets DEF D!LastVal, hits
<1>5. ASSUME hits # {}
      PROVE  Max(hits) \in hits
  <2>1. hits \in SUBSET (0 .. m) /\ hits \in SUBSET Nat
    BY <1>1
  <2>2. PICK x \in hits : \A y \in hits : y <= x
    BY <1>2, <1>5, <2>1, GreatestOf
  <2>3. Max(hits) = x
    BY <2>1, <2>2, GreatestIs
  <2> QED
    BY <2>2, <2>3
<1>6. CASE hits = {}
  BY <1>4, <1>6
<1>7. CASE hits # {}
  BY <1>1, <1>4, <1>5, <1>7
<1> QED
  BY <1>6, <1>7

\* The names of the references are the same.
LEMMA SameNames ==
  ASSUME NEW s1, NEW n1, NEW s2, NEW n2, NEW m, Alike(s1, n1, s2, n2, m, "REFERENCENAME")
  PROVE  D!RefNames(s1) = D!RefNames(s2)
<1> DEFINE hits == D!At(s1, {"REFERENCENAME"})
           fresh(s) == {x \in hits : \A y \in hits : s[y].val = s[x].val => x <= y}
           F == fresh(s1)
<1>1. /\ D!At(s2, {"REFERENCENAME"}) = hits /\ hits \in SUBSET (1 .. m)
      /\ \A x \in hits : s1[x] = s2[x]
  BY SameAt
<1>2. m \in Nat
  BY DEF Alike
<1>3. D!RefNames(s1) = [j \in 1 .. Cardinality(fresh(s1)) |-> s1[D!Nth(fresh(s1), j)].val]
  BY SameSets DEF D!RefNames
<1>4. D!RefNames(s2) = [j \in 1 .. Cardinality(fresh(s2)) |-> s2[D!Nth(fresh(s2), j)].val]
  <2> HIDE DEF hits
  <2> QED
    BY <1>1, SameSets DEF D!RefNames
<1> HIDE DEF hits
<1>5. fresh(s2) = F
  BY <1>1
<1>6. F \in SUBSET (1 .. m) /\ F \subseteq hits
  BY <1>1
<1> DEFINE v(j) == s1[D!Nth(F, j)].val
           u(j) == s2[D!Nth(F, j)].val
<1>7. D!RefNames(s1) = [j \in 1 .. Cardinality(F) |-> v(j)]
  BY <1>3
<1>8. D!RefNames(s2) = [j \in 1 .. Cardinality(F) |-> u(j)]
  <2> HIDE DEF F
  <2> QED
    BY <1>4, <1>5
<1> HIDE DEF F
<1>9. \A j \in 1 .. Cardinality(F) : v(j) = u(j)
  <2> SUFFICES ASSUME NEW j \in 1 .. Cardinality(F)
               PROVE  v(j) = u(j)
    OBVIOUS
  <2>1. D!Nth(F, j) \in F
    BY <1>2, <1>6, NthAt
  <2> QED
    BY <1>1, <1>6, <2>1
<1> HIDE DEF v, u
<1> QED
  BY <1>7, <1>8, <1>9

\* In order, the first PROJECTMODULES stands between the project and the modules.
LEMMA HeadingParts ==
  ASSUME NEW rs \in Seq(Numbered), InOrder(rs), NEW y, Heading(rs, y)
  PROVE  /\ y \in 1 .. Len(rs) /\ Len(rs) \in Nat
         /\ \A l \in y .. Len(rs) : rs[l].id \notin ProjectIds
         /\ \A l \in 1 .. y - 1 : rs[l].id # ModuleName
<1>1. y \in 1 .. Len(rs) /\ Len(rs) \in Nat /\ DOMAIN rs = 1 .. Len(rs) /\ rs[y].id = ProjectModules
  BY LenProperties DEF Heading
<1>2. ASSUME NEW l \in DOMAIN rs
      PROVE  (l > y => rs[l].id \notin ProjectIds) /\ (l < y => rs[l].id # ModuleName)
  BY <1>1 DEF InOrder
<1>3. ProjectModules \notin ProjectIds
  BY FieldIds
<1>4. ASSUME NEW l \in y .. Len(rs)
      PROVE  rs[l].id \notin ProjectIds
  <2>1. l = y \/ (l \in DOMAIN rs /\ l > y)
    BY <1>1
  <2> QED
    BY <1>1, <1>2, <1>3, <2>1
<1>5. ASSUME NEW l \in 1 .. y - 1
      PROVE  rs[l].id # ModuleName
  <2>1. l \in DOMAIN rs /\ l < y
    BY <1>1
  <2> QED
    BY <1>2, <2>1
<1> QED
  BY <1>1, <1>4, <1>5

\* What is said of the project is said again, and nothing else.
LEMMA AlikeAgain ==
  ASSUME NEW rs1, NEW rs2, NEW y, NEW w, Rebuilt(rs1, rs2, y, w), InOrder(rs1)
  PROVE  LET s1 == AbstractAll(rs1)
             s2 == AbstractAll(rs2)
         IN  /\ Alike(s1, Len(rs1), s2, Len(rs2), y - 1, "PROJECTCODEPAGE")
             /\ Alike(s1, Len(rs1), s2, Len(rs2), y - 1, "REFERENCENAME")
             /\ Alike(Low(rs1), Len(rs1), Low(rs2), Len(rs2), y - 1, SysKind)
             /\ Alike(Low(rs1), Len(rs1), Low(rs2), Len(rs2), y - 1, LCID)
<1> DEFINE s1 == AbstractAll(rs1)
           s2 == AbstractAll(rs2)
           n1 == Len(rs1)
           n2 == Len(rs2)
           m == y - 1
<1>1. /\ rs1 \in Seq(Numbered) /\ rs2 \in Seq(Numbered) /\ Heading(rs1, y) /\ Heading(rs2, y)
      /\ \A l \in 1 .. y - 1 : rs2[l].id = rs1[l].id /\ rs2[l].payload = rs1[l].payload
      /\ \A l \in y .. n2 : rs2[l].id \notin ProjectIds
  BY DEF Rebuilt
<1>2. /\ y \in 1 .. n1 /\ n1 \in Nat /\ \A l \in y .. n1 : rs1[l].id \notin ProjectIds
  BY <1>1, HeadingParts
<1>3. y \in 1 .. n2 /\ n2 \in Nat
  BY <1>1, LenProperties DEF Heading
<1>4. /\ DOMAIN rs1 = 1 .. n1 /\ DOMAIN s1 = 1 .. n1 /\ DOMAIN Low(rs1) = 1 .. n1
      /\ DOMAIN rs2 = 1 .. n2 /\ DOMAIN s2 = 1 .. n2 /\ DOMAIN Low(rs2) = 1 .. n2
      /\ \A l \in 1 .. n1 : s1[l] = Abstract(rs1[l])
      /\ \A l \in 1 .. n2 : s2[l] = Abstract(rs2[l])
      /\ \A l \in 1 .. n1 : Low(rs1)[l] = [id |-> rs1[l].id, val |-> le32(rs1[l].payload)]
      /\ \A l \in 1 .. n2 : Low(rs2)[l] = [id |-> rs2[l].id, val |-> le32(rs2[l].payload)]
  BY <1>1, LenProperties DEF AbstractAll, Low
<1>5. /\ m \in Nat /\ m <= n1 /\ m <= n2 /\ \A l \in 1 .. m : l \in 1 .. n1 /\ l \in 1 .. n2
      /\ \A l \in m + 1 .. n1 : l \in y .. n1 /\ l \in 1 .. n1
      /\ \A l \in m + 1 .. n2 : l \in y .. n2 /\ l \in 1 .. n2
  BY <1>2, <1>3
<1>6. \A l \in 1 .. m : s1[l] = s2[l]
  <2> SUFFICES ASSUME NEW l \in 1 .. m
               PROVE  s1[l] = s2[l]
    OBVIOUS
  <2>1. rs2[l].id = rs1[l].id /\ rs2[l].payload = rs1[l].payload
    BY <1>1
  <2>2. Abstract(rs1[l]) = Abstract(rs2[l])
    BY <2>1 DEF Abstract
  <2> HIDE DEF s1, s2, m, n1, n2
  <2> QED
    BY <1>4, <1>5, <2>2
<1>7. \A l \in 1 .. m : Low(rs1)[l] = Low(rs2)[l]
  BY <1>1, <1>4, <1>5
<1>8. \A r : r.id \notin ProjectIds =>
        /\ Abstract(r).id # "PROJECTCODEPAGE" /\ Abstract(r).id # "REFERENCENAME"
        /\ r.id # SysKind /\ r.id # LCID
  BY AbstractIs DEF ProjectIds
<1> HIDE DEF s1, s2, m, n1, n2
<1>9. /\ \A l \in m + 1 .. n1 : /\ s1[l].id # "PROJECTCODEPAGE" /\ s1[l].id # "REFERENCENAME"
                                /\ Low(rs1)[l].id # SysKind /\ Low(rs1)[l].id # LCID
  <2> SUFFICES ASSUME NEW l \in m + 1 .. n1
               PROVE  /\ s1[l].id # "PROJECTCODEPAGE" /\ s1[l].id # "REFERENCENAME"
                      /\ Low(rs1)[l].id # SysKind /\ Low(rs1)[l].id # LCID
    OBVIOUS
  <2>1. rs1[l].id \notin ProjectIds /\ l \in 1 .. n1
    BY <1>2, <1>5
  <2>2. s1[l] = Abstract(rs1[l]) /\ Low(rs1)[l].id = rs1[l].id
    BY <1>4, <2>1
  <2> QED
    BY <1>8, <2>1, <2>2
<1>10. /\ \A l \in m + 1 .. n2 : /\ s2[l].id # "PROJECTCODEPAGE" /\ s2[l].id # "REFERENCENAME"
                                 /\ Low(rs2)[l].id # SysKind /\ Low(rs2)[l].id # LCID
  <2> SUFFICES ASSUME NEW l \in m + 1 .. n2
               PROVE  /\ s2[l].id # "PROJECTCODEPAGE" /\ s2[l].id # "REFERENCENAME"
                      /\ Low(rs2)[l].id # SysKind /\ Low(rs2)[l].id # LCID
    OBVIOUS
  <2>1. rs2[l].id \notin ProjectIds /\ l \in 1 .. n2
    BY <1>1, <1>5
  <2>2. s2[l] = Abstract(rs2[l]) /\ Low(rs2)[l].id = rs2[l].id
    BY <1>4, <2>1
  <2> QED
    BY <1>8, <2>1, <2>2
<1>11. /\ Alike(s1, n1, s2, n2, m, "PROJECTCODEPAGE") /\ Alike(s1, n1, s2, n2, m, "REFERENCENAME")
  BY <1>2, <1>3, <1>4, <1>5, <1>6, <1>9, <1>10 DEF Alike
<1>12. /\ Alike(Low(rs1), n1, Low(rs2), n2, m, SysKind)
       /\ Alike(Low(rs1), n1, Low(rs2), n2, m, LCID)
  BY <1>2, <1>3, <1>4, <1>5, <1>7, <1>9, <1>10 DEF Alike
<1> QED
  BY <1>11, <1>12 DEF s1, s2, n1, n2, m

\* The codepage is the last one of all the records.
LEMMA CodePageIs ==
  ASSUME NEW rs \in Seq(Numbered)
  PROVE  D!CodePage(AbstractAll(rs)) = D!LastVal(AbstractAll(rs), "PROJECTCODEPAGE", 1, Len(rs), 0)
<1> DEFINE all == AbstractAll(rs)
           body(j) == Abstract(rs[j])
<1>1. all = [j \in 1 .. Len(rs) |-> body(j)] /\ Len(rs) \in Nat
  BY FoundPart
<1> HIDE DEF all, body
<1>2. Len(all) = Len(rs)
  BY <1>1
<1>3. D!CodePage(all) = D!LastVal(all, "PROJECTCODEPAGE", 1, Len(rs), 0)
  BY <1>2 DEF D!CodePage
<1> QED
  BY <1>3 DEF all

\* The second Read gets what the first got of the project.
LEMMA ValuesBack ==
  ASSUME NEW b1, NEW rs1, NEW first, Gives(b1, rs1, first),
         NEW b2, NEW rs2, NEW di2, Gives(b2, rs2, di2),
         NEW y, NEW w, Rebuilt(rs1, rs2, y, w), InOrder(rs1)
  PROVE  /\ di2.SysKind = first.SysKind /\ di2.LCID = first.LCID
         /\ di2.CodePage = first.CodePage /\ di2.RefNames = first.RefNames
<1> DEFINE s1 == AbstractAll(rs1)
           s2 == AbstractAll(rs2)
           n1 == Len(rs1)
           n2 == Len(rs2)
           m == y - 1
<1>1. /\ Alike(s1, n1, s2, n2, m, "PROJECTCODEPAGE") /\ Alike(s1, n1, s2, n2, m, "REFERENCENAME")
      /\ Alike(Low(rs1), n1, Low(rs2), n2, m, SysKind)
      /\ Alike(Low(rs1), n1, Low(rs2), n2, m, LCID)
  BY AlikeAgain
<1>2. /\ rs1 \in Seq(Numbered) /\ first.RefNames = D!RefNames(s1)
      /\ first.SysKind = D!LastVal(Low(rs1), SysKind, 1, n1, 0)
      /\ first.LCID = D!LastVal(Low(rs1), LCID, 1, n1, 0)
      /\ first.CodePage = D!CodePage(s1)
  BY DEF Gives
<1>3. /\ rs2 \in Seq(Numbered) /\ di2.RefNames = D!RefNames(s2)
      /\ di2.SysKind = D!LastVal(Low(rs2), SysKind, 1, n2, 0)
      /\ di2.LCID = D!LastVal(Low(rs2), LCID, 1, n2, 0)
      /\ di2.CodePage = D!CodePage(s2)
  BY DEF Gives
<1>4. /\ D!CodePage(s1) = D!LastVal(s1, "PROJECTCODEPAGE", 1, n1, 0)
      /\ D!CodePage(s2) = D!LastVal(s2, "PROJECTCODEPAGE", 1, n2, 0)
  BY <1>2, <1>3, CodePageIs
<1> HIDE DEF s1, s2, n1, n2, m
<1>5. D!RefNames(s1) = D!RefNames(s2)
  BY <1>1, SameNames
<1>6. D!LastVal(s1, "PROJECTCODEPAGE", 1, n1, 0) = D!LastVal(s2, "PROJECTCODEPAGE", 1, n2, 0)
  BY <1>1, SameLast
<1>7. D!LastVal(Low(rs1), SysKind, 1, n1, 0) = D!LastVal(Low(rs2), SysKind, 1, n2, 0)
  BY <1>1, SameLast
<1>8. D!LastVal(Low(rs1), LCID, 1, n1, 0) = D!LastVal(Low(rs2), LCID, 1, n2, 0)
  BY <1>1, SameLast
<1> QED
  BY <1>2, <1>3, <1>4, <1>5, <1>6, <1>7, <1>8

\* Before the modules none has been opened.
LEMMA NoneOpened ==
  ASSUME NEW rs1, NEW rs2, NEW y, NEW w, Rebuilt(rs1, rs2, y, w), InOrder(rs1)
  PROVE  ModulesAre(rs2, << >>, << >>, y - 1)
<1>1. /\ rs1 \in Seq(Numbered) /\ Heading(rs1, y)
      /\ \A l \in 1 .. y - 1 : rs2[l].id = rs1[l].id
  BY DEF Rebuilt
<1>2. \A l \in 1 .. y - 1 : rs1[l].id # ModuleName
  BY <1>1, HeadingParts
<1>3. Openings(rs2) \cap (1 .. y - 1) = {}
  BY <1>1, <1>2 DEF Openings
<1> QED
  BY <1>3 DEF ModulesAre

\* Splicing is stable: on any bytes in which the modules follow the references
\* the second Read keeps the spans of the first, and if the records are in their
\* order, all else too, the sources now at offset 0.
LEMMA SplicedAgain ==
  ASSUME NEW b1, NEW rs1, NEW first, Gives(b1, rs1, first),
         \A j \in 1 .. Len(first.Modules) : SizesFit(first.Modules[j]),
         D!RefEnd(AbstractAll(rs1)) > D!RefStart(AbstractAll(rs1)),
         NEW rs2, NEW di2, Gives(BuiltDir(first), rs2, di2)
  PROVE  /\ di2.ProjectInfoRaw = first.ProjectInfoRaw /\ di2.RefsRaw = first.RefsRaw
         /\ InOrder(rs1) =>
              di2 = [first EXCEPT !.Modules = [j \in DOMAIN @ |-> Saved(@[j])]]
<1> DEFINE dms == first.Modules
           built == BuildProjectModules([j \in DOMAIN dms |-> ModuleSpec(dms[j])])
<1>1. first \in DirInfo /\ dms \in Seq(DirEntry)
  BY DEF Gives, DirInfo
<1>2. PICK y : Heading(rs1, y) /\ Cuts(b1, rs1, y, first)
  BY CutsIt
<1>3. Opens(built) /\ \E mods, open : /\ Leads(built, << >>, << >>, mods, open)
                                      /\ mods \o open = SavedUpto(dms, Len(dms))
  BY <1>1, LeadsBuilt
<1>4. PICK mods, open : /\ Leads(built, << >>, << >>, mods, open)
                        /\ mods \o open = SavedUpto(dms, Len(dms))
  BY <1>3
<1>5. PICK w : /\ Rebuilt(rs1, rs2, y, w) /\ Walks(built, w)
               /\ (ModulesAre(rs2, << >>, << >>, y - 1) => ModulesAre(rs2, mods, open, Len(rs2)))
  BY <1>2, <1>3, <1>4, RebuiltIs
<1>6. di2.ProjectInfoRaw = first.ProjectInfoRaw /\ di2.RefsRaw = first.RefsRaw
  BY <1>2, <1>3, <1>5, SpansBack
<1>7. ASSUME InOrder(rs1)
      PROVE  di2 = [first EXCEPT !.Modules = [j \in DOMAIN @ |-> Saved(@[j])]]
  <2>1. /\ di2.SysKind = first.SysKind /\ di2.LCID = first.LCID
        /\ di2.CodePage = first.CodePage /\ di2.RefNames = first.RefNames
    BY <1>5, <1>7, ValuesBack
  <2>2. ModulesAre(rs2, mods, open, Len(rs2))
    BY <1>5, <1>7, NoneOpened
  <2>3. di2.Modules = SavedUpto(dms, Len(dms))
    <3>1. rs2 \in Seq(Numbered) /\ di2.Modules = D!DirModules(AbstractAll(rs2))
      BY DEF Gives
    <3> QED
      BY <1>4, <2>2, <3>1, ModulesDeclared
  <2>4. SavedUpto(dms, Len(dms)) = [j \in DOMAIN dms |-> Saved(dms[j])]
    <3>1. DOMAIN dms = 1 .. Len(dms)
      BY <1>1, LenProperties
    <3> HIDE DEF dms
    <3> QED
      BY <3>1 DEF SavedUpto
  <2>5. di2 \in DirInfo
    BY DEF Gives
  <2> DEFINE now == [j \in DOMAIN dms |-> Saved(dms[j])]
  <2>6. di2.Modules = now
    BY <2>3, <2>4
  <2>7. [first EXCEPT !.Modules = [j \in DOMAIN @ |-> Saved(@[j])]] = [first EXCEPT !.Modules = now]
    OBVIOUS
  <2> HIDE DEF now
  <2>8. di2 = [first EXCEPT !.Modules = now]
    BY <1>1, <1>6, <2>1, <2>5, <2>6 DEF DirInfo
  <2> QED
    BY <2>7, <2>8
<1> QED
  BY <1>6, <1>7

-----------------------------------------------------------------------------
(***************************************************************************)
(* The inductive invariant of the splice.                                  *)
(***************************************************************************)

\* What the records rs and the walk from e on get is the walk over all of b.
Rest(b, rs, e) ==
  \E f : /\ IsWalk(b, f, 0) /\ Walk(b) = f[0] /\ e \in 0 .. Len(b) + 6
         /\ f[0] = Found(rs) \o f[e]

\* Entries whose names fit in their fields.
SizedEntry == {e \in DirEntry : SizesFit(e)}

\* The two numbers of the project, behind the first m records.
NumbersSeen(m) ==
  /\ di.SysKind = D!LastVal(Low(recs), SysKind, 1, m, 0)
  /\ di.LCID = D!LastVal(Low(recs), LCID, 1, m, 0)

\* The first Read.
InFirst ==
  before = << >> =>
    /\ plain = origin.plain /\ di.Modules \in Seq(SizedEntry) /\ cur \in Seq(SizedEntry)
    /\ stage # "walk" /\ origin.kind # "changed" /\ InOrder(origin.made) => InOrder(recs)

\* The second one, of what Write has made of the first.
InSecond ==
  before # << >> =>
    \E first, rs :
      /\ before = << first >> /\ plain = BuiltDir(first)
      /\ Gives(origin.plain, rs, first) /\ first.Modules \in Seq(SizedEntry)
      /\ origin.kind # "changed" /\ InOrder(origin.made) => InOrder(rs)

\* The records are what the walk takes at their places.
Taken == \A j \in 1 .. Len(recs) : ReadsAt(plain, recs[j])

\* The inductive invariant.
SpliceInv ==
  /\ (\E input \in Inputs : origin = input.dir) /\ (verdict = "idle" \/ stage = "parsed")
  /\ Taken
  /\ stage = "walk" => Rest(plain, recs, i)
  /\ stage # "walk" => Found(recs) = Walk(plain)
  /\ stage = "parse" => NumbersSeen(k - 1)
  /\ stage = "parsed" => Gives(plain, recs, di)
  /\ InFirst /\ InSecond

\* Before the first record all is to be walked.
LEMMA RestAtStart ==
  ASSUME NEW b \in Seq(Byte)
  PROVE  Rest(b, << >>, 0)
<1>1. PICK f : IsWalk(b, f, 0) /\ Walk(b) = f[0]
  BY WalkIs
<1>2. 0 \in 0 .. Len(b) + 6
  BY LenProperties
<1>3. f[0] \in Seq(FoundRecord)
  BY <1>1, <1>2 DEF IsWalk
<1>4. Found(<< >>) = << >>
  BY DEF Found
<1>5. << >> \o f[0] = f[0]
  BY <1>3, ConcatEmptySeq
<1> QED
  BY <1>1, <1>2, <1>4, <1>5 DEF Rest

\* PROJECTVERSION is walked over.
LEMMA RestAfterVersion ==
  ASSUME NEW b \in Seq(Byte), NEW rs, NEW e, Rest(b, rs, e), e + 6 <= Len(b), IdAt(b, e) = Version
  PROVE  Rest(b, rs, e + 12)
<1>1. PICK f : /\ IsWalk(b, f, 0) /\ Walk(b) = f[0] /\ e \in 0 .. Len(b) + 6
               /\ f[0] = Found(rs) \o f[e]
  BY DEF Rest
<1>2. e + 12 \in 0 .. Len(b) + 6 /\ ~(e + 6 > Len(b))
  BY <1>1, LenProperties
<1>3. f[e] = f[e + 12]
  BY <1>1, <1>2 DEF IsWalk, WalkAt
<1> QED
  BY <1>1, <1>2, <1>3 DEF Rest

\* A record is taken.
LEMMA RestAfterRecord ==
  ASSUME NEW b \in Seq(Byte), NEW rs \in Seq(Numbered), NEW e, Rest(b, rs, e), e + 6 <= Len(b),
         IdAt(b, e) # Version, EndAt(b, e) <= Len(b),
         NEW r \in Numbered, r.id = IdAt(b, e), r.payload = Slice(b, e + 6, EndAt(b, e))
  PROVE  Rest(b, Append(rs, r), EndAt(b, e))
<1> DEFINE y == EndAt(b, e)
           c == [id |-> r.id, payload |-> r.payload]
<1>1. PICK f : /\ IsWalk(b, f, 0) /\ Walk(b) = f[0] /\ e \in 0 .. Len(b) + 6
               /\ f[0] = Found(rs) \o f[e]
  BY DEF Rest
<1>2. /\ e \in Nat /\ ~(e + 6 > Len(b)) /\ ~(y > Len(b)) /\ y \in 0 .. Len(b) + 6
  <2>1. e \in Nat /\ Len(b) \in Nat
    BY <1>1, LenProperties
  <2>2. y \in Nat
    BY <2>1, HeaderAt
  <2> HIDE DEF y
  <2>3. y <= Len(b)
    BY DEF y
  <2> QED
    BY <2>1, <2>2, <2>3
<1>3. f[e] = << c >> \o f[y]
  <2>1. f[e] = WalkAt(b, f, e)
    BY <1>1 DEF IsWalk
  <2> QED
    BY <1>2, <2>1 DEF WalkAt
<1>4. c \in FoundRecord
  BY DEF Numbered, FoundRecord
<1>5. Found(Append(rs, r)) = Append(Found(rs), c)
  BY FoundMore
<1>6. Found(rs) \in Seq(FoundRecord) /\ f[y] \in Seq(FoundRecord)
  BY <1>1, <1>2, FoundPart DEF IsWalk
<1> HIDE DEF c, y
<1>7. Append(Found(rs), c) \o f[y] = Found(rs) \o (<< c >> \o f[y])
  <2>1. Append(Found(rs), c) = Found(rs) \o << c >>
    BY <1>4, <1>6, AppendIsConcat
  <2>2. << c >> \in Seq(FoundRecord)
    BY <1>4
  <2>3. \A p, q, t \in Seq(FoundRecord) : (p \o q) \o t = p \o (q \o t)
    BY ConcatAssociative
  <2>4. (Found(rs) \o << c >>) \o f[y] = Found(rs) \o (<< c >> \o f[y])
    BY <1>6, <2>2, <2>3
  <2> QED
    BY <2>1, <2>4
<1>8. Rest(b, Append(rs, r), y)
  BY <1>1, <1>2, <1>3, <1>5, <1>7 DEF Rest
<1> QED
  BY <1>8 DEF y

\* Where no record fits, all has been walked.
LEMMA RestAtEnd ==
  ASSUME NEW b \in Seq(Byte), NEW rs \in Seq(Numbered), NEW e, Rest(b, rs, e),
         e + 6 <= Len(b) => IdAt(b, e) # Version /\ EndAt(b, e) > Len(b)
  PROVE  Found(rs) = Walk(b)
<1>1. PICK f : /\ IsWalk(b, f, 0) /\ Walk(b) = f[0] /\ e \in 0 .. Len(b) + 6
               /\ f[0] = Found(rs) \o f[e]
  BY DEF Rest
<1>2. e + 6 > Len(b) \/ e + 6 <= Len(b)
  BY <1>1, LenProperties
<1>3. f[e] = << >>
  BY <1>1, <1>2 DEF IsWalk, WalkAt
<1>4. Found(rs) \in Seq(FoundRecord)
  BY FoundPart
<1>5. Found(rs) \o << >> = Found(rs)
  BY <1>4, ConcatEmptySeq
<1> QED
  BY <1>1, <1>3, <1>5

\* In order, the records found in the stream of an input are in order too.
LEMMA FoundInOrder ==
  ASSUME NEW d, IsStream(d), InOrder(d.made), NEW j \in 0 .. Len(d.made)
  PROVE  InOrder(Sized(SubSeq(d.made, 1, j)))
<1> DEFINE made == d.made
           sized(n) == Sized(SubSeq(made, 1, n))
           From(n) == \A x \in DOMAIN sized(n) : \E l \in 1 .. n : sized(n)[x].id = made[l].id
           Good(n) == InOrder(sized(n)) /\ From(n)
<1>1. /\ Len(made) \in Nat /\ DOMAIN made = 1 .. Len(made)
      /\ \A l \in 1 .. Len(made) : made[l] \in RecordSet
  <2>1. made \in Seq(RecordSet)
    BY StreamParts
  <2> HIDE DEF made
  <2> QED
    BY <2>1, LenProperties, ElementOfSeq
<1>2. /\ sized(0) = << >> /\ \A n \in 0 .. Len(made) : sized(n) \in Seq(RecordSet)
      /\ \A n \in 0 .. Len(made) - 1 :
           sized(n + 1) = IF made[n + 1].id = Version THEN sized(n)
                          ELSE Append(sized(n), made[n + 1])
  BY OneMore
<1>3. \A l, n \in 1 .. Len(made) : made[l].id = ProjectModules =>
        /\ n > l => made[n].id \notin ProjectIds
        /\ n < l => made[n].id # ModuleName
  BY <1>1 DEF InOrder
<1> HIDE DEF made, sized
<1>4. Good(0)
  BY <1>2 DEF InOrder
<1>5. ASSUME NEW n \in 0 .. Len(made) - 1, Good(n)
      PROVE  Good(n + 1)
  <2> DEFINE s == sized(n)
             r == made[n + 1]
             t == sized(n + 1)
             c == Len(s)
  <2>1. n \in Nat /\ n + 1 \in 1 .. Len(made) /\ n + 1 \in 1 .. n + 1 /\ n \in 0 .. Len(made)
        /\ \A l \in 1 .. n : l \in 1 .. n + 1 /\ l \in 1 .. Len(made) /\ l < n + 1 /\ n + 1 > l
    BY <1>1
  <2>2. /\ InOrder(s) /\ \A x \in DOMAIN s : \E l \in 1 .. n : s[x].id = made[l].id
    BY <1>5
  <2>3. s \in Seq(RecordSet) /\ r \in RecordSet
    BY <1>1, <1>2, <2>1
  <2>4. c \in Nat /\ DOMAIN s = 1 .. c
    BY <2>3, LenProperties
  <2> HIDE DEF s, r, t, c
  <2>5. CASE r.id = Version
    <3>1. t = s
      BY <1>2, <2>5 DEF s, r, t
    <3>2. InOrder(t) /\ \A x \in DOMAIN t : \E l \in 1 .. n + 1 : t[x].id = made[l].id
      BY <2>1, <2>2, <3>1
    <3> QED
      BY <3>2 DEF t
  <2>6. CASE r.id # Version
    <3>1. t = Append(s, r)
      BY <1>2, <2>6 DEF s, r, t
    <3>2. /\ DOMAIN t = 1 .. c + 1 /\ t[c + 1] = r /\ \A x \in 1 .. c : t[x] = s[x]
      BY <2>3, <2>4, <3>1, AppendProperties DEF c
    <3>3. \A x \in 1 .. c + 1 : x \in 1 .. c \/ x = c + 1
      BY <2>4
    <3>4. \A x \in 1 .. c : \E l \in 1 .. n : t[x].id = made[l].id
      BY <2>2, <2>4, <3>2
    <3>5. \A x \in DOMAIN t : \E l \in 1 .. n + 1 : t[x].id = made[l].id
      BY <2>1, <3>2, <3>3, <3>4 DEF r
    <3>6. ASSUME NEW x \in 1 .. c + 1, NEW z \in 1 .. c + 1, t[x].id = ProjectModules
          PROVE  (z > x => t[z].id \notin ProjectIds) /\ (z < x => t[z].id # ModuleName)
      <4>1. CASE x \in 1 .. c /\ z \in 1 .. c
        BY <2>2, <2>4, <3>2, <3>6, <4>1 DEF InOrder
      <4>2. CASE x \in 1 .. c /\ z = c + 1
        <5>1. PICK l \in 1 .. n : t[x].id = made[l].id
          BY <3>4, <4>2
        <5>2. r.id \notin ProjectIds
          BY <1>3, <2>1, <3>6, <5>1 DEF r
        <5>3. ~(z < x)
          BY <2>4, <4>2
        <5> QED
          BY <3>2, <4>2, <5>2, <5>3
      <4>3. CASE x = c + 1 /\ z \in 1 .. c
        <5>1. PICK l \in 1 .. n : t[z].id = made[l].id
          BY <3>4, <4>3
        <5>2. made[l].id # ModuleName
          BY <1>3, <2>1, <3>2, <3>6, <4>3, <5>1 DEF r
        <5>3. ~(z > x)
          BY <2>4, <4>3
        <5> QED
          BY <5>1, <5>2, <5>3
      <4>4. CASE x = c + 1 /\ z = c + 1
        BY <2>4, <4>4
      <4> QED
        BY <3>3, <4>1, <4>2, <4>3, <4>4
    <3>7. InOrder(t)
      BY <3>2, <3>6 DEF InOrder
    <3> QED
      BY <3>5, <3>7 DEF t
  <2> QED
    BY <2>5, <2>6
<1> HIDE DEF Good
<1>6. \A n \in 0 .. Len(made) : Good(n)
  <2> DEFINE T == {n \in 0 .. Len(made) : ~Good(n)}
  <2> SUFFICES ASSUME T # {}
               PROVE  FALSE
    OBVIOUS
  <2>1. T \in SUBSET Nat
    OBVIOUS
  <2>2. PICK x \in T : \A y \in T : x <= y
    BY <2>1, LeastOf
  <2>3. x \in 0 .. Len(made) /\ ~Good(x) /\ x # 0
    BY <1>4, <2>2
  <2>4. /\ x - 1 \in 0 .. Len(made) - 1 /\ x - 1 \in 0 .. Len(made) /\ x - 1 < x
        /\ (x - 1) + 1 = x
    BY <1>1, <2>3
  <2>5. Good(x - 1)
    BY <2>2, <2>4
  <2> QED
    BY <1>5, <2>3, <2>4, <2>5
<1>7. Good(j)
  BY <1>6 DEF made
<1> QED
  BY <1>7 DEF Good, sized, made

\* The start of a Read, the first or the second.
FreshRead ==
  /\ stage = "walk" /\ i = 0 /\ recs = << >> /\ plain \in Seq(Byte) /\ verdict = "idle"
  /\ (\E input \in Inputs : origin = input.dir) /\ InFirst /\ InSecond

\* Nothing has been taken.
LEMMA FreshKeeps == FreshRead => SpliceInv
<1> SUFFICES ASSUME FreshRead
             PROVE  SpliceInv
  OBVIOUS
<1>1. Rest(plain, recs, i)
  BY RestAtStart DEF FreshRead
<1>2. Taken
  BY DEF FreshRead, Taken
<1> QED
  BY <1>1, <1>2 DEF FreshRead, SpliceInv

\* SpliceInv holds at the start.
LEMMA SpliceInit == Init => SpliceInv
<1> SUFFICES ASSUME Init
             PROVE  SpliceInv
  OBVIOUS
<1>1. PICK input \in Inputs : origin = input.dir
  BY DEF Init
<1>2. origin.plain \in Seq(Byte)
  BY <1>1, StreamsAssumption DEF StreamsAssumption, IsStream
<1>3. /\ stage = "walk" /\ i = 0 /\ recs = << >> /\ cur = << >> /\ di = NoInfo /\ verdict = "idle"
      /\ plain = origin.plain /\ before = << >>
  BY DEF Init, Called, Fresh
<1>4. di.Modules \in Seq(SizedEntry) /\ cur \in Seq(SizedEntry)
  BY <1>3 DEF NoInfo
<1>5. InFirst /\ InSecond
  BY <1>3, <1>4 DEF InFirst, InSecond
<1>6. FreshRead
  BY <1>1, <1>2, <1>3, <1>5 DEF FreshRead
<1> QED
  BY <1>6, FreshKeeps

\* What leaves the parser alone keeps it.
LEMMA SpliceKept ==
  ASSUME SpliceInv, UNCHANGED << dirVars, origin, before >>, verdict' = "idle" \/ stage = "parsed"
  PROVE  SpliceInv'
<1>1. /\ plain' = plain /\ stage' = stage /\ i' = i /\ recs' = recs /\ k' = k /\ cur' = cur
      /\ di' = di /\ origin' = origin /\ before' = before
  BY DEF dirVars, loops
<1>2. Taken' /\ InFirst' /\ InSecond' /\ (NumbersSeen(k - 1)' <=> NumbersSeen(k - 1))
  BY <1>1 DEF SpliceInv, Taken, InFirst, InSecond, NumbersSeen
<1> QED
  BY <1>1, <1>2 DEF SpliceInv

\* Before the loop nothing has been seen.
LEMMA NoNumbers ==
  ASSUME recs \in Seq(Numbered), di = NoInfo
  PROVE  NumbersSeen(0)
<1>1. Len(recs) \in Nat /\ DOMAIN Low(recs) = 1 .. Len(recs)
  BY LenProperties DEF Low
<1>2. \A id : D!LastVal(Low(recs), id, 1, 0, 0) = 0
  <2>1. 0 < 1 /\ 0 \in Nat /\ 1 \in Nat
    OBVIOUS
  <2> QED
    BY <1>1, <2>1, LastValNone
<1> QED
  BY <1>2 DEF NumbersSeen, NoInfo

\* In the first Read of a stream without a wrong byte the walk keeps the order.
LEMMA WalkedInOrder ==
  ASSUME WalkInv, SpliceInv, stage = "walk", before = << >>,
         origin.kind # "changed", InOrder(origin.made)
  PROVE  InOrder(recs)
<1>1. PICK input \in Inputs : origin = input.dir
  BY DEF SpliceInv
<1>2. IsStream(origin)
  BY <1>1, StreamsAssumption DEF StreamsAssumption
<1>3. FirstRead
  BY <1>2 DEF FirstRead, IsStream
<1>4. PICK j \in 0 .. Len(origin.made) : Behind(j)
  BY <1>3 DEF WalkInv
<1>5. InOrder(Found(recs))
  BY <1>2, <1>4, FoundInOrder DEF Behind
<1> QED
  BY <1>5 DEF InOrder, Found

\* The steps of the walk.
LEMMA SpliceWalk ==
  ASSUME WalkInv, DirInv, SpliceInv, SkipVersion \/ CutRecord \/ WalkEnds,
         UNCHANGED << encVars, origin, before >>
  PROVE  SpliceInv'
<1>1. plain \in Seq(Byte) /\ recs \in Seq(Numbered) /\ i \in Nat
  BY DEF DirInv, StandsAt
<1>2. /\ stage = "walk" /\ plain' = plain /\ k' = k /\ cur' = cur /\ di' = di
      /\ origin' = origin /\ before' = before /\ verdict' = verdict
  BY DEF SkipVersion, CutRecord, WalkEnds, loops, encVars
<1>3. /\ k = 1 /\ di = NoInfo /\ Taken /\ Rest(plain, recs, i)
      /\ verdict = "idle" /\ \E input \in Inputs : origin' = input.dir
  BY <1>2 DEF DirInv, SpliceInv
<1>4. InSecond'
  BY <1>2 DEF SpliceInv, InSecond
<1>5. CASE SkipVersion
  <2>1. i' = i + 12 /\ recs' = recs /\ stage' = "walk"
    BY <1>2, <1>5 DEF SkipVersion
  <2>2. i + 6 <= Len(plain) /\ IdAt(plain, i) = Version
    BY <1>5 DEF SkipVersion, HeaderFits, Id, IdAt
  <2>3. Rest(plain, recs, i + 12)
    BY <1>1, <1>3, <2>2, RestAfterVersion
  <2>4. InFirst'
    BY <1>2, <2>1 DEF SpliceInv, InFirst
  <2>5. Taken'
    BY <1>2, <1>3, <2>1 DEF Taken
  <2> QED
    BY <1>2, <1>3, <1>4, <2>1, <2>3, <2>4, <2>5 DEF SpliceInv
<1>6. CASE CutRecord
  <2> DEFINE r == [id |-> IdAt(plain, i), start |-> i,
                   payload |-> Slice(plain, i + 6, EndAt(plain, i))]
  <2>1. stage' = "walk" /\ i' = EndAt(plain, i)
    BY <1>2, <1>6 DEF CutRecord, Size, EndAt
  <2>2. recs' = Append(recs, r)
    BY <1>6 DEF CutRecord, Id, IdAt, Size, EndAt
  <2>3. i + 6 <= Len(plain) /\ IdAt(plain, i) # Version /\ EndAt(plain, i) <= Len(plain)
    BY <1>6 DEF CutRecord, HeaderFits, Id, IdAt, PayloadFits, Size, EndAt
  <2>4. /\ r.id = IdAt(plain, i) /\ r.start = i
        /\ r.payload = Slice(plain, i + 6, EndAt(plain, i)) /\ r \in Numbered
    <3>1. [id |-> IdAt(plain, i), payload |-> Slice(plain, i + 6, EndAt(plain, i))] \in FoundRecord
      BY <1>1, <2>3, HeaderAt
    <3>2. IdAt(plain, i) \in Nat /\ Slice(plain, i + 6, EndAt(plain, i)) \in Seq(Byte)
      BY <3>1 DEF FoundRecord
    <3> QED
      BY <1>1, <3>2 DEF Numbered
  <2> HIDE DEF r
  <2>5. Rest(plain, recs', i')
    BY <1>1, <1>3, <2>1, <2>2, <2>3, <2>4, RestAfterRecord
  <2>6. ReadsAt(plain, r)
    BY <2>3, <2>4 DEF ReadsAt
  <2>7. Taken'
    <3>1. /\ Len(recs) \in Nat /\ Len(recs') = Len(recs) + 1 /\ recs'[Len(recs) + 1] = r
          /\ \A j \in 1 .. Len(recs) : recs'[j] = recs[j]
      BY <1>1, <2>2, <2>4, AppendProperties, LenProperties
    <3>2. \A j \in 1 .. Len(recs) + 1 : j \in 1 .. Len(recs) \/ j = Len(recs) + 1
      BY <3>1
    <3>3. \A j \in 1 .. Len(recs) : ReadsAt(plain, recs[j])
      BY <1>3 DEF Taken
    <3>4. \A j \in 1 .. Len(recs') : ReadsAt(plain, recs'[j])
      BY <2>6, <3>1, <3>2, <3>3
    <3> QED
      BY <1>2, <3>4 DEF Taken
  <2>8. InFirst'
    BY <1>2, <2>1 DEF SpliceInv, InFirst
  <2> QED
    BY <1>2, <1>3, <1>4, <2>1, <2>5, <2>7, <2>8 DEF SpliceInv
<1>7. CASE WalkEnds
  <2>1. i' = i /\ recs' = recs /\ stage' = "parse"
    BY <1>7 DEF WalkEnds
  <2>2. i + 6 <= Len(plain) => IdAt(plain, i) # Version /\ ~(EndAt(plain, i) <= Len(plain))
    BY <1>7 DEF WalkEnds, HeaderFits, Id, IdAt, PayloadFits, Size, EndAt
  <2>3. i + 6 <= Len(plain) => IdAt(plain, i) # Version /\ EndAt(plain, i) > Len(plain)
    <3>1. i + 6 <= Len(plain) => EndAt(plain, i) \in Nat
      BY <1>1, HeaderAt
    <3>2. Len(plain) \in Nat
      BY <1>1, LenProperties
    <3> QED
      BY <2>2, <3>1, <3>2
  <2>4. Found(recs) = Walk(plain)
    BY <1>1, <1>3, <2>3, RestAtEnd
  <2>5. NumbersSeen(k - 1)'
    <3>1. NumbersSeen(0) /\ k - 1 = 0
      BY <1>1, <1>3, NoNumbers
    <3> QED
      BY <1>2, <2>1, <3>1 DEF NumbersSeen
  <2>6. InFirst'
    <3>1. before = << >> /\ origin.kind # "changed" /\ InOrder(origin.made) => InOrder(recs)
      BY <1>2, WalkedInOrder
    <3> QED
      BY <1>2, <2>1, <3>1 DEF SpliceInv, InFirst
  <2>7. Taken'
    BY <1>2, <1>3, <2>1 DEF Taken
  <2> QED
    BY <1>2, <1>3, <1>4, <2>1, <2>4, <2>5, <2>6, <2>7 DEF SpliceInv
<1> QED
  BY <1>5, <1>6, <1>7

\* What the loop does with the two numbers of the project.
LEMMA NumbersEffect ==
  ASSUME di \in DirInfo,
         \/ TakeSysKind \/ TakeLCID \/ TakeCodePage \/ TakeReferenceName \/ EndReferences
         \/ OpenModule \/ TakeStreamName \/ TakeOffset \/ TakeType \/ PassOver
  PROVE  /\ di'.SysKind = IF R.id = SysKind THEN le32(R.payload) ELSE di.SysKind
         /\ di'.LCID = IF R.id = LCID THEN le32(R.payload) ELSE di.LCID
<1> DEFINE r == R
<1>1. CASE TakeSysKind
  <2>1. r.id = SysKind /\ di' = [di EXCEPT !.SysKind = le32(r.payload)] /\ r.id # LCID
    BY <1>1, Ids DEF TakeSysKind, Looking
  <2> HIDE DEF r
  <2>2. di'.SysKind = le32(r.payload) /\ di'.LCID = di.LCID
    BY <2>1 DEF DirInfo
  <2> QED
    BY <2>1, <2>2 DEF r
<1>2. CASE TakeLCID
  <2>1. r.id = LCID /\ di' = [di EXCEPT !.LCID = le32(r.payload)] /\ r.id # SysKind
    BY <1>2, Ids DEF TakeLCID, Looking
  <2> HIDE DEF r
  <2>2. di'.LCID = le32(r.payload) /\ di'.SysKind = di.SysKind
    BY <2>1 DEF DirInfo
  <2> QED
    BY <2>1, <2>2 DEF r
<1>3. CASE TakeCodePage \/ TakeReferenceName \/ OpenModule
  <2>1. r.id # SysKind /\ r.id # LCID
    BY <1>3, Ids DEF TakeCodePage, TakeReferenceName, OpenModule, Looking
  <2>2. \E v : \/ di' = [di EXCEPT !.CodePage = v]
               \/ di' = [di EXCEPT !.RefNames = v]
               \/ di' = [di EXCEPT !.Modules = v]
    BY <1>3 DEF TakeCodePage, TakeReferenceName, OpenModule
  <2> HIDE DEF r
  <2>3. di'.LCID = di.LCID /\ di'.SysKind = di.SysKind
    BY <2>2 DEF DirInfo
  <2> QED
    BY <2>1, <2>3 DEF r
<1>4. CASE EndReferences \/ TakeStreamName \/ TakeOffset \/ TakeType \/ PassOver
  <2>1. r.id # SysKind /\ r.id # LCID
    BY <1>4, Ids DEF EndReferences, TakeStreamName, TakeOffset, TakeType, TakeField, PassOver,
                     Looking, Known, Fields
  <2>2. di' = di
    BY <1>4 DEF EndReferences, TakeStreamName, TakeOffset, TakeType, TakeField, PassOver
  <2> QED
    BY <2>1, <2>2 DEF r
<1> QED
  BY <1>1, <1>2, <1>3, <1>4

\* In a stream of an input every name is short enough, in UTF-16 too.
LEMMA NamesFit ==
  ASSUME NEW input \in Inputs, NEW r \in Numbered, ReadsAt(input.dir.plain, r)
  PROVE  2 * Len(r.payload) < Base * Base * Base * Base
<1> DEFINE b == input.dir.plain
           top == Base * Base * Base * Base
           y == EndAt(b, r.start)
<1>1. b \in Seq(Byte) /\ 2 * Len(b) < top
  BY StreamsAssumption, SizesAssumption DEF StreamsAssumption, SizesAssumption, IsStream
<1>2. top \in Nat
  BY SmallFits
<1>3. /\ r.start + 6 <= Len(b) /\ y <= Len(b) /\ r.payload = Slice(b, r.start + 6, y)
      /\ r.start \in Nat
  BY DEF ReadsAt, Numbered
<1> HIDE DEF b, top
<1>4. y \in Nat /\ y >= r.start + 6 /\ Len(b) \in Nat
  BY <1>1, <1>3, HeaderAt, LenProperties
<1> HIDE DEF y
<1>5. Len(r.payload) = y - (r.start + 6)
  <2>1. r.start + 6 \in Nat /\ y \in r.start + 6 .. Len(b)
    BY <1>3, <1>4
  <2> QED
    BY <1>1, <1>3, <2>1, SliceIs
<1>6. 2 * Len(r.payload) < top
  BY <1>1, <1>2, <1>3, <1>4, <1>5
<1> QED
  BY <1>6 DEF top

\* So do the names of the entries that the loop makes of the records.
LEMMA EntriesFit ==
  ASSUME Effect, DirTyped, DirTyped', di.Modules \in Seq(SizedEntry), cur \in Seq(SizedEntry),
         2 * Len(R.payload) < Base * Base * Base * Base
  PROVE  di'.Modules \in Seq(SizedEntry) /\ cur' \in Seq(SizedEntry)
<1> DEFINE r == R
<1>1. CASE r.id = ModuleName
  <2>1. di'.Modules = di.Modules \o cur /\ cur' = << EntryOf(r) >>
    BY <1>1 DEF Effect
  <2>2. SizesFit(EntryOf(r))
    <3>1. 2 * Len(<< >>) < Base * Base * Base * Base
      BY SmallFits
    <3> QED
      BY <3>1 DEF SizesFit, EntryOf
  <2> HIDE DEF r
  <2>3. EntryOf(r) \in DirEntry
    <3>1. \E e \in DirEntry : cur' = << e >>
      BY <2>1 DEF DirTyped
    <3> QED
      BY <2>1, <3>1
  <2>4. << EntryOf(r) >> \in Seq(SizedEntry)
    <3> DEFINE e == EntryOf(r)
    <3>1. e \in SizedEntry
      BY <2>2, <2>3 DEF SizedEntry
    <3> HIDE DEF e
    <3> QED
      BY <3>1 DEF e
  <2>5. di.Modules \o cur \in Seq(SizedEntry)
    BY ConcatProperties
  <2> QED
    BY <2>1, <2>4, <2>5
<1>2. CASE r.id # ModuleName /\ cur = << >>
  BY <1>2 DEF Effect
<1>3. CASE r.id # ModuleName /\ cur # << >>
  <2>1. di'.Modules = di.Modules /\ cur' = << EntryWith(cur[1], r) >>
    BY <1>3 DEF Effect
  <2> DEFINE e == EntryWith(cur[1], r)
  <2>2. e \in DirEntry
    <3> HIDE DEF e
    <3>1. \E x \in DirEntry : cur' = << x >>
      BY <2>1 DEF DirTyped, e
    <3>2. cur' = << e >>
      BY <2>1 DEF e
    <3> QED
      BY <3>1, <3>2
  <2>3. cur[1] \in SizedEntry
    <3>1. PICK x \in DirEntry : cur = << x >>
      BY <1>3 DEF DirTyped
    <3>2. 1 \in 1 .. Len(cur)
      BY <3>1
    <3> QED
      BY <3>2, ElementOfSeq
  <2>4. SizesFit(e)
    <3>1. SizesFit(cur[1])
      BY <2>3 DEF SizedEntry
    <3>2. e.Name = cur[1].Name /\ (e.StreamName = r.payload \/ e.StreamName = cur[1].StreamName)
      BY DEF EntryWith
    <3> HIDE DEF e
    <3> QED
      BY <3>1, <3>2 DEF SizesFit
  <2> HIDE DEF e
  <2>5. << e >> \in Seq(SizedEntry)
    <3>1. e \in SizedEntry
      BY <2>2, <2>4 DEF SizedEntry
    <3> QED
      BY <3>1
  <2> QED
    BY <2>1, <2>5 DEF e
<1> QED
  BY <1>1, <1>2, <1>3

\* The steps of the loop.
LEMMA SpliceLoop ==
  ASSUME DirInv, SpliceInv,
         \/ TakeSysKind \/ TakeLCID \/ TakeCodePage \/ TakeReferenceName \/ EndReferences
         \/ OpenModule \/ TakeStreamName \/ TakeOffset \/ TakeType \/ PassOver,
         UNCHANGED << encVars, origin, before >>
  PROVE  SpliceInv'
<1>1. recs \in Seq(Numbered) /\ DirTyped /\ di \in DirInfo /\ Len(recs) \in Nat
  BY LenProperties DEF DirInv, StandsAt, DirTyped
<1>2. stage = "parse" /\ k <= Len(recs) /\ Advance
  BY DEF TakeSysKind, TakeLCID, TakeCodePage, TakeReferenceName, EndReferences,
         OpenModule, TakeStreamName, TakeOffset, TakeType, TakeField, PassOver, Looking
<1>3. /\ k' = k + 1 /\ plain' = plain /\ stage' = stage /\ i' = i /\ recs' = recs
      /\ origin' = origin /\ before' = before /\ verdict' = verdict
  BY <1>2 DEF Advance, encVars
<1>4. k \in 1 .. Len(recs)
  BY <1>1, <1>2 DEF DirInv
<1>5. Effect /\ DirTyped'
  BY <1>1, <1>4, StepEffect
<1>6. NumbersSeen(k - 1)'
  <2> DEFINE s == Low(recs)
             m == k - 1
             r == R
  <2>1. m \in Nat /\ m + 1 = k /\ m + 1 \in 1 .. Len(recs) /\ 1 <= m + 1 /\ k' - 1 = k
    BY <1>1, <1>3, <1>4
  <2>2. DOMAIN s = 1 .. Len(recs) /\ s[m + 1].id = r.id /\ s[m + 1].val = le32(r.payload)
    BY <1>1, <2>1, LenProperties DEF Low, R
  <2>3. NumbersSeen(m)
    BY <1>2 DEF SpliceInv
  <2>4. /\ di'.SysKind = IF r.id = SysKind THEN le32(r.payload) ELSE di.SysKind
        /\ di'.LCID = IF r.id = LCID THEN le32(r.payload) ELSE di.LCID
    BY <1>1, NumbersEffect
  <2> HIDE DEF s, m, r
  <2>5. \A id : D!LastVal(s, id, 1, m + 1, 0)
                  = IF s[m + 1].id = id THEN s[m + 1].val ELSE D!LastVal(s, id, 1, m, 0)
    BY <1>1, <2>1, <2>2, LastValMore
  <2>6. /\ di.SysKind = D!LastVal(s, SysKind, 1, m, 0)
        /\ di.LCID = D!LastVal(s, LCID, 1, m, 0)
    BY <2>3 DEF NumbersSeen, s
  <2>7. /\ di'.SysKind = D!LastVal(s, SysKind, 1, m + 1, 0)
        /\ di'.LCID = D!LastVal(s, LCID, 1, m + 1, 0)
    BY <2>2, <2>4, <2>5, <2>6
  <2>8. (k - 1)' = m + 1 /\ Low(recs)' = s
    BY <1>3, <2>1 DEF s
  <2> QED
    BY <2>7, <2>8 DEF NumbersSeen
<1>7. InFirst'
  <2> SUFFICES ASSUME before = << >>
               PROVE  InFirst'
    BY <1>3 DEF InFirst
  <2>1. /\ plain = origin.plain /\ di.Modules \in Seq(SizedEntry) /\ cur \in Seq(SizedEntry)
        /\ (origin.kind # "changed" /\ InOrder(origin.made) => InOrder(recs))
    BY <1>2 DEF SpliceInv, InFirst
  <2>2. PICK input \in Inputs : origin = input.dir
    BY DEF SpliceInv
  <2>3. R \in Numbered /\ ReadsAt(input.dir.plain, R)
    BY <1>1, <1>4, <2>1, <2>2, ElementOfSeq DEF SpliceInv, Taken, R
  <2>4. 2 * Len(R.payload) < Base * Base * Base * Base
    BY <2>3, NamesFit
  <2>5. di'.Modules \in Seq(SizedEntry) /\ cur' \in Seq(SizedEntry)
    BY <1>1, <1>5, <2>1, <2>4, EntriesFit
  <2> QED
    BY <1>3, <2>1, <2>5 DEF InFirst
<1>8. InSecond' /\ Taken'
  BY <1>3 DEF SpliceInv, InSecond, Taken
<1> QED
  BY <1>2, <1>3, <1>6, <1>7, <1>8 DEF SpliceInv

\* The last flush: what the Read gives.
LEMMA SpliceParseEnds ==
  ASSUME DirInv, DirInv', SpliceInv, ParseEnds, UNCHANGED << encVars, origin, before >>
  PROVE  SpliceInv'
<1> DEFINE n == Len(recs)
           info == SpanUpto(plain, IF refStart < 0 THEN refEnd ELSE refStart)
           refs == SpanOf(plain, refStart, refEnd)
           mods == di.Modules \o cur
<1>1. plain \in Seq(Byte) /\ recs \in Seq(Numbered) /\ n \in Nat /\ Walked(plain, recs)
  BY LenProperties DEF DirInv, StandsAt
<1>2. /\ stage = "parse" /\ k > n /\ cur' = << >> /\ stage' = "parsed"
      /\ plain' = plain /\ i' = i /\ recs' = recs /\ k' = k
      /\ origin' = origin /\ before' = before /\ verdict' = verdict
  BY DEF ParseEnds, encVars
<1>3. di' = [di EXCEPT !.Modules = mods, !.ProjectInfoRaw = info, !.RefsRaw = refs]
  <2>1. Spans.ProjectInfoRaw = info /\ Spans.RefsRaw = refs
    BY DEF Spans, SpanUpto, SpanOf, InfoEnd
  <2> HIDE DEF info, refs
  <2> QED
    BY <2>1 DEF ParseEnds
<1>4. k - 1 = n /\ Seen(recs, n) /\ NumbersSeen(n)
  <2>1. k \in 1 .. Len(recs) + 1 /\ Seen(recs, k - 1)
    BY <1>2 DEF DirInv
  <2>2. k - 1 = n
    BY <1>1, <1>2, <2>1
  <2> QED
    BY <1>2, <2>1, <2>2 DEF SpliceInv
<1>5. di \in DirInfo /\ di' \in DirInfo
  BY DEF DirInv, DirTyped
<1> HIDE DEF info, refs, mods
<1>6. /\ di'.SysKind = di.SysKind /\ di'.LCID = di.LCID
      /\ di'.Modules = mods /\ di'.ProjectInfoRaw = info /\ di'.RefsRaw = refs
  BY <1>3, <1>5 DEF DirInfo
<1>7. /\ di'.CodePage = D!CodePage(AbstractAll(recs))
      /\ di'.RefNames = D!RefNames(AbstractAll(recs))
      /\ di'.Modules = D!DirModules(AbstractAll(recs))
  <2>1. ParsesAsDeclared'
    BY DEF DirInv
  <2>2. AbstractAll(recs)' = AbstractAll(recs)
    BY <1>2
  <2> QED
    BY <1>2, <2>1, <2>2 DEF ParsesAsDeclared
<1>8. MarkIs(recs, refStart, ReferenceName, n) /\ MarkIs(recs, refEnd, ProjectModules, n)
  BY <1>4 DEF Seen
<1>9. Found(recs) = Walk(plain) /\ \A j \in 1 .. n : ReadsAt(plain, recs[j])
  BY <1>2 DEF SpliceInv, Taken
<1>10. Gives(plain, recs, di')
  <2>1. \E from, to :
          /\ MarkIs(recs, from, ReferenceName, n) /\ MarkIs(recs, to, ProjectModules, n)
          /\ di'.ProjectInfoRaw = SpanUpto(plain, IF from < 0 THEN to ELSE from)
          /\ di'.RefsRaw = SpanOf(plain, from, to)
    BY <1>6, <1>8 DEF info, refs
  <2>2. /\ di'.SysKind = D!LastVal(Low(recs), SysKind, 1, n, 0)
        /\ di'.LCID = D!LastVal(Low(recs), LCID, 1, n, 0)
    BY <1>4, <1>6 DEF NumbersSeen
  <2> QED
    BY <1>1, <1>5, <1>7, <1>9, <2>1, <2>2 DEF Gives
<1>11. InFirst'
  <2> SUFFICES ASSUME before = << >>
               PROVE  InFirst'
    BY <1>2 DEF InFirst
  <2>1. /\ plain = origin.plain /\ di.Modules \in Seq(SizedEntry) /\ cur \in Seq(SizedEntry)
        /\ (origin.kind # "changed" /\ InOrder(origin.made) => InOrder(recs))
    BY <1>2 DEF SpliceInv, InFirst
  <2>2. di'.Modules \in Seq(SizedEntry) /\ cur' \in Seq(SizedEntry)
    BY <1>2, <1>6, <2>1, ConcatProperties DEF mods
  <2> QED
    BY <1>2, <2>1, <2>2 DEF InFirst
<1>12. InSecond' /\ Taken'
  BY <1>2 DEF SpliceInv, InSecond, Taken
<1> QED
  BY <1>2, <1>9, <1>10, <1>11, <1>12 DEF SpliceInv

\* Write, and the Read of what it has written.
LEMMA SpliceWrites ==
  ASSUME DirInv, SpliceInv, WriteAndRead
  PROVE  SpliceInv'
<1>1. /\ before = << >> /\ before' = << di >> /\ plain' = BuiltDir(di) /\ origin' = origin
      /\ stage' = "walk" /\ i' = 0 /\ recs' = << >> /\ verdict' = "idle"
  BY DEF WriteAndRead, Fresh
<1>2. stage = "parsed"
  BY DEF WriteAndRead, SpliceInv
<1>3. Gives(plain, recs, di) /\ di \in DirInfo
  BY <1>2 DEF SpliceInv, Gives
<1>4. /\ plain = origin.plain /\ di.Modules \in Seq(SizedEntry)
      /\ (origin.kind # "changed" /\ InOrder(origin.made) => InOrder(recs))
  BY <1>1, <1>2 DEF SpliceInv, InFirst
<1>5. plain' \in Seq(Byte)
  BY <1>1, <1>3, BuiltBytes
<1>6. before' # << >>
  BY <1>1
<1>7. InSecond'
  <2>1. /\ before' = << di >> /\ plain' = BuiltDir(di)
        /\ Gives(origin.plain, recs, di) /\ di.Modules \in Seq(SizedEntry)
        /\ (origin.kind # "changed" /\ InOrder(origin.made) => InOrder(recs))
    BY <1>1, <1>3, <1>4
  <2>2. \E first, rs :
          /\ before' = << first >> /\ plain' = BuiltDir(first)
          /\ Gives(origin.plain, rs, first) /\ first.Modules \in Seq(SizedEntry)
          /\ (origin.kind # "changed" /\ InOrder(origin.made) => InOrder(rs))
    BY <2>1
  <2> QED
    BY <1>1, <2>2 DEF InSecond
<1>8. FreshRead'
  BY <1>1, <1>5, <1>6, <1>7 DEF FreshRead, InFirst, SpliceInv
<1>9. (FreshRead => SpliceInv)'
  BY FreshKeeps, PTL
<1> QED
  BY <1>8, <1>9

\* Every step of both Reads and of the Write between them keeps it.
LEMMA SpliceStep == WalkInv /\ DirInv /\ DirInv' /\ SpliceInv /\ [Next]_vars => SpliceInv'
<1> SUFFICES ASSUME WalkInv, DirInv, DirInv', SpliceInv, [Next]_vars
             PROVE  SpliceInv'
  OBVIOUS
<1>1. CASE Parse
  <2>1. DirNext /\ UNCHANGED << encVars, origin, before >>
    BY <1>1 DEF Parse
  <2>2. CASE SkipVersion \/ CutRecord \/ WalkEnds
    BY <2>1, <2>2, SpliceWalk
  <2>3. CASE \/ TakeSysKind \/ TakeLCID \/ TakeCodePage \/ TakeReferenceName \/ EndReferences
             \/ OpenModule \/ TakeStreamName \/ TakeOffset \/ TakeType \/ PassOver
    BY <2>1, <2>3, SpliceLoop
  <2>4. CASE ParseEnds
    BY <2>1, <2>4, SpliceParseEnds
  <2> QED
    BY <2>1, <2>2, <2>3, <2>4 DEF DirNext
<1>2. CASE CallProtection
  BY <1>2, SpliceKept DEF CallProtection
<1>3. CASE Protection
  <2>1. EncNext /\ UNCHANGED << dirVars, origin, before >>
    BY <1>3 DEF Protection
  <2>2. verdict = "called" \/ verdict = "decrypt"
    BY <2>1 DEF EncNext, NoRecord, NotHex, BadLength, BadHead, Begin, DecryptNext, EndsEarly,
                Overruns, DataReturned, BadState, StateReturned, Guarded, Entered, Wanted,
                Decrypted
  <2>3. stage = "parsed"
    BY <2>2 DEF SpliceInv
  <2> QED
    BY <2>1, <2>3, SpliceKept
<1>4. CASE WriteAndRead
  BY <1>4, SpliceWrites
<1>5. CASE UNCHANGED vars
  <2>1. UNCHANGED << dirVars, origin, before >> /\ verdict' = verdict
    BY <1>5 DEF vars, encVars
  <2>2. verdict' = "idle" \/ stage = "parsed"
    BY <2>1 DEF SpliceInv
  <2> QED
    BY <2>1, <2>2, SpliceKept
<1> QED
  BY <1>1, <1>2, <1>3, <1>4, <1>5 DEF Next

\* The inductive invariant of the splice holds through the Read, the Write and
\* the second Read: what the walk has taken and not yet taken, what the first
\* Read gave, and that the second goes through what Write made of it.
THEOREM SpliceInvariant == FairSpec => []SpliceInv
BY WalkInvariant, DirInvariant, SpliceInit, SpliceStep, PTL DEF FairSpec

\* What the second Read gives beside the first.
LEMMA SpliceGives == SpliceInv => SpliceStable
<1> SUFFICES ASSUME SpliceInv, stage = "parsed", before # << >>
             PROVE  SpliceStable
  BY DEF SpliceStable
<1>1. PICK first, rs :
        /\ before = << first >> /\ plain = BuiltDir(first)
        /\ Gives(origin.plain, rs, first) /\ first.Modules \in Seq(SizedEntry)
        /\ (origin.kind # "changed" /\ InOrder(origin.made) => InOrder(rs))
  BY DEF SpliceInv, InSecond
<1>2. Gives(BuiltDir(first), recs, di)
  BY <1>1 DEF SpliceInv
<1>3. before[1] = first
  BY <1>1
<1>4. \A j \in 1 .. Len(first.Modules) : SizesFit(first.Modules[j])
  BY <1>1, ElementOfSeq DEF SizedEntry
<1> DEFINE all == AbstractAll(Walk(origin.plain))
<1>5. all = AbstractAll(rs)
  <2>1. rs \in Seq(Numbered) /\ Found(rs) = Walk(origin.plain)
    BY <1>1 DEF Gives
  <2>2. DOMAIN Found(rs) = DOMAIN rs
    BY DEF Found
  <2>3. ASSUME NEW j \in DOMAIN rs
        PROVE  Abstract(Found(rs)[j]) = Abstract(rs[j])
    <3>1. Found(rs)[j].id = rs[j].id /\ Found(rs)[j].payload = rs[j].payload
      BY DEF Found
    <3> QED
      BY <3>1 DEF Abstract
  <2>4. AbstractAll(Found(rs)) = AbstractAll(rs)
    BY <2>2, <2>3 DEF AbstractAll
  <2> QED
    BY <2>1, <2>4
<1> HIDE DEF all
<1>6. D!RefEnd(all) > D!RefStart(all) =>
        /\ di.ProjectInfoRaw = first.ProjectInfoRaw /\ di.RefsRaw = first.RefsRaw
        /\ (InOrder(rs) => di = [first EXCEPT !.Modules = [j \in DOMAIN @ |-> Saved(@[j])]])
  BY <1>1, <1>2, <1>4, <1>5, SplicedAgain
<1>7. D!RefEnd(all) > D!RefStart(all) =>
        di.ProjectInfoRaw = before[1].ProjectInfoRaw /\ di.RefsRaw = before[1].RefsRaw
  BY <1>3, <1>6
<1>8. D!RefEnd(all) > D!RefStart(all) /\ origin.kind # "changed" /\ InOrder(origin.made) =>
        di = [before[1] EXCEPT !.Modules = [j \in DOMAIN @ |-> Saved(@[j])]]
  BY <1>1, <1>3, <1>6
<1> QED
  BY <1>7, <1>8 DEF SpliceStable, all

\* What Write splices is read back: both spans byte for byte, on any bytes in
\* which the modules follow the references; from a stream with no wrong byte the
\* whole metadata, with the sources at offset 0.
THEOREM SpliceStableHolds == FairSpec => []SpliceStable
BY SpliceInvariant, SpliceGives, PTL
==============================================================================
