-------------------------- MODULE DirStreamProofs --------------------------
(***************************************************************************)
(* What the operators of DirStream return: the positions they select exist *)
(* and the values they extract have the type of their record.              *)
(***************************************************************************)
EXTENDS DirStream, SequenceTheorems, FiniteSetTheorems, TLAPS

\* A non-empty set of numbers has a least element.
LEMMA LeastOf ==
  ASSUME NEW T \in SUBSET Nat, T # {}
  PROVE  \E x \in T : \A y \in T : x <= y
<1> DEFINE R == OpToRel(<, Nat)
<1>1. IsWellFoundedOn(R, Nat)
  BY NatLessThanWellFounded
<1>2. \E x \in T : \A y \in T : ~(<< y, x >> \in R)
  <2> HIDE DEF R
  <2> QED
    BY <1>1, WFMin
<1>3. \A x, y \in Nat : x < y => << x, y >> \in R
  BY DEF OpToRel
<1> HIDE DEF R
<1>4. PICK x \in T : \A y \in T : ~(y < x)
  BY <1>2, <1>3
<1> QED
  BY <1>4

\* A non-empty set of positions has a greatest element, so Max is defined.
LEMMA MaxOfPositions ==
  ASSUME NEW n \in Nat, NEW T \in SUBSET (1 .. n), T # {}
  PROVE  Max(T) \in T
<1>0. \A y \in T : y \in Nat /\ 1 <= y /\ y <= n
  OBVIOUS
<1> DEFINE U == {m \in Nat : \A y \in T : m >= y}
<1>1. n \in U
  BY <1>0
<1>2. PICK u \in U : \A y \in U : u <= y
  BY <1>1, LeastOf
<1>3. u \in T
  <2> SUFFICES ASSUME u \notin T
               PROVE  FALSE
    OBVIOUS
  <2>1. \A y \in T : y <= u - 1
    BY <1>0, <1>2
  <2>2. PICK t \in T : TRUE
    OBVIOUS
  <2>3. t \in Nat /\ 1 <= t /\ t <= u - 1 /\ u \in Nat
    BY <1>0, <1>2, <2>1
  <2>4. u - 1 \in Nat /\ \A y \in T : u - 1 >= y
    BY <1>0, <2>1, <2>3
  <2> QED
    BY <1>2, <2>3, <2>4
<1> QED
  BY <1>0, <1>2, <1>3 DEF Max

\* ... and a least one.
LEMMA MinOfPositions ==
  ASSUME NEW n \in Nat, NEW T \in SUBSET (1 .. n), T # {}
  PROVE  Min(T) \in T
<1>1. \A y \in T : y \in Nat
  OBVIOUS
<1>2. \E x \in T : \A y \in T : x <= y
  BY <1>1, LeastOf
<1> QED
  BY <1>2 DEF Min

\* A set of positions is finite.
LEMMA PositionsFinite ==
  ASSUME NEW n \in Nat, NEW S \in SUBSET (1 .. n)
  PROVE  IsFiniteSet(S) /\ Cardinality(S) \in Nat
<1>1. IsFiniteSet(1 .. n)
  BY FS_Interval
<1>2. IsFiniteSet(S)
  BY <1>1, FS_Subset
<1> QED
  BY <1>2, FS_CardinalityType

\* The positions of S up to m.
Upto(S, m) == {j \in S : j <= m}

\* They grow by one position at a time.
LEMMA UptoGrows ==
  ASSUME NEW n \in Nat, NEW S \in SUBSET (1 .. n)
  PROVE  /\ Upto(S, 0) = {} /\ Upto(S, n) = S
         /\ \A m \in Nat \ {0} :
              /\ m \notin S => Upto(S, m) = Upto(S, m - 1)
              /\ m \in S => Upto(S, m) = Upto(S, m - 1) \cup {m}
              /\ m \notin Upto(S, m - 1)
<1>1. \A j \in S : j \in Nat /\ 1 <= j /\ j <= n /\ ~(j <= 0)
  OBVIOUS
<1>2. \A m \in Nat \ {0} : \A j \in S : j <= m <=> j <= m - 1 \/ j = m
  BY <1>1
<1>3. \A m \in Nat \ {0} : ~(m <= m - 1)
  OBVIOUS
<1>4. Upto(S, 0) = {} /\ Upto(S, n) = S
  BY <1>1, Zenon DEF Upto
<1>5. ASSUME NEW m \in Nat \ {0}
      PROVE  /\ m \notin S => Upto(S, m) = Upto(S, m - 1)
             /\ m \in S => Upto(S, m) = Upto(S, m - 1) \cup {m}
             /\ m \notin Upto(S, m - 1)
  <2>1. \A j : j \in Upto(S, m) <=> j \in S /\ (j <= m - 1 \/ j = m)
    BY <1>2, Zenon DEF Upto
  <2>2. \A j : j \in Upto(S, m - 1) <=> j \in S /\ j <= m - 1
    BY Zenon DEF Upto
  <2> QED
    BY <1>3, <2>1, <2>2, Zenon
<1> QED
  BY <1>4, <1>5

\* Every k up to their number selects one of a set of positions.
LEMMA NthOfPositions ==
  ASSUME NEW n \in Nat, NEW S \in SUBSET (1 .. n), NEW k \in 1 .. Cardinality(S)
  PROVE  Nth(S, k) \in S /\ Cardinality(Upto(S, Nth(S, k))) = k
<1> DEFINE Count(m) == Cardinality(Upto(S, m))
<1>1. IsFiniteSet(S) /\ Cardinality(S) \in Nat
  BY PositionsFinite
<1>2. \A m : IsFiniteSet(Upto(S, m)) /\ Count(m) \in Nat
  <2>1. \A m : Upto(S, m) \in SUBSET S
    BY DEF Upto
  <2> QED
    BY <1>1, <2>1, FS_Subset, FS_CardinalityType
<1>3. Count(0) = 0 /\ Count(n) = Cardinality(S)
  BY UptoGrows, FS_EmptySet
<1>4. \A m \in Nat \ {0} : Count(m) = IF m \in S THEN Count(m - 1) + 1 ELSE Count(m - 1)
  <2> SUFFICES ASSUME NEW m \in Nat \ {0}
               PROVE  Count(m) = IF m \in S THEN Count(m - 1) + 1 ELSE Count(m - 1)
    OBVIOUS
  <2>1. CASE m \notin S
    BY <2>1, UptoGrows
  <2>2. CASE m \in S
    <3>1. Upto(S, m) = Upto(S, m - 1) \cup {m} /\ m \notin Upto(S, m - 1)
      BY <2>2, UptoGrows
    <3>2. IsFiniteSet(Upto(S, m - 1))
      BY <1>2
    <3> QED
      BY <2>2, <3>1, <3>2, FS_AddElement
  <2> QED
    BY <2>1, <2>2
<1> HIDE DEF Count
<1>5. PICK m \in Nat : Count(m) >= k /\ \A y \in Nat : Count(y) >= k => m <= y
  <2>1. n \in {y \in Nat : Count(y) >= k}
    BY <1>1, <1>3
  <2>2. PICK m \in {y \in Nat : Count(y) >= k} :
          \A y \in {z \in Nat : Count(z) >= k} : m <= y
    BY <2>1, LeastOf
  <2> QED
    BY <2>2
<1>6. m \in Nat \ {0} /\ m - 1 \in Nat /\ Count(m - 1) < k
  <2>1. m # 0
    BY <1>3, <1>5
  <2>2. m - 1 \in Nat /\ ~(m <= m - 1)
    BY <2>1
  <2> QED
    BY <1>2, <1>5, <2>1, <2>2
<1>7. m \in S /\ Count(m) = k
  BY <1>2, <1>4, <1>5, <1>6
<1>8. \E i \in S : Cardinality({j \in S : j <= i}) = k
  BY <1>7 DEF Count, Upto
<1> QED
  BY <1>8 DEF Nth, Upto

\* IsDir as a set of sequences.
DirRecord == [id : NameIds, val : AnyName] \cup [id : ValueIds, val : Nat]

LEMMA DirIsSeq == \A recs : IsDir(recs) <=> recs \in Seq(DirRecord)
<1>1. \A r : r \in DirRecord <=>
        /\ r = Rec(r.id, r.val)
        /\ (r.id \in NameIds /\ r.val \in AnyName) \/ (r.id \in ValueIds /\ r.val \in Nat)
  <2>1. ASSUME NEW r \in DirRecord
        PROVE  /\ r = Rec(r.id, r.val)
               /\ (r.id \in NameIds /\ r.val \in AnyName) \/ (r.id \in ValueIds /\ r.val \in Nat)
    BY DEF DirRecord, Rec
  <2>2. ASSUME NEW id, NEW val,
               (id \in NameIds /\ val \in AnyName) \/ (id \in ValueIds /\ val \in Nat)
        PROVE  Rec(id, val) \in DirRecord
    BY <2>2 DEF Rec, DirRecord
  <2>3. ASSUME NEW r, r = Rec(r.id, r.val),
               (r.id \in NameIds /\ r.val \in AnyName) \/ (r.id \in ValueIds /\ r.val \in Nat)
        PROVE  r \in DirRecord
    <3>1. Rec(r.id, r.val) \in DirRecord
      BY <2>2, <2>3
    <3> QED
      BY <2>3, <3>1
  <2> QED
    BY <2>1, <2>3
<1>2. ASSUME NEW recs, IsDir(recs)
      PROVE  recs \in Seq(DirRecord)
  <2>1. Len(recs) \in Nat /\ DOMAIN recs = 1 .. Len(recs)
    BY <1>2 DEF IsDir
  <2>2. \A i \in 1 .. Len(recs) : recs[i] = Rec(recs[i].id, recs[i].val)
    BY <1>2 DEF IsDir
  <2>3. \A i \in 1 .. Len(recs) : recs[i] \in DirRecord
    BY <1>1, <1>2, <2>1, <2>2 DEF IsDir
  <2>4. recs = [i \in 1 .. Len(recs) |-> recs[i]]
    BY <1>2, <2>2 DEF IsDir
  <2>5. recs \in [1 .. Len(recs) -> DirRecord]
    BY <2>3, <2>4
  <2> QED
    BY <2>1, <2>5, SeqDef
<1>3. ASSUME NEW recs, recs \in Seq(DirRecord)
      PROVE  IsDir(recs)
  <2>1. Len(recs) \in Nat /\ DOMAIN recs = 1 .. Len(recs) /\ recs = [i \in 1 .. Len(recs) |-> recs[i]]
    BY <1>3, LenProperties, SeqDef
  <2>2. \A i \in 1 .. Len(recs) : recs[i] \in DirRecord
    BY <1>3, ElementOfSeq
  <2> QED
    BY <1>1, <2>1, <2>2 DEF IsDir
<1> QED
  BY <1>2, <1>3

\* Names and numbers are told apart by the id.
LEMMA ValueIsTyped ==
  ASSUME NEW recs, IsDir(recs), NEW i \in DOMAIN recs
  PROVE  IF recs[i].id \in NameIds THEN recs[i].val \in AnyName ELSE recs[i].val \in Nat
<1>1. \A id \in ValueIds : id \notin NameIds
  BY DEF NameIds, ValueIds
<1> QED
  BY <1>1 DEF IsDir

\* The positions of records, and their values.
LEMMA AtIsPositions ==
  ASSUME NEW recs, IsDir(recs), NEW ids
  PROVE  /\ Len(recs) \in Nat /\ At(recs, ids) \in SUBSET (1 .. Len(recs))
         /\ \A i \in At(recs, ids) : recs[i].id \in ids
PROOF BY LenProperties, DirIsSeq DEF At

\* A value taken from the last record of a kind has the type of that kind.
LEMMA LastValType ==
  ASSUME NEW recs, IsDir(recs), NEW id, NEW from, NEW to, NEW default
  PROVE  /\ id \in NameIds /\ default \in AnyName
              => LastVal(recs, id, from, to, default) \in AnyName
         /\ id \notin NameIds /\ default \in Nat
              => LastVal(recs, id, from, to, default) \in Nat
<1> DEFINE hits == At(recs, {id}) \cap (from .. to)
<1>1. CASE hits = {}
  BY <1>1 DEF LastVal
<1>2. CASE hits # {}
  <2>1. Len(recs) \in Nat /\ hits \in SUBSET (1 .. Len(recs))
    BY AtIsPositions
  <2>2. Max(hits) \in hits
    BY <1>2, <2>1, MaxOfPositions
  <2>3. Max(hits) \in DOMAIN recs /\ recs[Max(hits)].id = id
    BY <2>2 DEF At
  <2>4. LastVal(recs, id, from, to, default) = recs[Max(hits)].val
    BY <1>2 DEF LastVal
  <2> QED
    BY <2>3, <2>4, ValueIsTyped
<1> QED
  BY <1>1, <1>2

\* The module entries that ParseDir returns.
LEMMA DirModulesType ==
  ASSUME NEW recs, IsDir(recs)
  PROVE  DirModules(recs) \in
           Seq([Name : AnyName, StreamName : AnyName, Offset : Nat, TypeID : Nat])
<1> DEFINE starts == At(recs, {"MODULENAME"})
           D == [Name : AnyName, StreamName : AnyName, Offset : Nat, TypeID : Nat]
<1>1. Len(recs) \in Nat /\ starts \in SUBSET (1 .. Len(recs))
  BY AtIsPositions
<1>2. Cardinality(starts) \in Nat
  BY <1>1, PositionsFinite
<1>3. ASSUME NEW i \in starts
      PROVE  DirModule(recs, i) \in D
  <2>1. recs[i].val \in AnyName
    <3>1. i \in DOMAIN recs /\ recs[i].id \in NameIds
      BY DEF At, NameIds
    <3> QED
      BY <3>1, ValueIsTyped
  <2>2. LastVal(recs, "MODULESTREAMNAME", i, RunEnd(recs, i), NoName) \in AnyName
    <3>1. "MODULESTREAMNAME" \in NameIds
      BY DEF NameIds
    <3> QED
      BY <3>1, NoNameAssumption, LastValType DEF NoNameAssumption
  <2>3. /\ LastVal(recs, "MODULEOFFSET", i, RunEnd(recs, i), 0) \in Nat
        /\ LastVal(recs, "MODULETYPE", i, RunEnd(recs, i), 0) \in Nat
    BY LastValType DEF NameIds
  <2> QED
    BY <2>1, <2>2, <2>3 DEF DirModule
<1>4. \A k \in 1 .. Cardinality(starts) : DirModule(recs, Nth(starts, k)) \in D
  BY <1>1, <1>3, NthOfPositions
<1> HIDE DEF starts, D
<1>5. [k \in 1 .. Cardinality(starts) |-> DirModule(recs, Nth(starts, k))] \in Seq(D)
  BY <1>2, <1>4, SeqDef
<1> QED
  BY <1>5 DEF DirModules, starts, D

\* The codepage that ParseDir returns.
LEMMA CodePageType ==
  ASSUME NEW recs, IsDir(recs)
  PROVE  CodePage(recs) \in Nat
PROOF BY LastValType DEF CodePage, NameIds

\* A span of a dir stream is one.
LEMMA DirSpan ==
  ASSUME NEW recs, IsDir(recs), NEW m \in Nat \ {0}, NEW n \in Int, n <= Len(recs)
  PROVE  IsDir(SubSeq(recs, m, n))
<1>1. recs \in Seq(DirRecord) /\ Len(recs) \in Nat
  BY LenProperties, DirIsSeq
<1>2. \A i \in m .. n : recs[i] \in DirRecord
  BY <1>1, ElementOfSeq
<1>3. SubSeq(recs, m, n) \in Seq(DirRecord)
  BY <1>2, SubSeqProperties
<1> QED
  BY <1>3, DirIsSeq

\* Two spans put together are a span.
LEMMA DirConcat ==
  ASSUME NEW r, NEW s, IsDir(r), IsDir(s)
  PROVE  IsDir(r \o s)
PROOF BY DirIsSeq, ConcatProperties

\* The records that BuildProjectModules writes, part by part and together.
LEMMA BuiltParts ==
  ASSUME NEW specs \in Seq([Name : AnyName, StreamName : AnyName, TypeID : Nat])
  PROVE  /\ IsDir(<< Rec("PROJECTMODULES", Len(specs) % CountLimit), Rec("PROJECTCOOKIE", 0) >>)
         /\ IsDir(ModuleRecords(specs))
         /\ IsDir(<< Rec("TERMINATOR", 0) >>)
<1> DEFINE D == [Name : AnyName, StreamName : AnyName, TypeID : Nat]
           T == DirRecord
           Typed(r) == r \in T
<1>1. \A n \in Nat : \A s \in [1 .. n -> T] : (\A i \in 1 .. n : Typed(s[i])) => IsDir(s)
  BY SeqDef, DirIsSeq
<1>2. /\ \A v \in AnyName : Typed(Rec("MODULENAME", v)) /\ Typed(Rec("MODULESTREAMNAME", v))
      /\ \A v \in Nat :
           /\ Typed(Rec("PROJECTMODULES", v)) /\ Typed(Rec("PROJECTCOOKIE", v))
           /\ Typed(Rec("MODULEOFFSET", v)) /\ Typed(Rec("MODULECOOKIE", v))
           /\ Typed(Rec("MODULETYPE", v)) /\ Typed(Rec("MODULE", v))
           /\ Typed(Rec("TERMINATOR", v))
  BY DEF Rec, NameIds, ValueIds, DirRecord
<1>3. \A r : Typed(r) => r \in T
  OBVIOUS
<1> HIDE DEF Typed, T
<1>4. ASSUME NEW m \in D, NEW j \in 1 .. 6
      PROVE  Typed(modRecord(m)[j])
  <2>1. m.Name \in AnyName /\ m.StreamName \in AnyName /\ m.TypeID \in Nat
    OBVIOUS
  <2>2. /\ modRecord(m)[1] = Rec("MODULENAME", m.Name)
        /\ modRecord(m)[2] = Rec("MODULESTREAMNAME", m.StreamName)
        /\ modRecord(m)[3] = Rec("MODULEOFFSET", 0)
        /\ modRecord(m)[4] = Rec("MODULECOOKIE", 0)
        /\ modRecord(m)[5] = Rec("MODULETYPE", m.TypeID)
        /\ modRecord(m)[6] = Rec("MODULE", 0)
    BY DEF modRecord
  <2>3. /\ Typed(modRecord(m)[1]) /\ Typed(modRecord(m)[2]) /\ Typed(modRecord(m)[3])
        /\ Typed(modRecord(m)[4]) /\ Typed(modRecord(m)[5]) /\ Typed(modRecord(m)[6])
    BY <1>2, <2>1, <2>2
  <2>4. j = 1 \/ j = 2 \/ j = 3 \/ j = 4 \/ j = 5 \/ j = 6
    OBVIOUS
  <2> QED
    BY <2>3, <2>4
<1> HIDE DEF D
<1>5. Len(specs) \in Nat /\ \A k \in 1 .. Len(specs) : specs[k] \in D
  BY LenProperties, ElementOfSeq DEF D
<1>6. \A i \in 1 .. 6 * Len(specs) :
        /\ ((i - 1) \div 6) + 1 \in 1 .. Len(specs)
        /\ ((i - 1) % 6) + 1 \in 1 .. 6
  BY <1>5
<1>7. IsDir(ModuleRecords(specs))
  <2>1. \A i \in 1 .. 6 * Len(specs) :
          Typed(modRecord(specs[((i - 1) \div 6) + 1])[((i - 1) % 6) + 1])
    BY <1>4, <1>5, <1>6
  <2>2. ModuleRecords(specs) \in [1 .. 6 * Len(specs) -> T]
    BY <1>3, <2>1 DEF ModuleRecords
  <2>3. 6 * Len(specs) \in Nat
    BY <1>5
  <2> QED
    BY <1>1, <2>1, <2>2, <2>3 DEF ModuleRecords
<1>8. IsDir(<< Rec("PROJECTMODULES", Len(specs) % CountLimit), Rec("PROJECTCOOKIE", 0) >>)
  <2>1. Len(specs) % CountLimit \in Nat
    BY <1>5, CountLimitAssumption DEF CountLimitAssumption
  <2>2. \A a, b : Typed(a) /\ Typed(b) => IsDir(<< a, b >>)
    <3>1. ASSUME NEW a, NEW b, Typed(a), Typed(b)
          PROVE  << a, b >> \in [1 .. 2 -> T] /\ \A i \in 1 .. 2 : Typed(<< a, b >>[i])
      BY <1>3, <3>1
    <3> QED
      BY <1>1, <3>1
  <2> QED
    BY <1>2, <2>1, <2>2
<1>9. IsDir(<< Rec("TERMINATOR", 0) >>)
  <2>1. \A a : Typed(a) => IsDir(<< a >>)
    <3>1. ASSUME NEW a, Typed(a)
          PROVE  << a >> \in [1 .. 1 -> T] /\ \A i \in 1 .. 1 : Typed(<< a >>[i])
      BY <1>3, <3>1
    <3> QED
      BY <1>1, <3>1
  <2> QED
    BY <1>2, <2>1
<1> QED
  BY <1>7, <1>8, <1>9

LEMMA BuiltIsDir ==
  ASSUME NEW specs \in Seq([Name : AnyName, StreamName : AnyName, TypeID : Nat])
  PROVE  IsDir(BuildProjectModules(specs))
PROOF BY BuiltParts, DirConcat DEF BuildProjectModules

\* The spans that ParseDir keeps.
LEMMA SpansAreDir ==
  ASSUME NEW recs, IsDir(recs)
  PROVE  IsDir(ProjectInfoRaw(recs)) /\ IsDir(RefsRaw(recs))
<1>1. Len(recs) \in Nat
  BY LenProperties, DirIsSeq
<1>2. ASSUME NEW id
      PROVE  FirstAt(recs, id) \in 0 .. Len(recs)
  <2>1. CASE At(recs, {id}) = {}
    BY <1>1, <2>1 DEF FirstAt
  <2>2. CASE At(recs, {id}) # {}
    <3>1. At(recs, {id}) \in SUBSET (1 .. Len(recs))
      BY AtIsPositions
    <3>2. Min(At(recs, {id})) \in At(recs, {id})
      BY <1>1, <2>2, <3>1, MinOfPositions
    <3>3. Min(At(recs, {id})) \in 1 .. Len(recs)
      BY <3>1, <3>2
    <3> QED
      BY <1>1, <2>2, <3>3 DEF FirstAt
  <2> QED
    BY <2>1, <2>2
<1>3. RefStart(recs) \in 0 .. Len(recs) /\ RefEnd(recs) \in 0 .. Len(recs)
  BY <1>2 DEF RefStart, RefEnd
<1>4. InfoEnd(recs) - 1 \in Int /\ InfoEnd(recs) - 1 <= Len(recs)
  BY <1>1, <1>3 DEF InfoEnd
<1>5. IsDir(ProjectInfoRaw(recs))
  BY <1>4, DirSpan DEF ProjectInfoRaw
<1>6. CASE RefStart(recs) # 0 /\ RefEnd(recs) > RefStart(recs)
  <2>1. RefStart(recs) \in Nat \ {0} /\ RefEnd(recs) - 1 \in Int /\ RefEnd(recs) - 1 <= Len(recs)
    BY <1>1, <1>3, <1>6
  <2> QED
    BY <1>5, <1>6, <2>1, DirSpan DEF RefsRaw
<1>7. CASE ~(RefStart(recs) # 0 /\ RefEnd(recs) > RefStart(recs))
  <2>1. IsDir(<< >>)
    BY EmptySeq, DirIsSeq
  <2> QED
    BY <1>5, <1>7, <2>1 DEF RefsRaw
<1> QED
  BY <1>6, <1>7

-----------------------------------------------------------------------------
(***************************************************************************)
(* Counting positions.                                                     *)
(***************************************************************************)

\* More positions stand up to a later one.
LEMMA UptoStrict ==
  ASSUME NEW n \in Nat, NEW S \in SUBSET (1 .. n), NEW a \in S, NEW b \in S, a < b
  PROVE  Cardinality(Upto(S, a)) < Cardinality(Upto(S, b))
<1> DEFINE A == Upto(S, a)
           B == Upto(S, b)
<1>1. a \in Nat /\ b \in Nat /\ \A j \in S : j \in Nat
  OBVIOUS
<1>2. A \in SUBSET (B \ {b}) /\ b \in B /\ B \in SUBSET S
  <2>1. \A j : j \in A <=> j \in S /\ j <= a
    BY DEF Upto
  <2>2. \A j : j \in B <=> j \in S /\ j <= b
    BY DEF Upto
  <2> HIDE DEF A, B
  <2>3. ASSUME NEW j \in A
        PROVE  j \in B /\ j # b
    <3>1. j \in S /\ j <= a /\ j \in Nat
      BY <1>1, <2>1
    <3>2. j <= b /\ j # b
      BY <1>1, <3>1
    <3> QED
      BY <2>2, <3>1, <3>2
  <2>4. b \in B
    BY <1>1, <2>2
  <2> QED
    BY <2>2, <2>3, <2>4
<1>3. IsFiniteSet(S)
  BY PositionsFinite
<1> HIDE DEF A, B
<1>4. IsFiniteSet(B) /\ IsFiniteSet(B \ {b})
  BY <1>2, <1>3, FS_Subset
<1>5. Cardinality(B \ {b}) = Cardinality(B) - 1
  BY <1>2, <1>4, FS_RemoveElement
<1>6. IsFiniteSet(A) /\ Cardinality(A) <= Cardinality(B \ {b})
  BY <1>2, <1>4, FS_Subset
<1>7. Cardinality(A) \in Nat /\ Cardinality(B) \in Nat
  BY <1>4, <1>6, FS_CardinalityType
<1> QED
  BY <1>5, <1>6, <1>7 DEF A, B

\* A position is selected by its number.
LEMMA NthIs ==
  ASSUME NEW n \in Nat, NEW S \in SUBSET (1 .. n), NEW i \in S
  PROVE  Nth(S, Cardinality(Upto(S, i))) = i
<1>1. \A j \in S : j \in Nat
  OBVIOUS
<1>2. \A j \in S : Upto(S, j) \in SUBSET (1 .. n)
  BY DEF Upto
<1>3. \A j \in S : Cardinality(Upto(S, j)) \in Nat
  BY <1>2, PositionsFinite
<1>4. ASSUME NEW j \in S, Cardinality(Upto(S, j)) = Cardinality(Upto(S, i))
      PROVE  j = i
  <2>1. ~(j < i)
    <3>1. j < i => Cardinality(Upto(S, j)) < Cardinality(Upto(S, i))
      BY UptoStrict
    <3> QED
      BY <1>3, <1>4, <3>1
  <2>2. ~(i < j)
    <3>1. i < j => Cardinality(Upto(S, i)) < Cardinality(Upto(S, j))
      BY UptoStrict
    <3> QED
      BY <1>3, <1>4, <3>1
  <2> QED
    BY <1>1, <2>1, <2>2
<1> QED
  BY <1>4 DEF Nth, Upto

\* Positions given in ascending order are selected in that order.
LEMMA NthListed ==
  ASSUME NEW n \in Nat, NEW m \in Nat, NEW f \in [1 .. m -> 1 .. n],
         \A i, j \in 1 .. m : i < j => f[i] < f[j]
  PROVE  LET S == {f[i] : i \in 1 .. m}
         IN  Cardinality(S) = m /\ \A k \in 1 .. m : Nth(S, k) = f[k]
<1> DEFINE First(k) == {f[i] : i \in 1 .. k}
           S == First(m)
<1>1. ASSUME NEW k \in 0 .. m
      PROVE  Cardinality(First(k)) = k
  <2> DEFINE g == [i \in 1 .. k |-> f[i]]
  <2>1. g \in Injection(1 .. k, First(k))
    <3>1. \A i, j \in 1 .. k : f[i] = f[j] => i = j
      BY <1>1
    <3> QED
      BY <3>1 DEF Injection, IsInjective
  <2>2. g \in Surjection(1 .. k, First(k))
    BY DEF Surjection
  <2>3. ExistsBijection(1 .. k, First(k))
    BY <2>1, <2>2 DEF ExistsBijection, Bijection
  <2> QED
    BY <1>1, <2>3, FS_CountingElements
<1>2. \A k \in 1 .. m : Upto(S, f[k]) = First(k)
  BY DEF Upto
<1>3. S \in SUBSET (1 .. n) /\ \A k \in 1 .. m : f[k] \in S
  OBVIOUS
<1>4. \A k \in 1 .. m : Cardinality(Upto(S, f[k])) = k
  BY <1>1, <1>2
<1>5. Cardinality(S) = m
  BY <1>1
<1> HIDE DEF S
<1>6. \A k \in 1 .. m : Nth(S, k) = f[k]
  BY <1>3, <1>4, NthIs
<1> QED
  BY <1>5, <1>6 DEF S

\* Positions shifted by d are selected in the same order.
LEMMA NthShifted ==
  ASSUME NEW n \in Nat, NEW S \in SUBSET (1 .. n), NEW d \in Nat
  PROVE  LET T == {i + d : i \in S}
         IN  /\ Cardinality(T) = Cardinality(S)
             /\ \A k \in 1 .. Cardinality(S) : Nth(T, k) = Nth(S, k) + d
<1> DEFINE Shift(U) == {i + d : i \in U}
           T == Shift(S)
<1>1. \A i \in S : i \in Nat
  OBVIOUS
<1>2. ASSUME NEW U \in SUBSET S
      PROVE  Cardinality(Shift(U)) = Cardinality(U)
  <2> DEFINE g == [i \in U |-> i + d]
  <2>1. g \in Injection(U, Shift(U))
    BY <1>1 DEF Injection, IsInjective
  <2>2. g \in Surjection(U, Shift(U))
    BY DEF Surjection
  <2>3. ExistsBijection(U, Shift(U))
    BY <2>1, <2>2 DEF ExistsBijection, Bijection
  <2>4. IsFiniteSet(U)
    BY <1>2, PositionsFinite
  <2> QED
    BY <2>3, <2>4, FS_Bijection
<1>3. \A i \in S : Upto(T, i + d) = Shift(Upto(S, i))
  BY <1>1 DEF Upto
<1>4. T \in SUBSET (1 .. n + d) /\ n + d \in Nat /\ \A i \in S : i + d \in T
  BY <1>1
<1>5. \A i \in S : Cardinality(Upto(T, i + d)) = Cardinality(Upto(S, i))
  <2>1. \A i : Upto(S, i) \in SUBSET S
    BY DEF Upto
  <2> QED
    BY <1>2, <1>3, <2>1
<1>6. Cardinality(T) = Cardinality(S)
  BY <1>2
<1> HIDE DEF T
<1>7. ASSUME NEW k \in 1 .. Cardinality(S)
      PROVE  Nth(T, k) = Nth(S, k) + d
  <2>1. Nth(S, k) \in S /\ Cardinality(Upto(S, Nth(S, k))) = k
    BY NthOfPositions
  <2>2. Cardinality(Upto(T, Nth(S, k) + d)) = k /\ Nth(S, k) + d \in T
    BY <1>4, <1>5, <2>1
  <2> QED
    BY <1>4, <2>2, NthIs
<1> QED
  BY <1>6, <1>7 DEF T

-----------------------------------------------------------------------------
(***************************************************************************)
(* Streams put together from parts.                                        *)
(***************************************************************************)

\* c has the records of r and, further on, those of s.
Joined(c, r, s) ==
  /\ IsDir(c) /\ Len(r) \in Nat /\ Len(s) \in Nat /\ Len(c) = Len(r) + Len(s)
  /\ \A i \in 1 .. Len(r) : c[i] = r[i]
  /\ \A i \in 1 .. Len(s) : c[i + Len(r)] = s[i]
  /\ \A ids : At(c, ids) = At(r, ids) \cup {i + Len(r) : i \in At(s, ids)}

LEMMA ConcatAt ==
  ASSUME NEW r, NEW s, IsDir(r), IsDir(s)
  PROVE  Joined(r \o s, r, s)
<1> DEFINE c == r \o s
<1>1. r \in Seq(DirRecord) /\ s \in Seq(DirRecord)
  BY DirIsSeq
<1>2. /\ Len(r) \in Nat /\ Len(s) \in Nat
      /\ DOMAIN r = 1 .. Len(r) /\ DOMAIN s = 1 .. Len(s)
  BY <1>1, LenProperties
<1>3. /\ c \in Seq(DirRecord) /\ Len(c) = Len(r) + Len(s)
      /\ \A i \in 1 .. Len(r) + Len(s) : c[i] = IF i <= Len(r) THEN r[i] ELSE s[i - Len(r)]
  BY <1>1, ConcatProperties
<1> HIDE DEF c
<1>4. \A i \in 1 .. Len(r) : c[i] = r[i]
  BY <1>2, <1>3
<1>5. \A i \in 1 .. Len(s) : c[i + Len(r)] = s[i]
  <2> SUFFICES ASSUME NEW i \in 1 .. Len(s)
               PROVE  c[i + Len(r)] = s[i]
    OBVIOUS
  <2>1. /\ i + Len(r) \in 1 .. Len(r) + Len(s) /\ ~(i + Len(r) <= Len(r))
        /\ i + Len(r) - Len(r) = i
    BY <1>2
  <2> QED
    BY <1>3, <2>1
<1>6. DOMAIN c = 1 .. Len(r) + Len(s)
  BY <1>3, LenProperties
<1>7. ASSUME NEW ids
      PROVE  At(c, ids) = At(r, ids) \cup {i + Len(r) : i \in At(s, ids)}
  <2>1. ASSUME NEW i \in At(c, ids)
        PROVE  i \in At(r, ids) \/ \E j \in At(s, ids) : i = j + Len(r)
    <3>1. i \in 1 .. Len(r) + Len(s) /\ c[i].id \in ids
      BY <1>6 DEF At
    <3>2. CASE i <= Len(r)
      BY <1>2, <1>4, <3>1, <3>2 DEF At
    <3>3. CASE ~(i <= Len(r))
      <4>1. i - Len(r) \in 1 .. Len(s) /\ i = (i - Len(r)) + Len(r)
        BY <1>2, <3>1, <3>3
      <4>2. s[i - Len(r)].id \in ids
        BY <1>5, <3>1, <4>1
      <4> QED
        BY <1>2, <4>1, <4>2 DEF At
    <3> QED
      BY <3>2, <3>3
  <2>2. ASSUME NEW i \in At(r, ids)
        PROVE  i \in At(c, ids)
    <3>1. i \in 1 .. Len(r) /\ r[i].id \in ids
      BY <1>2 DEF At
    <3>2. i \in DOMAIN c /\ c[i].id \in ids
      BY <1>2, <1>4, <1>6, <3>1
    <3> QED
      BY <3>2 DEF At
  <2>3. ASSUME NEW i \in At(s, ids)
        PROVE  i + Len(r) \in At(c, ids)
    <3>1. i \in 1 .. Len(s) /\ s[i].id \in ids
      BY <1>2 DEF At
    <3>2. i + Len(r) \in DOMAIN c /\ c[i + Len(r)].id \in ids
      BY <1>2, <1>5, <1>6, <3>1
    <3> QED
      BY <3>2 DEF At
  <2> QED
    BY <2>1, <2>2, <2>3
<1>8. IsDir(c)
  BY <1>3, DirIsSeq
<1>9. Joined(c, r, s)
  BY <1>2, <1>3, <1>4, <1>5, <1>7, <1>8 DEF Joined
<1> QED
  BY <1>9 DEF c

\* r has the records of a, b and c.
Parts(r, a, b, c) ==
  LET d == Len(a) + Len(b)
  IN  /\ IsDir(r) /\ Len(a) \in Nat /\ Len(b) \in Nat /\ Len(c) \in Nat
      /\ Len(r) = d + Len(c)
      /\ \A i \in 1 .. Len(a) : r[i] = a[i]
      /\ \A i \in 1 .. Len(b) : r[i + Len(a)] = b[i]
      /\ \A i \in 1 .. Len(c) : r[i + d] = c[i]
      /\ \A ids : At(r, ids) = At(a, ids) \cup {i + Len(a) : i \in At(b, ids)}
                               \cup {i + d : i \in At(c, ids)}

LEMMA PartsAt ==
  ASSUME NEW a, NEW b, NEW c, IsDir(a), IsDir(b), IsDir(c)
  PROVE  Parts(a \o b \o c, a, b, c)
<1> DEFINE ab == a \o b
           r == ab \o c
<1>1. Joined(ab, a, b)
  BY ConcatAt
<1> HIDE DEF ab
<1>2. Joined(r, ab, c)
  <2>1. IsDir(ab)
    BY <1>1 DEF Joined
  <2> QED
    BY <2>1, ConcatAt
<1> HIDE DEF r
<1>3. /\ Len(a) \in Nat /\ Len(b) \in Nat /\ Len(ab) = Len(a) + Len(b)
      /\ \A i \in 1 .. Len(a) : ab[i] = a[i] /\ i \in 1 .. Len(ab)
      /\ \A i \in 1 .. Len(b) : ab[i + Len(a)] = b[i] /\ i + Len(a) \in 1 .. Len(ab)
  BY <1>1 DEF Joined
<1>4. /\ IsDir(r) /\ Len(c) \in Nat /\ Len(r) = Len(ab) + Len(c)
      /\ \A i \in 1 .. Len(ab) : r[i] = ab[i]
      /\ \A i \in 1 .. Len(c) : r[i + Len(ab)] = c[i]
  BY <1>2 DEF Joined
<1>5. \A ids : At(r, ids) = At(a, ids) \cup {i + Len(a) : i \in At(b, ids)}
                                    \cup {i + Len(ab) : i \in At(c, ids)}
  BY <1>1, <1>2 DEF Joined
<1>6. /\ \A i \in 1 .. Len(a) : r[i] = a[i]
      /\ \A i \in 1 .. Len(b) : r[i + Len(a)] = b[i]
  BY <1>3, <1>4
<1>7. Parts(r, a, b, c)
  BY <1>3, <1>4, <1>5, <1>6 DEF Parts
<1> QED
  BY <1>7 DEF r, ab

\* The first record of a kind.
LEMMA FirstAtIs ==
  ASSUME NEW r, IsDir(r), NEW id, NEW i \in At(r, {id}), \A j \in At(r, {id}) : i <= j
  PROVE  FirstAt(r, id) = i
<1> DEFINE T == At(r, {id})
<1>1. Len(r) \in Nat /\ T \in SUBSET (1 .. Len(r))
  BY AtIsPositions
<1>2. i \in T /\ \A j \in T : i <= j
  OBVIOUS
<1> HIDE DEF T
<1>3. \A j \in T : j \in Nat
  BY <1>1
<1>4. \A j \in T : (\A k \in T : j <= k) => j = i
  BY <1>2, <1>3
<1>5. Min(T) = i /\ T # {}
  BY <1>2, <1>4 DEF Min
<1> QED
  BY <1>5 DEF FirstAt, T

\* The reference names are those of the part that has references.
LEMMA RefNamesOf ==
  ASSUME NEW a, NEW b, NEW c, IsDir(a), IsDir(b), IsDir(c),
         At(a, {"REFERENCENAME"}) = {}, At(c, {"REFERENCENAME"}) = {}
  PROVE  RefNames(a \o b \o c) = RefNames(b)
<1> DEFINE r == a \o b \o c
           d == Len(a)
           names(q) == At(q, {"REFERENCENAME"})
           fresh(q) == {i \in names(q) : \A j \in names(q) : q[j].val = q[i].val => i <= j}
<1>1. /\ d \in Nat /\ names(r) = {i + d : i \in names(b)}
      /\ \A i \in 1 .. Len(b) : r[i + d] = b[i]
  BY PartsAt DEF Parts
<1>2. Len(b) \in Nat /\ names(b) \in SUBSET (1 .. Len(b))
  BY AtIsPositions
<1> HIDE DEF r, names
<1>3. \A i \in names(b) : i \in Nat /\ r[i + d] = b[i]
  BY <1>1, <1>2
<1> HIDE DEF d
<1>4. fresh(r) = {i + d : i \in fresh(b)}
  <2>1. ASSUME NEW i \in fresh(b)
        PROVE  i + d \in fresh(r)
    <3>1. i + d \in names(r)
      BY <1>1
    <3>2. ASSUME NEW j \in names(b), r[j + d].val = r[i + d].val
          PROVE  i + d <= j + d
      <4>1. b[j].val = b[i].val /\ i \in Nat /\ j \in Nat
        BY <1>3, <3>2
      <4>2. i <= j
        BY <4>1
      <4> QED
        BY <1>1, <4>1, <4>2
    <3> QED
      BY <1>1, <3>1, <3>2
  <2>2. ASSUME NEW i \in names(b), i + d \in fresh(r)
        PROVE  i \in fresh(b)
    <3>1. ASSUME NEW j \in names(b), b[j].val = b[i].val
          PROVE  i <= j
      <4>1. j + d \in names(r) /\ r[j + d].val = r[i + d].val
        BY <1>1, <1>3, <3>1
      <4>2. i + d <= j + d
        BY <2>2, <4>1
      <4> QED
        BY <1>1, <1>3, <4>2
    <3> QED
      BY <3>1
  <2>3. \A k \in fresh(r) : \E i \in names(b) : k = i + d
    BY <1>1
  <2> QED
    BY <2>1, <2>2, <2>3
<1>5. fresh(b) \in SUBSET names(b) /\ fresh(b) \in SUBSET (1 .. Len(b))
  BY <1>2
<1>6. /\ RefNames(r) = [k \in 1 .. Cardinality(fresh(r)) |-> r[Nth(fresh(r), k)].val]
      /\ RefNames(b) = [k \in 1 .. Cardinality(fresh(b)) |-> b[Nth(fresh(b), k)].val]
  BY Zenon DEF RefNames, names
<1> HIDE DEF fresh
<1>7. /\ Cardinality(fresh(r)) = Cardinality(fresh(b))
      /\ \A k \in 1 .. Cardinality(fresh(b)) : Nth(fresh(r), k) = Nth(fresh(b), k) + d
  BY <1>1, <1>2, <1>4, <1>5, NthShifted
<1>8. \A k \in 1 .. Cardinality(fresh(b)) : Nth(fresh(b), k) \in names(b)
  BY <1>2, <1>5, NthOfPositions
<1>9. \A k \in 1 .. Cardinality(fresh(b)) : r[Nth(fresh(r), k)].val = b[Nth(fresh(b), k)].val
  BY <1>3, <1>7, <1>8
<1> QED
  BY <1>6, <1>7, <1>9 DEF r

\* ParseDir finds the two spans again in front of the modules.
LEMMA SpansOf ==
  ASSUME NEW a, NEW b, NEW c, IsDir(a), IsDir(b), IsDir(c),
         At(a, {"REFERENCENAME"}) = {}, At(a, {"PROJECTMODULES"}) = {},
         At(b, {"PROJECTMODULES"}) = {}, b # << >> => b[1].id = "REFERENCENAME",
         At(c, {"REFERENCENAME"}) = {}, 1 \in At(c, {"PROJECTMODULES"})
  PROVE  LET r == a \o b \o c
         IN  /\ ProjectInfoRaw(r) = a /\ RefsRaw(r) = b
             /\ InfoEnd(r) = Len(a) + 1 /\ RefEnd(r) = Len(a) + Len(b) + 1
<1> DEFINE r == a \o b \o c
           d == Len(a) + Len(b)
<1>1. /\ IsDir(r) /\ Len(a) \in Nat /\ Len(b) \in Nat /\ Len(c) \in Nat /\ Len(r) = d + Len(c)
      /\ \A i \in 1 .. Len(a) : r[i] = a[i]
      /\ \A i \in 1 .. Len(b) : r[i + Len(a)] = b[i]
      /\ \A ids : At(r, ids) = At(a, ids) \cup {i + Len(a) : i \in At(b, ids)}
                               \cup {i + d : i \in At(c, ids)}
  <2>1. Parts(r, a, b, c)
    BY PartsAt
  <2> HIDE DEF r
  <2> QED
    BY <2>1 DEF Parts
<1>2. /\ At(b, {"REFERENCENAME"}) \in SUBSET (1 .. Len(b))
      /\ At(c, {"PROJECTMODULES"}) \in SUBSET (1 .. Len(c))
      /\ b \in Seq(DirRecord) /\ DOMAIN b = 1 .. Len(b) /\ a \in Seq(DirRecord)
  BY AtIsPositions, DirIsSeq, LenProperties
<1> HIDE DEF r
<1>3. RefEnd(r) = d + 1
  <2>1. At(r, {"PROJECTMODULES"}) = {i + d : i \in At(c, {"PROJECTMODULES"})}
    BY <1>1
  <2>2. d + 1 \in At(r, {"PROJECTMODULES"})
    BY <1>1, <2>1
  <2>3. \A j \in At(r, {"PROJECTMODULES"}) : d + 1 <= j
    BY <1>1, <1>2, <2>1
  <2> QED
    BY <1>1, <2>2, <2>3, FirstAtIs DEF RefEnd
<1>4. At(r, {"REFERENCENAME"}) = {i + Len(a) : i \in At(b, {"REFERENCENAME"})}
  BY <1>1
<1>5. RefStart(r) = IF b = << >> THEN 0 ELSE Len(a) + 1
  <2>1. CASE b = << >>
    <3>1. At(b, {"REFERENCENAME"}) = {}
      BY <2>1 DEF At
    <3>2. At(r, {"REFERENCENAME"}) = {}
      BY <1>4, <3>1
    <3> QED
      BY <2>1, <3>2 DEF RefStart, FirstAt
  <2>2. CASE b # << >>
    <3>1. Len(b) \in Nat \ {0}
      BY <1>2, <2>2, EmptySeq
    <3>2. 1 \in At(b, {"REFERENCENAME"})
      BY <1>2, <2>2, <3>1 DEF At
    <3>3. Len(a) + 1 \in At(r, {"REFERENCENAME"})
      BY <1>1, <1>4, <3>2
    <3>4. \A j \in At(r, {"REFERENCENAME"}) : Len(a) + 1 <= j
      BY <1>1, <1>2, <1>4
    <3> QED
      BY <1>1, <2>2, <3>3, <3>4, FirstAtIs DEF RefStart
  <2> QED
    BY <2>1, <2>2
<1>6. InfoEnd(r) = Len(a) + 1
  <2>1. b = << >> => Len(b) = 0
    BY EmptySeq
  <2> QED
    BY <1>1, <1>3, <1>5, <2>1 DEF InfoEnd
<1>7. ASSUME NEW s, IsDir(s), NEW m \in Nat, m + Len(s) <= Len(r),
             \A i \in 1 .. Len(s) : r[i + m] = s[i]
      PROVE  SubSeq(r, m + 1, m + Len(s)) = s
  <2> DEFINE lo == m + 1
             hi == m + Len(s)
             t == SubSeq(r, lo, hi)
  <2>1. s \in Seq(DirRecord) /\ Len(s) \in Nat /\ r \in Seq(DirRecord) /\ Len(r) \in Nat
    BY <1>1, <1>7, DirIsSeq, LenProperties
  <2>2. lo \in Int /\ hi \in Int /\ \A i \in lo .. hi : i \in 1 .. Len(r)
    BY <1>7, <2>1
  <2>3. /\ hi - lo + 1 = Len(s) /\ (IF lo <= hi THEN hi - lo + 1 ELSE 0) = Len(s)
        /\ \A i \in 1 .. Len(s) : lo + i - 1 = i + m
    BY <2>1
  <2> HIDE DEF lo, hi
  <2>4. \A i \in lo .. hi : r[i] \in DirRecord
    BY <2>1, <2>2, ElementOfSeq
  <2>5. /\ t \in Seq(DirRecord) /\ Len(t) = IF lo <= hi THEN hi - lo + 1 ELSE 0
        /\ \A i \in 1 .. hi - lo + 1 : t[i] = r[lo + i - 1]
    BY <2>2, <2>4, SubSeqProperties
  <2> HIDE DEF t
  <2>6. Len(t) = Len(s) /\ \A i \in 1 .. Len(s) : t[i] = s[i]
    BY <1>7, <2>3, <2>5
  <2>7. t = s
    BY <2>1, <2>5, <2>6, SeqEqual
  <2> QED
    BY <2>7 DEF t, lo, hi
<1>8. ProjectInfoRaw(r) = a
  <2>1. \A i \in 1 .. Len(a) : r[i + 0] = a[i]
    BY <1>1
  <2>2. 0 \in Nat /\ 0 + Len(a) <= Len(r)
    BY <1>1
  <2> HIDE DEF d
  <2>3. SubSeq(r, 0 + 1, 0 + Len(a)) = a
    BY <1>7, <2>1, <2>2
  <2>4. 0 + 1 = 1 /\ 0 + Len(a) = Len(a) /\ InfoEnd(r) - 1 = Len(a)
    BY <1>1, <1>6
  <2> QED
    BY <2>3, <2>4 DEF ProjectInfoRaw
<1>9. RefsRaw(r) = b
  <2>1. CASE b = << >>
    BY <1>5, <2>1 DEF RefsRaw
  <2>2. CASE b # << >>
    <3>1. Len(b) \in Nat \ {0}
      BY <1>2, <2>2, EmptySeq
    <3>2. /\ RefStart(r) = Len(a) + 1 /\ RefStart(r) # 0 /\ RefEnd(r) > RefStart(r)
          /\ RefEnd(r) - 1 = Len(a) + Len(b)
      BY <1>1, <1>3, <1>5, <2>2, <3>1
    <3>3. SubSeq(r, Len(a) + 1, Len(a) + Len(b)) = b
      BY <1>1, <1>7
    <3> QED
      BY <3>2, <3>3 DEF RefsRaw
  <2> QED
    BY <2>1, <2>2
<1> QED
  BY <1>3, <1>6, <1>8, <1>9 DEF r

\* The codepage is that of the part that names one.
LEMMA CodePageOf ==
  ASSUME NEW a, NEW b, NEW c, IsDir(a), IsDir(b), IsDir(c),
         At(b, {"PROJECTCODEPAGE"}) = {}, At(c, {"PROJECTCODEPAGE"}) = {}
  PROVE  CodePage(a \o b \o c) = CodePage(a)
<1> DEFINE r == a \o b \o c
           hits(q) == At(q, {"PROJECTCODEPAGE"})
           d == Len(a) + Len(b)
<1>1. /\ IsDir(r) /\ \A i \in 1 .. Len(a) : r[i] = a[i]
      /\ hits(r) = hits(a) \cup {i + Len(a) : i \in hits(b)} \cup {i + d : i \in hits(c)}
  <2>1. Parts(r, a, b, c)
    BY PartsAt
  <2> HIDE DEF r
  <2> QED
    BY <2>1 DEF Parts
<1>2. /\ Len(a) \in Nat /\ hits(a) \in SUBSET (1 .. Len(a))
      /\ Len(r) \in Nat /\ hits(r) \in SUBSET (1 .. Len(r))
  BY <1>1, AtIsPositions
<1> HIDE DEF r
<1>3. hits(r) = hits(a)
  BY <1>1
<1>4. hits(r) \cap (1 .. Len(r)) = hits(a) /\ hits(a) \cap (1 .. Len(a)) = hits(a)
  BY <1>2, <1>3
<1>5. CodePage(r) = IF hits(a) = {} THEN 0 ELSE r[Max(hits(a))].val
  BY <1>4 DEF CodePage, LastVal
<1>6. CodePage(a) = IF hits(a) = {} THEN 0 ELSE a[Max(hits(a))].val
  BY <1>4 DEF CodePage, LastVal
<1> HIDE DEF hits
<1>7. hits(a) # {} => Max(hits(a)) \in 1 .. Len(a)
  <2>1. hits(a) # {} => Max(hits(a)) \in hits(a)
    BY <1>2, MaxOfPositions
  <2> QED
    BY <1>2, <2>1
<1> QED
  BY <1>1, <1>5, <1>6, <1>7 DEF r

-----------------------------------------------------------------------------
(***************************************************************************)
(* What ParseDir makes of what BuildProjectModules writes.                 *)
(***************************************************************************)

ModuleSpecs == [Name : AnyName, StreamName : AnyName, TypeID : Nat]

\* The records of a built stream: two in front, six to a module, one behind.
LEMMA BuiltRecords ==
  ASSUME NEW specs \in Seq(ModuleSpecs)
  PROVE  LET c == BuildProjectModules(specs)
             n == Len(specs)
         IN  /\ IsDir(c) /\ n \in Nat /\ Len(c) = 6 * n + 3 /\ DOMAIN c = 1 .. Len(c)
             /\ c[1].id = "PROJECTMODULES" /\ c[1].val = n % CountLimit
             /\ c[2].id = "PROJECTCOOKIE"
             /\ c[Len(c)].id = "TERMINATOR"
             /\ \A k \in 1 .. n : \A j \in 1 .. 6 : c[6 * k + j - 4] = modRecord(specs[k])[j]
<1> DEFINE head == << Rec("PROJECTMODULES", Len(specs) % CountLimit), Rec("PROJECTCOOKIE", 0) >>
           mid == ModuleRecords(specs)
           foot == << Rec("TERMINATOR", 0) >>
           c == head \o mid \o foot
           n == Len(specs)
<1>1. n \in Nat
  BY LenProperties
<1>2. /\ Len(head) = 2 /\ head[1].id = "PROJECTMODULES" /\ head[2].id = "PROJECTCOOKIE"
      /\ head[1].val = n % CountLimit
      /\ Len(foot) = 1 /\ foot[1].id = "TERMINATOR"
  BY DEF Rec
<1>3. IsDir(head) /\ IsDir(mid) /\ IsDir(foot)
  BY BuiltParts DEF ModuleSpecs
<1>4. Len(mid) = 6 * n
  BY <1>1 DEF ModuleRecords
<1>5. \A k \in 1 .. n : \A j \in 1 .. 6 :
        6 * (k - 1) + j \in 1 .. 6 * n /\ mid[6 * (k - 1) + j] = modRecord(specs[k])[j]
  <2> SUFFICES ASSUME NEW k \in 1 .. n, NEW j \in 1 .. 6
               PROVE  /\ 6 * (k - 1) + j \in 1 .. 6 * n
                      /\ mid[6 * (k - 1) + j] = modRecord(specs[k])[j]
    OBVIOUS
  <2> DEFINE i == 6 * (k - 1) + j
  <2>1. i \in 1 .. 6 * n /\ (i - 1) \div 6 = k - 1 /\ (i - 1) % 6 = j - 1
    BY <1>1
  <2>2. ((i - 1) \div 6) + 1 = k /\ ((i - 1) % 6) + 1 = j
    BY <2>1
  <2> HIDE DEF i
  <2>3. mid[i] = modRecord(specs[k])[j]
    BY <2>1, <2>2 DEF ModuleRecords
  <2> QED
    BY <2>1, <2>3 DEF i
<1> HIDE DEF head, mid, foot
<1>6. Parts(c, head, mid, foot)
  BY <1>3, PartsAt
<1> HIDE DEF c
<1>7. /\ IsDir(c) /\ Len(c) = 2 + Len(mid) + 1
      /\ \A i \in 1 .. 2 : c[i] = head[i]
      /\ \A i \in 1 .. Len(mid) : c[i + 2] = mid[i]
      /\ c[1 + (2 + Len(mid))] = foot[1]
  BY <1>2, <1>6 DEF Parts
<1>8. Len(c) = 6 * n + 3 /\ c[Len(c)] = foot[1] /\ c[1] = head[1] /\ c[2] = head[2]
  BY <1>1, <1>4, <1>7
<1>9. ASSUME NEW k \in 1 .. n, NEW j \in 1 .. 6
      PROVE  c[6 * k + j - 4] = modRecord(specs[k])[j]
  <2>1. 6 * (k - 1) + j \in 1 .. Len(mid) /\ (6 * (k - 1) + j) + 2 = 6 * k + j - 4
    BY <1>1, <1>4
  <2> QED
    BY <1>5, <1>7, <2>1
<1>10. DOMAIN c = 1 .. Len(c)
  BY <1>7, DirIsSeq, LenProperties
<1>11. /\ c[1].id = "PROJECTMODULES" /\ c[1].val = n % CountLimit
       /\ c[2].id = "PROJECTCOOKIE" /\ c[Len(c)].id = "TERMINATOR"
  BY <1>2, <1>8
<1> QED
  BY <1>1, <1>7, <1>8, <1>9, <1>10, <1>11 DEF BuildProjectModules, c, head, mid, foot

\* Every position behind the head and in front of the foot is one of the six
\* of a module.
LEMMA SixToAModule ==
  ASSUME NEW n \in Nat, NEW i \in 3 .. 6 * n + 2
  PROVE  \E k \in 1 .. n : \/ i = 6 * k - 3 \/ i = 6 * k - 2 \/ i = 6 * k - 1
                           \/ i = 6 * k \/ i = 6 * k + 1 \/ i = 6 * k + 2
<1> DEFINE j == i - 3
           q == j \div 6
           m == j % 6
<1>1. j \in Nat /\ j < 6 * n
  OBVIOUS
<1>2. q \in Nat /\ m \in 0 .. 5 /\ j = 6 * q + m
  <2> HIDE DEF j
  <2> QED
    BY <1>1
<1>3. i = 6 * q + m + 3 /\ q < n
  <2> HIDE DEF q, m
  <2> QED
    BY <1>1, <1>2
<1> DEFINE k == q + 1
<1>4. k \in 1 .. n /\ 6 * k = 6 * q + 6
  <2> HIDE DEF q
  <2> QED
    BY <1>2, <1>3
<1>5. \/ i = 6 * k - 3 \/ i = 6 * k - 2 \/ i = 6 * k - 1
      \/ i = 6 * k \/ i = 6 * k + 1 \/ i = 6 * k + 2
  <2> HIDE DEF q, m, k
  <2> QED
    BY <1>2, <1>3, <1>4
<1> QED
  BY <1>4, <1>5

\* The positions of the records of each kind.
LEMMA BuiltAt ==
  ASSUME NEW specs \in Seq(ModuleSpecs)
  PROVE  LET c == BuildProjectModules(specs)
             n == Len(specs)
         IN  /\ At(c, {"MODULENAME"}) = {6 * k - 3 : k \in 1 .. n}
             /\ At(c, {"MODULESTREAMNAME"}) = {6 * k - 2 : k \in 1 .. n}
             /\ At(c, {"MODULEOFFSET"}) = {6 * k - 1 : k \in 1 .. n}
             /\ At(c, {"MODULETYPE"}) = {6 * k + 1 : k \in 1 .. n}
             /\ At(c, {"PROJECTMODULES"}) = {1}
             /\ At(c, {"REFERENCENAME"}) = {} /\ At(c, {"PROJECTCODEPAGE"}) = {}
             /\ \A k \in 1 .. n :
                  /\ c[6 * k - 3].val = specs[k].Name /\ c[6 * k - 2].val = specs[k].StreamName
                  /\ c[6 * k - 1].val = 0 /\ c[6 * k + 1].val = specs[k].TypeID
<1> DEFINE c == BuildProjectModules(specs)
           n == Len(specs)
<1>1. /\ IsDir(c) /\ n \in Nat /\ Len(c) = 6 * n + 3 /\ DOMAIN c = 1 .. Len(c)
      /\ c[1].id = "PROJECTMODULES" /\ c[2].id = "PROJECTCOOKIE" /\ c[Len(c)].id = "TERMINATOR"
      /\ \A k \in 1 .. n : \A j \in 1 .. 6 : c[6 * k + j - 4] = modRecord(specs[k])[j]
  BY BuiltRecords
<1> HIDE DEF c, n
<1>2. ASSUME NEW k \in 1 .. n
      PROVE  /\ c[6 * k - 3] = Rec("MODULENAME", specs[k].Name)
             /\ c[6 * k - 2] = Rec("MODULESTREAMNAME", specs[k].StreamName)
             /\ c[6 * k - 1] = Rec("MODULEOFFSET", 0)
             /\ c[6 * k] = Rec("MODULECOOKIE", 0)
             /\ c[6 * k + 1] = Rec("MODULETYPE", specs[k].TypeID)
             /\ c[6 * k + 2] = Rec("MODULE", 0)
  <2>1. \A j \in 1 .. 6 : c[6 * k + j - 4] = modRecord(specs[k])[j]
    BY <1>1
  <2>2. /\ c[6 * k + 1 - 4] = modRecord(specs[k])[1] /\ c[6 * k + 2 - 4] = modRecord(specs[k])[2]
        /\ c[6 * k + 3 - 4] = modRecord(specs[k])[3] /\ c[6 * k + 4 - 4] = modRecord(specs[k])[4]
        /\ c[6 * k + 5 - 4] = modRecord(specs[k])[5] /\ c[6 * k + 6 - 4] = modRecord(specs[k])[6]
    BY <2>1
  <2>3. /\ 6 * k + 1 - 4 = 6 * k - 3 /\ 6 * k + 2 - 4 = 6 * k - 2 /\ 6 * k + 3 - 4 = 6 * k - 1
        /\ 6 * k + 4 - 4 = 6 * k /\ 6 * k + 5 - 4 = 6 * k + 1 /\ 6 * k + 6 - 4 = 6 * k + 2
    BY <1>1
  <2> QED
    BY <2>2, <2>3 DEF modRecord
<1>3. ASSUME NEW k \in 1 .. n
      PROVE  /\ 6 * k - 3 \in DOMAIN c /\ 6 * k - 2 \in DOMAIN c /\ 6 * k - 1 \in DOMAIN c
             /\ 6 * k \in DOMAIN c /\ 6 * k + 1 \in DOMAIN c /\ 6 * k + 2 \in DOMAIN c
             /\ c[6 * k - 3].id = "MODULENAME" /\ c[6 * k - 2].id = "MODULESTREAMNAME"
             /\ c[6 * k - 1].id = "MODULEOFFSET" /\ c[6 * k].id = "MODULECOOKIE"
             /\ c[6 * k + 1].id = "MODULETYPE" /\ c[6 * k + 2].id = "MODULE"
  <2>1. /\ 6 * k - 3 \in DOMAIN c /\ 6 * k - 2 \in DOMAIN c /\ 6 * k - 1 \in DOMAIN c
        /\ 6 * k \in DOMAIN c /\ 6 * k + 1 \in DOMAIN c /\ 6 * k + 2 \in DOMAIN c
    BY <1>1
  <2>2. \A id, val : Rec(id, val).id = id
    BY DEF Rec
  <2> QED
    BY <1>2, <2>1, <2>2
<1>4. ASSUME NEW i \in DOMAIN c
      PROVE  \/ i = 1 \/ i = 2 \/ i = Len(c)
             \/ \E k \in 1 .. n : \/ i = 6 * k - 3 \/ i = 6 * k - 2 \/ i = 6 * k - 1
                                  \/ i = 6 * k \/ i = 6 * k + 1 \/ i = 6 * k + 2
  <2>1. i \in 1 .. 6 * n + 3 /\ n \in Nat /\ Len(c) = 6 * n + 3
    BY <1>1
  <2>2. i = 1 \/ i = 2 \/ i = 6 * n + 3 \/ i \in 3 .. 6 * n + 2
    BY <2>1
  <2> QED
    BY <2>1, <2>2, SixToAModule
<1>5. /\ DOMAIN c \subseteq Nat /\ 1 \in DOMAIN c
      /\ \A k \in 1 .. n : 6 * k - 3 # 1 /\ 6 * k - 2 # 1 /\ 6 * k - 1 # 1 /\ 6 * k + 1 # 1
  BY <1>1
<1>6. ASSUME NEW i \in DOMAIN c
      PROVE  \/ i = 1 /\ c[i].id = "PROJECTMODULES"
             \/ c[i].id = "PROJECTCOOKIE" \/ c[i].id = "TERMINATOR"
             \/ \E k \in 1 .. n : \/ i = 6 * k - 3 /\ c[i].id = "MODULENAME"
                                  \/ i = 6 * k - 2 /\ c[i].id = "MODULESTREAMNAME"
                                  \/ i = 6 * k - 1 /\ c[i].id = "MODULEOFFSET"
                                  \/ c[i].id = "MODULECOOKIE"
                                  \/ i = 6 * k + 1 /\ c[i].id = "MODULETYPE"
                                  \/ c[i].id = "MODULE"
  <2>1. CASE i = 1 \/ i = 2 \/ i = Len(c)
    BY <1>1, <2>1
  <2>2. ASSUME NEW k \in 1 .. n,
               \/ i = 6 * k - 3 \/ i = 6 * k - 2 \/ i = 6 * k - 1
               \/ i = 6 * k \/ i = 6 * k + 1 \/ i = 6 * k + 2
        PROVE  \/ i = 6 * k - 3 /\ c[i].id = "MODULENAME"
               \/ i = 6 * k - 2 /\ c[i].id = "MODULESTREAMNAME"
               \/ i = 6 * k - 1 /\ c[i].id = "MODULEOFFSET"
               \/ c[i].id = "MODULECOOKIE"
               \/ i = 6 * k + 1 /\ c[i].id = "MODULETYPE"
               \/ c[i].id = "MODULE"
    BY <1>3, <2>2
  <2> QED
    BY <1>4, <2>1, <2>2
<1>7. At(c, {"MODULENAME"}) = {6 * k - 3 : k \in 1 .. n}
  <2>1. \A i : i \in At(c, {"MODULENAME"}) <=> i \in DOMAIN c /\ c[i].id = "MODULENAME"
    BY DEF At
  <2>2. \A i \in DOMAIN c : c[i].id = "MODULENAME" => \E k \in 1 .. n : i = 6 * k - 3
    BY <1>6
  <2>3. \A k \in 1 .. n : 6 * k - 3 \in DOMAIN c /\ c[6 * k - 3].id = "MODULENAME"
    BY <1>3
  <2> QED
    BY <2>1, <2>2, <2>3
<1>8. At(c, {"MODULESTREAMNAME"}) = {6 * k - 2 : k \in 1 .. n}
  <2>1. \A i : i \in At(c, {"MODULESTREAMNAME"}) <=> i \in DOMAIN c /\ c[i].id = "MODULESTREAMNAME"
    BY DEF At
  <2>2. \A i \in DOMAIN c : c[i].id = "MODULESTREAMNAME" => \E k \in 1 .. n : i = 6 * k - 2
    BY <1>6
  <2>3. \A k \in 1 .. n : 6 * k - 2 \in DOMAIN c /\ c[6 * k - 2].id = "MODULESTREAMNAME"
    BY <1>3
  <2> QED
    BY <2>1, <2>2, <2>3
<1>9. At(c, {"MODULEOFFSET"}) = {6 * k - 1 : k \in 1 .. n}
  <2>1. \A i : i \in At(c, {"MODULEOFFSET"}) <=> i \in DOMAIN c /\ c[i].id = "MODULEOFFSET"
    BY DEF At
  <2>2. \A i \in DOMAIN c : c[i].id = "MODULEOFFSET" => \E k \in 1 .. n : i = 6 * k - 1
    BY <1>6
  <2>3. \A k \in 1 .. n : 6 * k - 1 \in DOMAIN c /\ c[6 * k - 1].id = "MODULEOFFSET"
    BY <1>3
  <2> QED
    BY <2>1, <2>2, <2>3
<1>10. At(c, {"MODULETYPE"}) = {6 * k + 1 : k \in 1 .. n}
  <2>1. \A i : i \in At(c, {"MODULETYPE"}) <=> i \in DOMAIN c /\ c[i].id = "MODULETYPE"
    BY DEF At
  <2>2. \A i \in DOMAIN c : c[i].id = "MODULETYPE" => \E k \in 1 .. n : i = 6 * k + 1
    BY <1>6
  <2>3. \A k \in 1 .. n : 6 * k + 1 \in DOMAIN c /\ c[6 * k + 1].id = "MODULETYPE"
    BY <1>3
  <2> QED
    BY <2>1, <2>2, <2>3
<1>11. At(c, {"REFERENCENAME"}) = {} /\ At(c, {"PROJECTCODEPAGE"}) = {}
  BY <1>6 DEF At
<1>12. At(c, {"PROJECTMODULES"}) = {1}
  BY <1>1, <1>5, <1>6 DEF At
<1>13. \A k \in 1 .. n :
         /\ c[6 * k - 3].val = specs[k].Name /\ c[6 * k - 2].val = specs[k].StreamName
         /\ c[6 * k - 1].val = 0 /\ c[6 * k + 1].val = specs[k].TypeID
  <2>1. \A id, val : Rec(id, val).val = val
    BY DEF Rec
  <2> QED
    BY <1>2, <2>1
<1> QED
  BY <1>7, <1>8, <1>9, <1>10, <1>11, <1>12, <1>13 DEF c, n

\* ParseDir reads back the modules that BuildProjectModules wrote, each at
\* offset 0, whatever spans stand in front of them.
LEMMA EntriesOf ==
  ASSUME NEW r, IsDir(r), At(r, {"MODULENAME"}) = {}, NEW specs \in Seq(ModuleSpecs)
  PROVE  LET D == r \o BuildProjectModules(specs)
         IN  /\ DirModules(D) =
                  [k \in 1 .. Len(specs) |->
                     [Name |-> specs[k].Name, StreamName |-> specs[k].StreamName,
                      Offset |-> 0, TypeID |-> specs[k].TypeID]]
             /\ \A i \in At(D, {"MODULENAME"}) :
                  At(D, {"MODULEOFFSET"}) \cap (i .. RunEnd(D, i)) # {}
<1> DEFINE c == BuildProjectModules(specs)
           D == r \o c
           n == Len(specs)
           l == Len(r)
           f == [k \in 1 .. n |-> 6 * k - 3 + l]
<1>1. IsDir(c) /\ n \in Nat /\ Len(c) = 6 * n + 3
  BY BuiltRecords
<1>2. /\ At(c, {"MODULENAME"}) = {6 * k - 3 : k \in 1 .. n}
      /\ At(c, {"MODULESTREAMNAME"}) = {6 * k - 2 : k \in 1 .. n}
      /\ At(c, {"MODULEOFFSET"}) = {6 * k - 1 : k \in 1 .. n}
      /\ At(c, {"MODULETYPE"}) = {6 * k + 1 : k \in 1 .. n}
      /\ \A k \in 1 .. n :
           /\ c[6 * k - 3].val = specs[k].Name /\ c[6 * k - 2].val = specs[k].StreamName
           /\ c[6 * k - 1].val = 0 /\ c[6 * k + 1].val = specs[k].TypeID
  BY BuiltAt
<1> HIDE DEF c, n
<1>3. Joined(D, r, c) /\ Len(r) = l
  BY <1>1, ConcatAt
<1> HIDE DEF D
<1>4. /\ IsDir(D) /\ l \in Nat /\ Len(D) = l + 6 * n + 3
      /\ \A i \in 1 .. Len(c) : D[i + l] = c[i]
      /\ \A ids, x : x \in At(D, ids) <=> x \in At(r, ids) \/ \E i \in At(c, ids) : x = i + l
  BY <1>1, <1>3 DEF Joined
<1>5. \A ids : At(r, ids) \in SUBSET (1 .. l)
  BY AtIsPositions
<1> HIDE DEF l
<1>6. f \in [1 .. n -> 1 .. Len(D)]
  BY <1>1, <1>4
<1>7. \A i, j \in 1 .. n : i < j => f[i] < f[j]
  BY <1>1, <1>4
<1>8. Len(D) \in Nat
  BY <1>1, <1>4
<1>9. \A k \in 1 .. n : f[k] = (6 * k - 3) + l
  OBVIOUS
<1> HIDE DEF f
<1>10. At(D, {"MODULENAME"}) = {f[k] : k \in 1 .. n}
  <2>1. \A x : x \in At(D, {"MODULENAME"}) <=> \E i \in {6 * k - 3 : k \in 1 .. n} : x = i + l
    BY <1>2, <1>4
  <2>2. \A x : (\E i \in {6 * k - 3 : k \in 1 .. n} : x = i + l) <=> x \in {f[k] : k \in 1 .. n}
    BY <1>9
  <2> QED
    BY <2>1, <2>2
<1>11. Cardinality(At(D, {"MODULENAME"})) = n /\ \A k \in 1 .. n : Nth(At(D, {"MODULENAME"}), k) = f[k]
  <2> DEFINE S == {f[k] : k \in 1 .. n}
  <2>1. Cardinality(S) = n /\ \A k \in 1 .. n : Nth(S, k) = f[k]
    BY <1>1, <1>6, <1>7, <1>8, NthListed
  <2> QED
    BY <1>10, <2>1
<1>12. \A k \in 1 .. n : f[k] = 6 * k - 3 + l
  BY <1>9
<1>13. ASSUME NEW k \in 1 .. n
       PROVE  RunEnd(D, f[k]) = f[k] + 5 \/ RunEnd(D, f[k]) = f[k] + 6
  <2> DEFINE later == {j \in At(D, {"MODULENAME"}) : j > f[k]}
  <2>1. CASE k = n
    <3>1. \A j \in 1 .. n : ~(f[j] > f[k])
      BY <1>1, <1>4, <1>12, <2>1
    <3>2. later = {}
      BY <1>10, <3>1
    <3>3. Len(D) = f[k] + 6
      BY <1>1, <1>4, <1>12, <2>1
    <3> QED
      BY <3>2, <3>3 DEF RunEnd
  <2>2. CASE k # n
    <3>1. k + 1 \in 1 .. n /\ f[k + 1] = f[k] + 6 /\ f[k] \in Int
      BY <1>1, <1>4, <1>12, <2>2
    <3>2. \A j \in 1 .. n : f[j] > f[k] => f[k + 1] <= f[j]
      BY <1>1, <1>4, <1>12, <2>2
    <3>3. f[k + 1] \in later /\ (\A j \in later : f[k + 1] <= j) /\ later \subseteq Int
      BY <1>6, <1>10, <3>1, <3>2
    <3> HIDE DEF later
    <3>4. \A x \in later : (\A y \in later : x <= y) => x = f[k + 1]
      BY <3>1, <3>3
    <3>5. Min(later) = f[k + 1]
      BY <3>3, <3>4 DEF Min
    <3>6. RunEnd(D, f[k]) = Min(later) - 1
      BY <3>3 DEF RunEnd, later
    <3> QED
      BY <3>1, <3>5, <3>6
  <2> QED
    BY <2>1, <2>2
<1>14. ASSUME NEW k \in 1 .. n, NEW d \in {1, 2, 4}, NEW id, NEW default,
              \A x : x \in At(c, {id}) <=> \E j \in 1 .. n : x = 6 * j - 3 + d
       PROVE  /\ LastVal(D, id, f[k], RunEnd(D, f[k]), default) = c[6 * k - 3 + d].val
              /\ At(D, {id}) \cap (f[k] .. RunEnd(D, f[k])) # {}
  <2> DEFINE to == RunEnd(D, f[k])
             hits == At(D, {id}) \cap (f[k] .. to)
  <2>1. \A x : x \in At(D, {id}) <=> x \in At(r, {id}) \/ \E j \in 1 .. n : x = 6 * j - 3 + d + l
    <3>1. \A x : x \in At(D, {id}) <=> x \in At(r, {id}) \/ \E i \in At(c, {id}) : x = i + l
      BY <1>4
    <3>2. \A x : (\E i \in At(c, {id}) : x = i + l) <=> \E j \in 1 .. n : x = 6 * j - 3 + d + l
      BY <1>14
    <3> QED
      BY <3>1, <3>2
  <2>2. to \in Int /\ f[k] \in Int /\ f[k] = 6 * k - 3 + l /\ (to = f[k] + 5 \/ to = f[k] + 6)
    BY <1>1, <1>4, <1>12, <1>13
  <2> HIDE DEF to
  <2>3. \A x \in At(r, {id}) : ~(x \in f[k] .. to)
    BY <1>1, <1>4, <1>5, <2>2
  <2>4. \A j \in 1 .. n : 6 * j - 3 + d + l \in f[k] .. to => j = k
    BY <1>1, <1>4, <2>2
  <2>5. 6 * k - 3 + d + l \in f[k] .. to
    BY <1>1, <1>4, <2>2
  <2>6. hits = {6 * k - 3 + d + l}
    <3>1. ASSUME NEW x \in hits PROVE x = 6 * k - 3 + d + l
      <4>1. x \in f[k] .. to /\ x \notin At(r, {id}) /\ x \in At(D, {id})
        BY <2>3, <3>1
      <4>2. PICK j \in 1 .. n : x = 6 * j - 3 + d + l
        BY <2>1, <4>1
      <4> QED
        BY <2>4, <4>1, <4>2
    <3>2. 6 * k - 3 + d + l \in hits
      BY <2>1, <2>5
    <3> QED
      BY <3>1, <3>2
  <2>7. 6 * k - 3 + d \in 1 .. Len(c) /\ (6 * k - 3 + d) + l = 6 * k - 3 + d + l
    BY <1>1, <1>4
  <2> HIDE DEF hits
  <2>8. Max(hits) = 6 * k - 3 + d + l
    BY <1>1, <1>4, <2>6 DEF Max
  <2>9. LastVal(D, id, f[k], to, default) = D[Max(hits)].val
    BY <2>6 DEF LastVal, hits
  <2>10. D[(6 * k - 3 + d) + l] = c[6 * k - 3 + d]
    BY <1>4, <2>7
  <2>11. At(D, {id}) \cap (f[k] .. to) # {}
    BY <2>6 DEF hits
  <2> QED
    BY <2>7, <2>8, <2>9, <2>10, <2>11 DEF to
<1>15. ASSUME NEW k \in 1 .. n
       PROVE  /\ DirModule(D, f[k]) = [Name |-> specs[k].Name, StreamName |-> specs[k].StreamName,
                                       Offset |-> 0, TypeID |-> specs[k].TypeID]
              /\ At(D, {"MODULEOFFSET"}) \cap (f[k] .. RunEnd(D, f[k])) # {}
  <2>1. \A j \in 1 .. n : 6 * j - 2 = 6 * j - 3 + 1 /\ 6 * j - 1 = 6 * j - 3 + 2 /\ 6 * j + 1 = 6 * j - 3 + 4
    BY <1>1
  <2>2. LastVal(D, "MODULESTREAMNAME", f[k], RunEnd(D, f[k]), NoName) = specs[k].StreamName
    <3>1. At(c, {"MODULESTREAMNAME"}) = {6 * j - 2 : j \in 1 .. n}
      BY <1>2
    <3>2. \A x : x \in At(c, {"MODULESTREAMNAME"}) <=> \E j \in 1 .. n : x = 6 * j - 3 + 1
      BY <2>1, <3>1
    <3>3. 1 \in {1, 2, 4}
      OBVIOUS
    <3>4. LastVal(D, "MODULESTREAMNAME", f[k], RunEnd(D, f[k]), NoName) = c[6 * k - 3 + 1].val
      BY <1>14, <3>2, <3>3, Zenon
    <3> QED
      BY <1>2, <2>1, <3>4
  <2>3. /\ LastVal(D, "MODULEOFFSET", f[k], RunEnd(D, f[k]), 0) = 0
        /\ At(D, {"MODULEOFFSET"}) \cap (f[k] .. RunEnd(D, f[k])) # {}
    <3>1. At(c, {"MODULEOFFSET"}) = {6 * j - 1 : j \in 1 .. n}
      BY <1>2
    <3>2. \A x : x \in At(c, {"MODULEOFFSET"}) <=> \E j \in 1 .. n : x = 6 * j - 3 + 2
      BY <2>1, <3>1
    <3>3. 2 \in {1, 2, 4}
      OBVIOUS
    <3>4. /\ LastVal(D, "MODULEOFFSET", f[k], RunEnd(D, f[k]), 0) = c[6 * k - 3 + 2].val
          /\ At(D, {"MODULEOFFSET"}) \cap (f[k] .. RunEnd(D, f[k])) # {}
      BY <1>14, <3>2, <3>3, Zenon
    <3> QED
      BY <1>2, <2>1, <3>4
  <2>4. LastVal(D, "MODULETYPE", f[k], RunEnd(D, f[k]), 0) = specs[k].TypeID
    <3>1. At(c, {"MODULETYPE"}) = {6 * j + 1 : j \in 1 .. n}
      BY <1>2
    <3>2. \A x : x \in At(c, {"MODULETYPE"}) <=> \E j \in 1 .. n : x = 6 * j - 3 + 4
      BY <2>1, <3>1
    <3>3. 4 \in {1, 2, 4}
      OBVIOUS
    <3>4. LastVal(D, "MODULETYPE", f[k], RunEnd(D, f[k]), 0) = c[6 * k - 3 + 4].val
      BY <1>14, <3>2, <3>3, Zenon
    <3> QED
      BY <1>2, <2>1, <3>4
  <2>5. D[f[k]].val = specs[k].Name
    <3>1. 6 * k - 3 \in 1 .. Len(c) /\ f[k] = (6 * k - 3) + l
      BY <1>1, <1>4, <1>12
    <3>2. D[(6 * k - 3) + l] = c[6 * k - 3]
      BY <1>4, <3>1
    <3> QED
      BY <1>2, <3>1, <3>2
  <2> QED
    BY <2>2, <2>3, <2>4, <2>5 DEF DirModule
<1>16. DirModules(D) = [k \in 1 .. n |-> DirModule(D, f[k])]
  BY <1>11 DEF DirModules
<1>17. /\ DirModules(D) = [k \in 1 .. n |-> [Name |-> specs[k].Name, StreamName |-> specs[k].StreamName,
                                              Offset |-> 0, TypeID |-> specs[k].TypeID]]
       /\ \A i \in At(D, {"MODULENAME"}) : At(D, {"MODULEOFFSET"}) \cap (i .. RunEnd(D, i)) # {}
  BY <1>10, <1>15, <1>16
<1> QED
  BY <1>17 DEF D, c, n

-----------------------------------------------------------------------------
(***************************************************************************)
(* The spans that ParseDir keeps of a stream whose records are in order.   *)
(***************************************************************************)

\* A span holds the records of the stream at its positions.
LEMMA SpanAt ==
  ASSUME NEW r, IsDir(r), NEW m \in Nat \ {0}, NEW n \in Nat, m <= n + 1, n <= Len(r)
  PROVE  LET t == SubSeq(r, m, n)
         IN  /\ IsDir(t) /\ Len(t) = n + 1 - m
             /\ \A i \in 1 .. n + 1 - m : t[i] = r[m + i - 1]
             /\ \A ids : \A i \in At(t, ids) :
                  m + i - 1 \in At(r, ids) /\ i \in 1 .. n + 1 - m
<1> DEFINE t == SubSeq(r, m, n)
<1>1. r \in Seq(DirRecord) /\ Len(r) \in Nat /\ DOMAIN r = 1 .. Len(r)
  BY LenProperties, DirIsSeq
<1>2. \A i \in m .. n : i \in 1 .. Len(r) /\ r[i] \in DirRecord
  BY <1>1, ElementOfSeq
<1>3. /\ t \in Seq(DirRecord) /\ Len(t) = (IF m <= n THEN n - m + 1 ELSE 0)
      /\ \A i \in 1 .. n - m + 1 : t[i] = r[m + i - 1]
  BY <1>2, SubSeqProperties
<1> HIDE DEF t
<1>4. Len(t) = n + 1 - m /\ n - m + 1 = n + 1 - m
  BY <1>3
<1>5. IsDir(t) /\ DOMAIN t = 1 .. n + 1 - m
  BY <1>3, <1>4, DirIsSeq, LenProperties
<1>6. ASSUME NEW ids, NEW i \in At(t, ids)
      PROVE  m + i - 1 \in At(r, ids) /\ i \in 1 .. n + 1 - m
  <2>1. i \in 1 .. n + 1 - m /\ t[i].id \in ids
    BY <1>5 DEF At
  <2>2. m + i - 1 \in m .. n
    BY <1>1, <2>1
  <2> QED
    BY <1>1, <1>2, <1>3, <1>4, <2>1, <2>2 DEF At
<1> QED
  BY <1>3, <1>4, <1>5, <1>6 DEF t

\* A stream is its spans put together.
LEMMA SplitDir ==
  ASSUME NEW r, IsDir(r), NEW a \in 1 .. Len(r) + 1, NEW b \in a .. Len(r) + 1
  PROVE  r = SubSeq(r, 1, a - 1) \o SubSeq(r, a, b - 1) \o SubSeq(r, b, Len(r))
<1> DEFINE x == SubSeq(r, 1, a - 1)
           y == SubSeq(r, a, b - 1)
           z == SubSeq(r, b, Len(r))
           l == Len(r)
           c == x \o y \o z
<1>1. l \in Nat /\ r \in [1 .. l -> DirRecord]
  BY DirIsSeq, LenProperties
<1>2. a \in Nat \ {0} /\ b \in Nat \ {0} /\ a - 1 \in Nat /\ b - 1 \in Nat /\ a <= b /\ b <= l + 1
  BY <1>1
<1>3. /\ IsDir(x) /\ Len(x) = a - 1 /\ \A i \in 1 .. a - 1 : x[i] = r[1 + i - 1]
      /\ IsDir(y) /\ Len(y) = b - a /\ \A i \in 1 .. b - a : y[i] = r[a + i - 1]
      /\ IsDir(z) /\ Len(z) = l + 1 - b /\ \A i \in 1 .. l + 1 - b : z[i] = r[b + i - 1]
  <2>1. (a - 1) + 1 - 1 = a - 1 /\ (b - 1) + 1 - a = b - a /\ 1 <= (a - 1) + 1 /\ a <= (b - 1) + 1
        /\ a - 1 <= l /\ b - 1 <= l /\ l <= l
    BY <1>1, <1>2
  <2>2. IsDir(x) /\ Len(x) = a - 1 /\ \A i \in 1 .. a - 1 : x[i] = r[1 + i - 1]
    BY <1>1, <1>2, <2>1, SpanAt
  <2>3. IsDir(y) /\ Len(y) = b - a /\ \A i \in 1 .. b - a : y[i] = r[a + i - 1]
    BY <1>1, <1>2, <2>1, SpanAt
  <2>4. IsDir(z) /\ Len(z) = l + 1 - b /\ \A i \in 1 .. l + 1 - b : z[i] = r[b + i - 1]
    BY <1>1, <1>2, <2>1, SpanAt
  <2> QED
    BY <2>2, <2>3, <2>4
<1> HIDE DEF x, y, z
<1>4. Parts(c, x, y, z)
  BY <1>3, PartsAt
<1> HIDE DEF c, l
<1>5. /\ IsDir(c) /\ Len(c) = l
      /\ \A i \in 1 .. a - 1 : c[i] = x[i]
      /\ \A i \in 1 .. b - a : c[i + (a - 1)] = y[i]
      /\ \A i \in 1 .. l + 1 - b : c[i + (b - 1)] = z[i]
  <2>1. Len(x) + Len(y) = b - 1 /\ b - 1 + Len(z) = l
    BY <1>1, <1>2, <1>3
  <2> QED
    BY <1>3, <1>4, <2>1 DEF Parts
<1>6. c \in [1 .. l -> DirRecord]
  BY <1>1, <1>5, DirIsSeq, LenProperties
<1>7. ASSUME NEW i \in 1 .. l
      PROVE  c[i] = r[i]
  <2>1. CASE i \in 1 .. a - 1
    <3>1. 1 + i - 1 = i
      OBVIOUS
    <3> QED
      BY <1>3, <1>5, <2>1, <3>1
  <2>2. CASE i \in a .. b - 1
    <3>1. i - (a - 1) \in 1 .. b - a /\ (i - (a - 1)) + (a - 1) = i /\ a + (i - (a - 1)) - 1 = i
      BY <1>2, <2>2
    <3>2. c[(i - (a - 1)) + (a - 1)] = y[i - (a - 1)] /\ y[i - (a - 1)] = r[a + (i - (a - 1)) - 1]
      BY <1>3, <1>5, <3>1
    <3> QED
      BY <3>1, <3>2
  <2>3. CASE i \in b .. l
    <3>1. i - (b - 1) \in 1 .. l + 1 - b /\ (i - (b - 1)) + (b - 1) = i /\ b + (i - (b - 1)) - 1 = i
      BY <1>1, <1>2, <2>3
    <3>2. c[(i - (b - 1)) + (b - 1)] = z[i - (b - 1)] /\ z[i - (b - 1)] = r[b + (i - (b - 1)) - 1]
      BY <1>3, <1>5, <3>1
    <3> QED
      BY <3>1, <3>2
  <2> QED
    BY <1>1, <1>2, <2>1, <2>2, <2>3
<1>8. c = r
  BY <1>1, <1>6, <1>7
<1> QED
  BY <1>8 DEF c, x, y, z, l

\* Where the first record of a kind stands.
LEMMA FirstAtLeast ==
  ASSUME NEW r, IsDir(r), NEW id
  PROVE  /\ FirstAt(r, id) = 0 => At(r, {id}) = {}
         /\ FirstAt(r, id) # 0 => /\ FirstAt(r, id) \in At(r, {id})
                                  /\ \A i \in At(r, {id}) : FirstAt(r, id) <= i
         /\ FirstAt(r, id) \in 0 .. Len(r)
<1>1. Len(r) \in Nat /\ At(r, {id}) \in SUBSET (1 .. Len(r))
  BY AtIsPositions
<1>2. CASE At(r, {id}) = {}
  <2>1. FirstAt(r, id) = 0
    BY <1>2 DEF FirstAt
  <2>2. 0 \in 0 .. Len(r)
    BY <1>1
  <2> QED
    BY <1>2, <2>1, <2>2
<1>3. CASE At(r, {id}) # {}
  <2>1. At(r, {id}) \in SUBSET Nat
    <3> DEFINE T == At(r, {id})
    <3>1. T \in SUBSET (1 .. Len(r)) /\ Len(r) \in Nat
      BY <1>1
    <3> HIDE DEF T
    <3>2. T \in SUBSET Nat
      BY <3>1
    <3> QED
      BY <3>2 DEF T
  <2>2. PICK x \in At(r, {id}) : \A y \in At(r, {id}) : x <= y
    BY <1>3, <2>1, LeastOf
  <2>3. FirstAt(r, id) = x
    BY <2>2, FirstAtIs
  <2>4. x # 0 /\ x \in 0 .. Len(r)
    <3>1. x \in 1 .. Len(r) /\ Len(r) \in Nat
      BY <1>1
    <3> QED
      BY <3>1
  <2> DEFINE T == At(r, {id})
             f == FirstAt(r, id)
  <2>5. f = x /\ x \in T /\ \A y \in T : x <= y
    BY <2>2, <2>3
  <2> HIDE DEF T, f
  <2>6. /\ f = 0 => T = {}
        /\ f # 0 => f \in T /\ \A i \in T : f <= i
        /\ f \in 0 .. Len(r)
    BY <2>4, <2>5
  <2> QED
    BY <2>6 DEF T, f
<1> QED
  BY <1>2, <1>3

\* The spans of a stream in order hold what their names say, and its
\* references are those of the reference span.
LEMMA ReadSplit ==
  ASSUME NEW r, IsDir(r), IsOrdered(r)
  PROVE  LET a == ProjectInfoRaw(r)
             b == RefsRaw(r)
         IN  /\ IsDir(a) /\ IsDir(b)
             /\ At(a, {"REFERENCENAME"}) = {} /\ At(a, {"PROJECTMODULES"}) = {}
             /\ At(a, {"MODULENAME"}) = {}
             /\ At(b, {"PROJECTMODULES"}) = {} /\ At(b, {"MODULENAME"}) = {}
             /\ At(b, {"PROJECTCODEPAGE"}) = {}
             /\ b # << >> => b[1].id = "REFERENCENAME"
             /\ RefNames(r) = RefNames(b)
             /\ CodePage(r) = CodePage(a)
             /\ \A id : (\A i \in At(r, {id}) : i > RefEnd(r)) =>
                         At(a, {id}) = {} /\ At(b, {id}) = {}
<1> DEFINE s == RefStart(r)
           e == RefEnd(r)
           t == InfoEnd(r)
           l == Len(r)
           a == SubSeq(r, 1, t - 1)
           b == SubSeq(r, t, e - 1)
           c == SubSeq(r, e, l)
<1>1. /\ l \in Nat /\ s \in 0 .. l /\ e \in 1 .. l
      /\ e \in At(r, {"PROJECTMODULES"}) /\ \A i \in At(r, {"PROJECTMODULES"}) : e <= i
      /\ s = 0 => At(r, {"REFERENCENAME"}) = {}
      /\ s # 0 => /\ s \in At(r, {"REFERENCENAME"})
                  /\ \A i \in At(r, {"REFERENCENAME"}) : s <= i
  <2>1. l \in Nat
    BY AtIsPositions
  <2>2. /\ s = 0 => At(r, {"REFERENCENAME"}) = {}
        /\ s # 0 => /\ s \in At(r, {"REFERENCENAME"})
                    /\ \A i \in At(r, {"REFERENCENAME"}) : s <= i
        /\ s \in 0 .. l
    BY FirstAtLeast DEF RefStart
  <2>3. e # 0 /\ e \in 0 .. l
    BY FirstAtLeast DEF RefEnd, IsOrdered
  <2>4. e \in At(r, {"PROJECTMODULES"}) /\ \A i \in At(r, {"PROJECTMODULES"}) : e <= i
    BY <2>3, FirstAtLeast DEF RefEnd
  <2> HIDE DEF s, e, l
  <2> QED
    BY <2>1, <2>2, <2>3, <2>4
<1>2. /\ \A i \in At(r, {"REFERENCENAME"}) : i < e
      /\ \A i \in At(r, {"MODULENAME"}) : i > e
      /\ \A i \in At(r, {"PROJECTCODEPAGE"}) : i < t
  BY DEF IsOrdered
<1>3. t = IF s # 0 THEN s ELSE e
  BY DEF InfoEnd
<1>4. \A ids : At(r, ids) \in SUBSET (1 .. l)
  BY AtIsPositions
<1>5. ProjectInfoRaw(r) = a
  BY DEF ProjectInfoRaw
<1>6. s # 0 => s < e
  BY <1>1, <1>2
<1>7. b = RefsRaw(r)
  <2>1. CASE s # 0
    BY <1>1, <1>3, <1>6, <2>1 DEF RefsRaw
  <2>2. CASE s = 0
    <3>1. b = << >>
      BY <1>1, <1>3, <2>2, SubSeqEmpty
    <3> QED
      BY <2>2, <3>1 DEF RefsRaw
  <2> QED
    BY <2>1, <2>2
<1> HIDE DEF s, e, t, l
<1>8. t \in 1 .. l /\ t <= e /\ t - 1 \in Nat /\ e - 1 \in Nat
  BY <1>1, <1>3, <1>6
<1>9. /\ IsDir(a) /\ \A ids : \A i \in At(a, ids) : 1 + i - 1 \in At(r, ids) /\ i \in 1 .. (t - 1) + 1 - 1
      /\ IsDir(b) /\ Len(b) = (e - 1) + 1 - t
      /\ \A i \in 1 .. (e - 1) + 1 - t : b[i] = r[t + i - 1]
      /\ \A ids : \A i \in At(b, ids) : t + i - 1 \in At(r, ids) /\ i \in 1 .. (e - 1) + 1 - t
      /\ IsDir(c) /\ \A ids : \A i \in At(c, ids) : e + i - 1 \in At(r, ids) /\ i \in 1 .. l + 1 - e
  <2>1. 1 <= (t - 1) + 1 /\ t - 1 <= l /\ t <= (e - 1) + 1 /\ e - 1 <= l /\ e <= l + 1 /\ l <= l
        /\ 1 \in Nat \ {0} /\ t \in Nat \ {0} /\ e \in Nat \ {0}
    BY <1>1, <1>8
  <2>2. /\ IsDir(a) /\ \A ids : \A i \in At(a, ids) : 1 + i - 1 \in At(r, ids) /\ i \in 1 .. (t - 1) + 1 - 1
    BY <1>1, <1>8, <2>1, SpanAt DEF l
  <2>3. /\ IsDir(b) /\ Len(b) = (e - 1) + 1 - t
        /\ \A i \in 1 .. (e - 1) + 1 - t : b[i] = r[t + i - 1]
        /\ \A ids : \A i \in At(b, ids) : t + i - 1 \in At(r, ids) /\ i \in 1 .. (e - 1) + 1 - t
    BY <1>1, <1>8, <2>1, SpanAt DEF l
  <2>4. /\ IsDir(c) /\ \A ids : \A i \in At(c, ids) : e + i - 1 \in At(r, ids) /\ i \in 1 .. l + 1 - e
    BY <1>1, <1>8, <2>1, SpanAt DEF l
  <2> QED
    BY <2>2, <2>3, <2>4
<1>10. r = a \o b \o c
  <2>1. t \in 1 .. l + 1 /\ e \in t .. l + 1
    BY <1>1, <1>8
  <2> QED
    BY <2>1, SplitDir DEF l
<1> HIDE DEF a, b, c
<1>11. ASSUME NEW ids
       PROVE  /\ \A i \in At(a, ids) : i \in At(r, ids) /\ i < t /\ i \in Int
              /\ \A i \in At(b, ids) : t + i - 1 \in At(r, ids) /\ t + i - 1 >= t /\ t + i - 1 < e
              /\ \A i \in At(c, ids) : e + i - 1 \in At(r, ids) /\ e + i - 1 >= e
  <2>1. ASSUME NEW i \in At(a, ids) PROVE i \in At(r, ids) /\ i < t /\ i \in Int
    <3>1. i \in 1 .. (t - 1) + 1 - 1 /\ 1 + i - 1 \in At(r, ids)
      BY <1>9
    <3>2. 1 + i - 1 = i /\ i < t
      BY <1>8, <3>1
    <3> QED
      BY <3>1, <3>2
  <2>2. ASSUME NEW i \in At(b, ids)
        PROVE  t + i - 1 \in At(r, ids) /\ t + i - 1 >= t /\ t + i - 1 < e
    <3>1. i \in 1 .. (e - 1) + 1 - t /\ t + i - 1 \in At(r, ids)
      BY <1>9
    <3> QED
      BY <1>1, <1>8, <3>1
  <2>3. ASSUME NEW i \in At(c, ids) PROVE e + i - 1 \in At(r, ids) /\ e + i - 1 >= e
    <3>1. i \in 1 .. l + 1 - e /\ e + i - 1 \in At(r, ids)
      BY <1>9
    <3> QED
      BY <1>1, <1>8, <3>1
  <2> QED
    BY <2>1, <2>2, <2>3
<1>12. At(a, {"REFERENCENAME"}) = {}
  <2>1. ASSUME NEW i \in At(a, {"REFERENCENAME"}) PROVE FALSE
    <3>1. i \in At(r, {"REFERENCENAME"}) /\ i < t /\ i \in Int
      BY <1>11
    <3> QED
      BY <1>1, <1>3, <3>1
  <2> QED
    BY <2>1
<1>13. At(a, {"PROJECTMODULES"}) = {}
  <2>1. ASSUME NEW i \in At(a, {"PROJECTMODULES"}) PROVE FALSE
    <3>1. i \in At(r, {"PROJECTMODULES"}) /\ i < t /\ i \in Int
      BY <1>11
    <3> QED
      BY <1>1, <1>8, <3>1
  <2> QED
    BY <2>1
<1>14. At(a, {"MODULENAME"}) = {}
  <2>1. ASSUME NEW i \in At(a, {"MODULENAME"}) PROVE FALSE
    <3>1. i \in At(r, {"MODULENAME"}) /\ i < t /\ i \in Int
      BY <1>11
    <3> QED
      BY <1>1, <1>2, <1>8, <3>1
  <2> QED
    BY <2>1
<1>15. At(b, {"PROJECTMODULES"}) = {}
  <2>1. ASSUME NEW i \in At(b, {"PROJECTMODULES"}) PROVE FALSE
    <3> DEFINE j == t + i - 1
    <3>1. j \in At(r, {"PROJECTMODULES"}) /\ j < e
      BY <1>11
    <3>2. j \in 1 .. l
      BY <1>4, <3>1
    <3> HIDE DEF j
    <3> QED
      BY <1>1, <3>1, <3>2
  <2> QED
    BY <2>1
<1>16. At(b, {"MODULENAME"}) = {}
  <2>1. ASSUME NEW i \in At(b, {"MODULENAME"}) PROVE FALSE
    <3> DEFINE j == t + i - 1
    <3>1. j \in At(r, {"MODULENAME"}) /\ j < e
      BY <1>11
    <3>2. j \in 1 .. l
      BY <1>4, <3>1
    <3> HIDE DEF j
    <3> QED
      BY <1>1, <1>2, <3>1, <3>2
  <2> QED
    BY <2>1
<1>17. At(b, {"PROJECTCODEPAGE"}) = {}
  <2>1. ASSUME NEW i \in At(b, {"PROJECTCODEPAGE"}) PROVE FALSE
    <3> DEFINE j == t + i - 1
    <3>1. j \in At(r, {"PROJECTCODEPAGE"}) /\ j >= t
      BY <1>11
    <3>2. j \in 1 .. l
      BY <1>4, <3>1
    <3> HIDE DEF j
    <3> QED
      BY <1>1, <1>2, <1>8, <3>1, <3>2
  <2> QED
    BY <2>1
<1>18. At(c, {"REFERENCENAME"}) = {}
  <2>1. ASSUME NEW i \in At(c, {"REFERENCENAME"}) PROVE FALSE
    <3> DEFINE j == e + i - 1
    <3>1. j \in At(r, {"REFERENCENAME"}) /\ j >= e
      BY <1>11
    <3>2. j \in 1 .. l
      BY <1>4, <3>1
    <3> HIDE DEF j
    <3> QED
      BY <1>1, <1>2, <3>1, <3>2
  <2> QED
    BY <2>1
<1>19. b # << >> => b[1].id = "REFERENCENAME"
  <2> SUFFICES ASSUME b # << >> PROVE b[1].id = "REFERENCENAME"
    OBVIOUS
  <2>1. Len(b) \in Nat \ {0}
    BY <1>9, EmptySeq, DirIsSeq
  <2>2. s # 0 /\ 1 \in 1 .. (e - 1) + 1 - t /\ t + 1 - 1 = s
    BY <1>1, <1>3, <1>8, <1>9, <2>1
  <2>3. b[1] = r[s]
    BY <1>9, <2>2
  <2> QED
    BY <1>1, <2>2, <2>3 DEF At
<1>20. RefNames(r) = RefNames(b)
  BY <1>9, <1>10, <1>12, <1>18, RefNamesOf
<1>21. At(c, {"PROJECTCODEPAGE"}) = {}
  <2>1. ASSUME NEW i \in At(c, {"PROJECTCODEPAGE"}) PROVE FALSE
    <3> DEFINE j == e + i - 1
    <3>1. j \in At(r, {"PROJECTCODEPAGE"}) /\ j >= e
      BY <1>11
    <3>2. j \in 1 .. l
      BY <1>4, <3>1
    <3> HIDE DEF j
    <3> QED
      BY <1>1, <1>2, <1>8, <3>1, <3>2
  <2> QED
    BY <2>1
<1>22. CodePage(r) = CodePage(a)
  BY <1>9, <1>10, <1>17, <1>21, CodePageOf
<1>23. ASSUME NEW id, \A i \in At(r, {id}) : i > e
       PROVE  At(a, {id}) = {} /\ At(b, {id}) = {}
  <2>1. ASSUME NEW i \in At(a, {id}) PROVE FALSE
    <3>1. i \in At(r, {id}) /\ i < t /\ i \in Int
      BY <1>11
    <3> QED
      BY <1>1, <1>8, <1>23, <3>1
  <2>2. ASSUME NEW i \in At(b, {id}) PROVE FALSE
    <3> DEFINE j == t + i - 1
    <3>1. j \in At(r, {id}) /\ j < e
      BY <1>11
    <3>2. j \in 1 .. l
      BY <1>4, <3>1
    <3> HIDE DEF j
    <3> QED
      BY <1>1, <1>23, <3>1, <3>2
  <2> QED
    BY <2>1, <2>2
<1> QED
  BY <1>5, <1>7, <1>9, <1>12, <1>13, <1>14, <1>15, <1>16, <1>17, <1>19, <1>20, <1>22, <1>23 DEF e

-----------------------------------------------------------------------------
(***************************************************************************)
(* New offsets in a stream that states one for every module.               *)
(***************************************************************************)

\* Two streams of the same length and the same records are equal.
LEMMA SameRecords ==
  ASSUME NEW s, NEW t, IsDir(s), IsDir(t), Len(s) = Len(t),
         \A i \in 1 .. Len(s) : s[i] = t[i]
  PROVE  s = t
<1>1. s \in [1 .. Len(s) -> DirRecord] /\ t \in [1 .. Len(s) -> DirRecord]
  BY DirIsSeq, LenProperties
<1> QED
  BY <1>1

\* A span without offsets is left alone.
LEMMA SameSpan ==
  ASSUME NEW r, NEW s, IsDir(r), IsDir(s), Len(r) = Len(s),
         NEW m \in Nat \ {0}, NEW n \in Nat, m <= n + 1, n <= Len(r),
         \A i \in m .. n : r[i] = s[i]
  PROVE  SubSeq(r, m, n) = SubSeq(s, m, n)
<1> DEFINE x == SubSeq(r, m, n)
           y == SubSeq(s, m, n)
<1>1. /\ IsDir(x) /\ Len(x) = n + 1 - m
      /\ \A i \in 1 .. n + 1 - m : x[i] = r[m + i - 1]
  BY SpanAt
<1>2. /\ IsDir(y) /\ Len(y) = n + 1 - m
      /\ \A i \in 1 .. n + 1 - m : y[i] = s[m + i - 1]
  BY SpanAt
<1> HIDE DEF x, y
<1>3. \A i \in 1 .. n + 1 - m : m + i - 1 \in m .. n
  OBVIOUS
<1>4. \A i \in 1 .. n + 1 - m : x[i] = y[i]
  BY <1>1, <1>2, <1>3
<1>5. x = y
  BY <1>1, <1>2, <1>4, SameRecords
<1> QED
  BY <1>5 DEF x, y

\* The last value of a record that is no offset.
LEMMA SameLastVal ==
  ASSUME NEW r, NEW s, IsDir(r), NEW id, At(s, {id}) = At(r, {id}),
         \A i \in At(r, {id}) : s[i] = r[i]
  PROVE  \A from, to, default :
           LastVal(s, id, from, to, default) = LastVal(r, id, from, to, default)
<1> SUFFICES ASSUME NEW from, NEW to, NEW default
             PROVE  LastVal(s, id, from, to, default) = LastVal(r, id, from, to, default)
  OBVIOUS
<1> DEFINE hits == At(r, {id}) \cap (from .. to)
<1>1. CASE hits = {}
  BY <1>1 DEF LastVal
<1>2. CASE hits # {}
  <2>1. Len(r) \in Nat /\ hits \in SUBSET (1 .. Len(r))
    BY AtIsPositions
  <2>2. Max(hits) \in hits
    BY <1>2, <2>1, MaxOfPositions
  <2>3. s[Max(hits)] = r[Max(hits)]
    BY <2>2
  <2> QED
    BY <2>3 DEF LastVal
<1> QED
  BY <1>1, <1>2

WithOffset(recs, v) ==
  [i \in DOMAIN recs |-> IF recs[i].id = "MODULEOFFSET" THEN Rec("MODULEOFFSET", v) ELSE recs[i]]

\* ParseDir finds in it what was there, with the new offset in every entry.
LEMMA Reoffset ==
  ASSUME NEW r, IsDir(r), IsOrdered(r), HasOffsets(r), NEW v \in Nat
  PROVE  LET s == WithOffset(r, v)
         IN  /\ IsDir(s) /\ HasOffsets(s)
             /\ ProjectInfoRaw(s) = ProjectInfoRaw(r) /\ RefsRaw(s) = RefsRaw(r)
             /\ RefNames(s) = RefNames(r) /\ CodePage(s) = CodePage(r)
             /\ DirModules(s) =
                  [k \in DOMAIN DirModules(r) |->
                     [Name       |-> DirModules(r)[k].Name,
                      StreamName |-> DirModules(r)[k].StreamName,
                      Offset     |-> v,
                      TypeID     |-> DirModules(r)[k].TypeID]]
<1> DEFINE s == WithOffset(r, v)
<1>1. /\ Len(r) \in Nat /\ DOMAIN r = 1 .. Len(r)
      /\ \A i \in DOMAIN r : r[i] \in DirRecord
  BY DirIsSeq, LenProperties, ElementOfSeq
<1>2. /\ DOMAIN s = DOMAIN r
      /\ \A i \in DOMAIN r : s[i] = IF r[i].id = "MODULEOFFSET" THEN Rec("MODULEOFFSET", v) ELSE r[i]
  BY DEF WithOffset
<1>3. IsDir(s) /\ Len(s) = Len(r)
  <2>1. Rec("MODULEOFFSET", v) \in DirRecord
    BY DEF Rec, ValueIds, DirRecord
  <2>2. s \in [1 .. Len(r) -> DirRecord]
    BY <1>1, <2>1 DEF WithOffset
  <2>3. s \in Seq(DirRecord) /\ Len(s) = Len(r)
    BY <1>1, <2>2, SeqDef, LenProperties
  <2> QED
    BY <2>3, DirIsSeq
<1> HIDE DEF s
<1>4. \A i \in DOMAIN r : s[i].id = r[i].id /\ (r[i].id # "MODULEOFFSET" => s[i] = r[i])
  BY <1>2 DEF Rec
<1>5. \A ids : At(s, ids) = At(r, ids)
  BY <1>2, <1>4 DEF At
<1>6. \A id : id # "MODULEOFFSET" => \A i \in At(r, {id}) : s[i] = r[i]
  BY <1>4 DEF At
<1>7. /\ RefStart(s) = RefStart(r) /\ RefEnd(s) = RefEnd(r) /\ InfoEnd(s) = InfoEnd(r)
      /\ \A i : RunEnd(s, i) = RunEnd(r, i)
  <2>1. \A id : FirstAt(s, id) = FirstAt(r, id)
    BY <1>5 DEF FirstAt
  <2>2. ASSUME NEW i PROVE RunEnd(s, i) = RunEnd(r, i)
    <3>1. At(s, {"MODULENAME"}) = At(r, {"MODULENAME"})
      BY <1>5
    <3> QED
      BY <1>3, <3>1 DEF RunEnd
  <2> QED
    BY <2>1, <2>2 DEF RefStart, RefEnd, InfoEnd
<1>8. HasOffsets(s)
  BY <1>5, <1>7 DEF HasOffsets
<1>9. /\ RefEnd(r) \in 1 .. Len(r)
      /\ RefStart(r) \in 0 .. Len(r) /\ (RefStart(r) # 0 => RefStart(r) < RefEnd(r))
  <2>1. RefEnd(r) \in 0 .. Len(r) /\ RefEnd(r) # 0
    BY FirstAtLeast DEF RefEnd, IsOrdered
  <2>2. RefStart(r) \in 0 .. Len(r)
    BY FirstAtLeast DEF RefStart
  <2>3. RefStart(r) # 0 => RefStart(r) \in At(r, {"REFERENCENAME"})
    BY FirstAtLeast DEF RefStart
  <2> QED
    BY <1>1, <2>1, <2>2, <2>3 DEF IsOrdered
<1>10. \A i \in 1 .. Len(r) : i < RefEnd(r) => r[i] = s[i]
  BY <1>1, <1>4, <1>9 DEF HasOffsets, At
<1>11. ProjectInfoRaw(s) = ProjectInfoRaw(r)
  <2> DEFINE t == InfoEnd(r)
  <2>1. t \in 1 .. RefEnd(r)
    BY <1>9 DEF InfoEnd
  <2>2. t - 1 \in Nat /\ 1 <= (t - 1) + 1 /\ t - 1 <= Len(r)
    BY <1>1, <1>9, <2>1
  <2>3. \A i \in 1 .. t - 1 : r[i] = s[i]
    BY <1>1, <1>9, <1>10, <2>1
  <2> HIDE DEF t
  <2>4. SubSeq(r, 1, t - 1) = SubSeq(s, 1, t - 1)
    BY <1>3, <2>2, <2>3, SameSpan
  <2> QED
    BY <1>7, <2>4 DEF ProjectInfoRaw, t
<1>12. RefsRaw(s) = RefsRaw(r)
  <2> DEFINE m == RefStart(r)
             n == RefEnd(r) - 1
  <2>1. CASE m # 0 /\ RefEnd(r) > m
    <3>1. m \in Nat \ {0} /\ n \in Nat /\ m <= n + 1 /\ n <= Len(r)
      BY <1>1, <1>9, <2>1
    <3>2. \A i \in m .. n : r[i] = s[i]
      BY <1>1, <1>9, <1>10, <3>1
    <3> HIDE DEF m, n
    <3>3. SubSeq(r, m, n) = SubSeq(s, m, n)
      BY <1>3, <3>1, <3>2, SameSpan
    <3> QED
      BY <1>7, <3>3 DEF RefsRaw, m, n
  <2>2. CASE ~(m # 0 /\ RefEnd(r) > m)
    BY <1>7, <2>2 DEF RefsRaw
  <2> QED
    BY <2>1, <2>2
<1>13. CodePage(s) = CodePage(r)
  <2>1. /\ At(s, {"PROJECTCODEPAGE"}) = At(r, {"PROJECTCODEPAGE"})
        /\ \A i \in At(r, {"PROJECTCODEPAGE"}) : s[i] = r[i]
    BY <1>5, <1>6
  <2>2. \A from, to, default : LastVal(s, "PROJECTCODEPAGE", from, to, default)
                                 = LastVal(r, "PROJECTCODEPAGE", from, to, default)
    BY <2>1, SameLastVal
  <2> QED
    BY <1>3, <2>2 DEF CodePage
<1>14. RefNames(s) = RefNames(r)
  <2> DEFINE names == At(r, {"REFERENCENAME"})
             fresh == {i \in names : \A j \in names : r[j].val = r[i].val => i <= j}
  <2>1. \A i \in names : s[i] = r[i]
    BY <1>6
  <2>2. fresh \in SUBSET (1 .. Len(r))
    BY AtIsPositions
  <2>3. \A k \in 1 .. Cardinality(fresh) : Nth(fresh, k) \in names
    BY <1>1, <2>2, NthOfPositions
  <2>4. fresh = {i \in names : \A j \in names : s[j].val = s[i].val => i <= j}
    BY <2>1
  <2>5. RefNames(s) = [k \in 1 .. Cardinality(fresh) |-> s[Nth(fresh, k)].val]
    <3>1. At(s, {"REFERENCENAME"}) = names
      BY <1>5
    <3> HIDE DEF names, fresh
    <3>2. RefNames(s) = LET f == {i \in names : \A j \in names : s[j].val = s[i].val => i <= j}
                        IN  [k \in 1 .. Cardinality(f) |-> s[Nth(f, k)].val]
      BY <3>1 DEF RefNames
    <3> QED
      BY <2>4, <3>2
  <2>6. RefNames(r) = [k \in 1 .. Cardinality(fresh) |-> r[Nth(fresh, k)].val]
    BY DEF RefNames
  <2> HIDE DEF fresh, names
  <2>7. \A k \in 1 .. Cardinality(fresh) : s[Nth(fresh, k)] = r[Nth(fresh, k)]
    BY <2>1, <2>3
  <2> QED
    BY <2>5, <2>6, <2>7
<1>15. ASSUME NEW i \in At(r, {"MODULENAME"})
       PROVE  DirModule(s, i) = [Name |-> DirModule(r, i).Name, StreamName |-> DirModule(r, i).StreamName,
                                 Offset |-> v, TypeID |-> DirModule(r, i).TypeID]
  <2>1. s[i].val = r[i].val
    BY <1>6
  <2>2. LastVal(s, "MODULESTREAMNAME", i, RunEnd(r, i), NoName)
          = LastVal(r, "MODULESTREAMNAME", i, RunEnd(r, i), NoName)
    <3>1. /\ At(s, {"MODULESTREAMNAME"}) = At(r, {"MODULESTREAMNAME"})
          /\ \A j \in At(r, {"MODULESTREAMNAME"}) : s[j] = r[j]
      BY <1>5, <1>6
    <3>2. \A from, to, default :
            LastVal(s, "MODULESTREAMNAME", from, to, default) = LastVal(r, "MODULESTREAMNAME", from, to, default)
      BY <3>1, SameLastVal
    <3> QED
      BY <3>2
  <2>3. LastVal(s, "MODULETYPE", i, RunEnd(r, i), 0) = LastVal(r, "MODULETYPE", i, RunEnd(r, i), 0)
    <3>1. /\ At(s, {"MODULETYPE"}) = At(r, {"MODULETYPE"})
          /\ \A j \in At(r, {"MODULETYPE"}) : s[j] = r[j]
      BY <1>5, <1>6
    <3>2. \A from, to, default :
            LastVal(s, "MODULETYPE", from, to, default) = LastVal(r, "MODULETYPE", from, to, default)
      BY <3>1, SameLastVal
    <3> QED
      BY <3>2
  <2>4. LastVal(s, "MODULEOFFSET", i, RunEnd(r, i), 0) = v
    <3> DEFINE hits == At(s, {"MODULEOFFSET"}) \cap (i .. RunEnd(r, i))
    <3>1. hits # {} /\ hits \in SUBSET (1 .. Len(r))
      BY <1>5, AtIsPositions DEF HasOffsets
    <3>2. Max(hits) \in hits
      BY <1>1, <3>1, MaxOfPositions
    <3>3. s[Max(hits)] = Rec("MODULEOFFSET", v)
      BY <1>2, <1>5, <3>2 DEF At
    <3>4. LastVal(s, "MODULEOFFSET", i, RunEnd(r, i), 0) = s[Max(hits)].val
      BY <3>1 DEF LastVal
    <3> QED
      BY <3>3, <3>4 DEF Rec
  <2> QED
    BY <1>7, <2>1, <2>2, <2>3, <2>4 DEF DirModule
<1>16. DirModules(s) = [k \in DOMAIN DirModules(r) |->
                          [Name       |-> DirModules(r)[k].Name,
                           StreamName |-> DirModules(r)[k].StreamName,
                           Offset     |-> v,
                           TypeID     |-> DirModules(r)[k].TypeID]]
  <2> DEFINE starts == At(r, {"MODULENAME"})
             n == Cardinality(starts)
  <2>1. DirModules(r) = [k \in 1 .. n |-> DirModule(r, Nth(starts, k))]
    BY DEF DirModules
  <2>2. DirModules(s) = [k \in 1 .. n |-> DirModule(s, Nth(starts, k))]
    BY <1>5 DEF DirModules
  <2>3. \A k \in 1 .. n : Nth(starts, k) \in starts
    BY <1>1, AtIsPositions, NthOfPositions
  <2> HIDE DEF starts, n
  <2>4. \A k \in 1 .. n :
          DirModule(s, Nth(starts, k)) =
            [Name       |-> DirModules(r)[k].Name,
             StreamName |-> DirModules(r)[k].StreamName,
             Offset     |-> v,
             TypeID     |-> DirModules(r)[k].TypeID]
    BY <1>15, <2>1, <2>3 DEF starts
  <2> QED
    BY <2>1, <2>2, <2>4
<1> QED
  BY <1>3, <1>8, <1>11, <1>12, <1>13, <1>14, <1>16 DEF s

\* Whether or not there are offsets to replace, the names stay.
LEMMA NamesKept ==
  ASSUME NEW r, IsDir(r), NEW v \in Nat
  PROVE  LET d == DirModules(r)
             e == DirModules(WithOffset(r, v))
         IN  /\ DOMAIN e = DOMAIN d
             /\ \A k \in DOMAIN d : e[k].Name = d[k].Name /\ e[k].StreamName = d[k].StreamName
<1> DEFINE s == WithOffset(r, v)
           starts == At(r, {"MODULENAME"})
           n == Cardinality(starts)
<1>1. /\ Len(r) \in Nat /\ DOMAIN r = 1 .. Len(r)
      /\ \A i \in DOMAIN r : r[i] \in DirRecord
  BY DirIsSeq, LenProperties, ElementOfSeq
<1>2. /\ DOMAIN s = DOMAIN r
      /\ \A i \in DOMAIN r : s[i] = IF r[i].id = "MODULEOFFSET" THEN Rec("MODULEOFFSET", v) ELSE r[i]
  BY DEF WithOffset
<1>3. Len(s) = Len(r)
  <2>1. s \in [1 .. Len(r) -> DirRecord \cup {Rec("MODULEOFFSET", v)}]
    BY <1>1 DEF WithOffset
  <2> QED
    BY <1>1, <2>1, SeqDef, LenProperties
<1> HIDE DEF s
<1>4. \A i \in DOMAIN r : s[i].id = r[i].id /\ (r[i].id # "MODULEOFFSET" => s[i] = r[i])
  BY <1>2 DEF Rec
<1>5. \A ids : At(s, ids) = At(r, ids)
  BY <1>2, <1>4 DEF At
<1>6. \A id : id # "MODULEOFFSET" => \A i \in At(r, {id}) : s[i] = r[i]
  BY <1>4 DEF At
<1>7. \A i : RunEnd(s, i) = RunEnd(r, i)
  <2>1. At(s, {"MODULENAME"}) = At(r, {"MODULENAME"})
    BY <1>5
  <2> QED
    BY <1>3, <2>1 DEF RunEnd
<1>8. ASSUME NEW i \in starts
      PROVE  /\ DirModule(s, i).Name = DirModule(r, i).Name
             /\ DirModule(s, i).StreamName = DirModule(r, i).StreamName
  <2>1. /\ At(s, {"MODULESTREAMNAME"}) = At(r, {"MODULESTREAMNAME"})
        /\ \A j \in At(r, {"MODULESTREAMNAME"}) : s[j] = r[j]
        /\ s[i].val = r[i].val
    BY <1>5, <1>6
  <2>2. \A from, to, default :
          LastVal(s, "MODULESTREAMNAME", from, to, default) = LastVal(r, "MODULESTREAMNAME", from, to, default)
    BY <2>1, SameLastVal
  <2> QED
    BY <1>7, <2>1, <2>2 DEF DirModule
<1>9. /\ DirModules(r) = [k \in 1 .. n |-> DirModule(r, Nth(starts, k))]
      /\ DirModules(s) = [k \in 1 .. n |-> DirModule(s, Nth(starts, k))]
  BY <1>5 DEF DirModules
<1>10. \A k \in 1 .. n : Nth(starts, k) \in starts
  BY <1>1, AtIsPositions, NthOfPositions
<1> HIDE DEF starts, n
<1> QED
  BY <1>8, <1>9, <1>10 DEF s
=============================================================================
