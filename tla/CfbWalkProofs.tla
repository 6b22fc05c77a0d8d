--------------------------- MODULE CfbWalkProofs ---------------------------
(***************************************************************************)
(* What walkDir computes, for every array of entries, and lemmas about     *)
(* numbers and sequences that the theorems about directories need.         *)
(***************************************************************************)
EXTENDS CfbWalk, FiniteSetsExt, SequencesExt, SequenceTheorems, FiniteSetTheorems,
        WellFoundedInduction, TLAPS

-----------------------------------------------------------------------------
(***************************************************************************)
(* Numbers.                                                                *)
(***************************************************************************)

\* A non-empty set of numbers has a least element.
LEMMA LeastOf ==
  ASSUME NEW T \in SUBSET Nat, T # {}
  PROVE  \E x \in T : \A y \in T : x <= y
<1> DEFINE Below == OpToRel(<, Nat)
<1>1. IsWellFoundedOn(Below, Nat)
  BY NatLessThanWellFounded
<1>2. \E x \in T : \A y \in T : ~(<< y, x >> \in Below)
  <2> HIDE DEF Below
  <2> QED
    BY <1>1, WFMin
<1>3. \A x, y \in Nat : x < y => << x, y >> \in Below
  BY DEF OpToRel
<1> HIDE DEF Below
<1>4. PICK x \in T : \A y \in T : ~(y < x)
  BY <1>2, <1>3
<1> QED
  BY <1>4

\* A set of numbers with 0 and with the successors of its elements has all.
LEMMA AllNumbers ==
  ASSUME NEW T, 0 \in T, \A n \in Nat : n \in T => n + 1 \in T
  PROVE  \A n \in Nat : n \in T
<1> DEFINE U == {n \in Nat : n \notin T}
<1> SUFFICES ASSUME U # {}
             PROVE  FALSE
  OBVIOUS
<1>1. PICK x \in U : \A y \in U : x <= y
  <2>1. U \in SUBSET Nat
    OBVIOUS
  <2> HIDE DEF U
  <2> QED
    BY <2>1, LeastOf
<1>2. x \in Nat \ {0} /\ x - 1 \in Nat /\ (x - 1) + 1 = x /\ ~(x <= x - 1)
  BY <1>1
<1>3. x - 1 \in T
  BY <1>1, <1>2
<1> QED
  BY <1>1, <1>2, <1>3

-----------------------------------------------------------------------------
(***************************************************************************)
(* FlattenSeq.                                                             *)
(***************************************************************************)

\* The recursion of FlattenSeq, over n parts.
IsFlat(f, parts, n) == f = [j \in 1 .. n |-> IF j = 1 THEN parts[j] ELSE f[j - 1] \o parts[j]]

\* What the recursion says at each place.
LEMMA FlatAt ==
  ASSUME NEW f, NEW parts, NEW n \in Nat, IsFlat(f, parts, n)
  PROVE  \A j \in 1 .. n : f[j] = IF j = 1 THEN parts[j] ELSE f[j - 1] \o parts[j]
<1> DEFINE body(j) == IF j = 1 THEN parts[j] ELSE f[j - 1] \o parts[j]
<1>1. f = [j \in 1 .. n |-> body(j)]
  BY DEF IsFlat
<1> HIDE DEF body
<1>2. \A j \in 1 .. n : f[j] = body(j)
  BY <1>1
<1> QED
  BY <1>2 DEF body

\* The recursion defines a function, of every number of parts.
LEMMA FlatExists ==
  ASSUME NEW parts
  PROVE  \A n \in Nat : \E f : IsFlat(f, parts, n)
<1> DEFINE Bad == {n \in Nat : ~ \E f : IsFlat(f, parts, n)}
<1> SUFFICES ASSUME Bad # {}
             PROVE  FALSE
  OBVIOUS
<1>1. PICK n \in Bad : \A y \in Bad : n <= y
  <2>1. Bad \in SUBSET Nat
    OBVIOUS
  <2> HIDE DEF Bad
  <2> QED
    BY <2>1, LeastOf
<1>2. n \in Nat /\ ~ \E f : IsFlat(f, parts, n)
  BY <1>1
<1>3. n # 0
  <2> SUFFICES ASSUME n = 0
               PROVE  \E f : IsFlat(f, parts, n)
    BY <1>2
  <2> DEFINE e == [j \in 1 .. 0 |-> j]
  <2>1. e = [j \in 1 .. 0 |-> IF j = 1 THEN parts[j] ELSE e[j - 1] \o parts[j]]
    OBVIOUS
  <2> HIDE DEF e
  <2> QED
    BY <2>1 DEF IsFlat
<1>4. n - 1 \in Nat /\ n - 1 \notin Bad
  <2>1. n \in Nat /\ n # 0 /\ \A y \in Bad : n <= y
    BY <1>1, <1>2, <1>3
  <2> HIDE DEF Bad
  <2>2. n - 1 \in Nat /\ ~(n <= n - 1)
    BY <2>1
  <2> QED
    BY <2>1, <2>2
<1>5. PICK f : IsFlat(f, parts, n - 1)
  BY <1>4
<1>6. \A j \in 1 .. n - 1 : f[j] = IF j = 1 THEN parts[j] ELSE f[j - 1] \o parts[j]
  BY <1>4, <1>5, FlatAt
<1> DEFINE last == IF n = 1 THEN parts[n] ELSE f[n - 1] \o parts[n]
           g == [j \in 1 .. n |-> IF j < n THEN f[j] ELSE last]
           body(j) == IF j = 1 THEN parts[j] ELSE g[j - 1] \o parts[j]
<1>7. /\ \A j \in 1 .. n : j < n => g[j] = f[j]
      /\ g[n] = last /\ g = [j \in 1 .. n |-> g[j]]
  <2> HIDE DEF last
  <2> QED
    BY <1>2, <1>3
<1> HIDE DEF g
<1>8. ASSUME NEW j \in 1 .. n
      PROVE  g[j] = body(j)
  <2>1. j # 1 => g[j - 1] = f[j - 1]
    <3>1. j # 1 => j - 1 \in 1 .. n /\ j - 1 < n
      BY <1>2
    <3> QED
      BY <1>7, <3>1
  <2>2. CASE j < n
    <3>1. j \in 1 .. n - 1 /\ g[j] = f[j]
      BY <1>2, <1>7, <2>2
    <3> QED
      BY <1>6, <2>1, <3>1
  <2>3. CASE j = n
    BY <1>7, <2>1, <2>3
  <2> QED
    BY <1>2, <2>2, <2>3
<1>9. g = [j \in 1 .. n |-> body(j)]
  <2> HIDE DEF body
  <2> QED
    BY <1>7, <1>8
<1>10. IsFlat(g, parts, n)
  BY <1>9 DEF IsFlat
<1> QED
  BY <1>2, <1>10

-----------------------------------------------------------------------------
(***************************************************************************)
(* The recursion of walkDir.                                               *)
(***************************************************************************)

\* Arrays of entries that link by numbers.
IsArray(E) ==
  /\ \E n \in Nat : DOMAIN E = 1 .. n
  /\ \A i \in DOMAIN E : E[i].left \in Int /\ E[i].right \in Int /\ E[i].child \in Int

\* What a walk makes of a call, and the body of walkDir.
WalkTo(w, idx, prefix, acc) == w[[idx |-> idx, prefix |-> prefix, acc |-> acc]]

Seeing(acc, idx) == [acc EXCEPT !.seen = @ \cup {idx}]
Left(E, w, idx, prefix, acc) == WalkTo(w, E[idx + 1].left, prefix, Seeing(acc, idx))
Self(E, w, idx, prefix, acc) ==
  LET e    == E[idx + 1]
      path == Append(prefix, e.name)
      left == Left(E, w, idx, prefix, acc)
  IN  IF e.type = "stream" THEN [left EXCEPT !.order = Append(@, path)]
      ELSE IF e.type = "storage" THEN WalkTo(w, e.child, path, left)
      ELSE left
VisitAt(E, w, idx, prefix, acc) ==
  IF ~IsEntry(E, idx) \/ idx \in acc.seen THEN acc
  ELSE WalkTo(w, E[idx + 1].right, prefix, Self(E, w, idx, prefix, acc))

IsWalk(E, w) == w = [call \in Calls(E) |-> VisitAt(E, w, call.idx, call.prefix, call.acc)]

\* walkDir is a function that satisfies its recursion, if there is one.
LEMMA WalkChosen == \A E : walkDir(E) = CHOOSE w : IsWalk(E, w)
BY DEF walkDir, IsWalk, VisitAt, Self, Left, Seeing, WalkTo

PathPrefixes(E) == Seq(EntryNames(E))

\* What the walk says of one call.
IsCall(E, idx, prefix, acc) == idx \in Int /\ prefix \in PathPrefixes(E) /\ acc \in Walks(E)

\* What a walk collects is its two fields.
LEMMA WalksAre ==
  ASSUME NEW E, NEW acc
  PROVE  acc \in Walks(E) <=> /\ acc = [seen |-> acc.seen, order |-> acc.order]
                              /\ acc.seen \subseteq Indexes(E)
                              /\ acc.order \in Seq(PathPrefixes(E))
BY DEF Walks, PathPrefixes

\* The call of some arguments is a call.
LEMMA CallIs ==
  ASSUME NEW E, NEW idx, NEW prefix, NEW acc, IsCall(E, idx, prefix, acc)
  PROVE  [idx |-> idx, prefix |-> prefix, acc |-> acc] \in Calls(E)
BY DEF IsCall, Calls, PathPrefixes

\* A walk makes of a call what its body makes of the arguments.
LEMMA ToVisit ==
  ASSUME NEW E, NEW w, IsWalk(E, w), NEW idx, NEW prefix, NEW acc, IsCall(E, idx, prefix, acc)
  PROVE  WalkTo(w, idx, prefix, acc) = VisitAt(E, w, idx, prefix, acc)
<1> DEFINE call == [idx |-> idx, prefix |-> prefix, acc |-> acc]
           body(c) == VisitAt(E, w, c.idx, c.prefix, c.acc)
<1>1. call \in Calls(E) /\ call.idx = idx /\ call.prefix = prefix /\ call.acc = acc
  BY CallIs
<1>2. w = [c \in Calls(E) |-> body(c)]
  BY DEF IsWalk
<1> HIDE DEF body, call
<1>3. w[call] = body(call)
  BY <1>1, <1>2
<1> QED
  BY <1>1, <1>3 DEF WalkTo, body, call

\* A call in which less is still to be seen.
Later(E, seen, idx, prefix, acc) == IsCall(E, idx, prefix, acc) /\ seen \subseteq acc.seen /\ acc.seen # seen

\* Later calls return what walks return and forget nothing.
Sound(E, w, seen) ==
  \A idx, prefix, acc : Later(E, seen, idx, prefix, acc) =>
    WalkTo(w, idx, prefix, acc) \in Walks(E) /\ acc.seen \subseteq WalkTo(w, idx, prefix, acc).seen

Alike(E, v, w, seen) ==
  \A idx, prefix, acc : Later(E, seen, idx, prefix, acc) =>
    WalkTo(v, idx, prefix, acc) = WalkTo(w, idx, prefix, acc)

\* Seeing an entry leaves the order of the paths alone.
LEMMA SeeingIs ==
  ASSUME NEW A, NEW B, NEW acc \in [seen : A, order : B], NEW idx
  PROVE  Seeing(acc, idx) = [seen |-> acc.seen \cup {idx}, order |-> acc.order]
BY DEF Seeing

\* Where a visit goes, when the calls it makes are sound.
LEMMA VisitGoes ==
  ASSUME NEW E, IsArray(E), NEW w, NEW idx, NEW prefix, NEW acc, IsCall(E, idx, prefix, acc),
         IsEntry(E, idx), idx \notin acc.seen, Sound(E, w, acc.seen)
  PROVE  LET e    == E[idx + 1]
             path == Append(prefix, e.name)
             left == Left(E, w, idx, prefix, acc)
             self == Self(E, w, idx, prefix, acc)
         IN  /\ Later(E, acc.seen, e.left, prefix, Seeing(acc, idx))
             /\ Later(E, acc.seen, e.child, path, left)
             /\ Later(E, acc.seen, e.right, prefix, self)
<1> DEFINE e == E[idx + 1]
           path == Append(prefix, e.name)
           here == Seeing(acc, idx)
           left == Left(E, w, idx, prefix, acc)
           self == Self(E, w, idx, prefix, acc)
<1>1. /\ acc = [seen |-> acc.seen, order |-> acc.order] /\ acc.seen \subseteq Indexes(E)
      /\ acc.order \in Seq(PathPrefixes(E)) /\ prefix \in PathPrefixes(E)
  BY WalksAre DEF IsCall
<1>2. idx + 1 \in DOMAIN E
  BY DEF IsEntry, Indexes, IsArray
<1>3. e.left \in Int /\ e.right \in Int /\ e.child \in Int
  BY <1>2 DEF IsArray
<1>4. e.name \in EntryNames(E) /\ path \in PathPrefixes(E)
  BY <1>1, <1>2 DEF EntryNames, PathPrefixes
<1> HIDE DEF e
<1>5. here = [seen |-> acc.seen \cup {idx}, order |-> acc.order]
  <2>1. acc \in [seen : SUBSET Indexes(E), order : Seq(Seq(EntryNames(E)))]
    BY DEF IsCall, Walks
  <2>2. Seeing(acc, idx) = [seen |-> acc.seen \cup {idx}, order |-> acc.order]
    BY <2>1, SeeingIs
  <2> QED
    BY <2>2
<1>6. here \in Walks(E) /\ acc.seen \subseteq here.seen /\ here.seen # acc.seen
  BY <1>1, <1>5, WalksAre DEF IsEntry
<1>7. Later(E, acc.seen, e.left, prefix, here)
  BY <1>1, <1>3, <1>6 DEF Later, IsCall
<1>8. left \in Walks(E) /\ here.seen \subseteq left.seen
  BY <1>7 DEF Sound, Left, e
<1> HIDE DEF here
<1>9. acc.seen \subseteq left.seen /\ left.seen # acc.seen
  BY <1>5, <1>8
<1> HIDE DEF left
<1>10. Later(E, acc.seen, e.child, path, left)
  BY <1>3, <1>4, <1>8, <1>9 DEF Later, IsCall
<1>11. self \in Walks(E) /\ left.seen \subseteq self.seen
  <2>1. CASE e.type = "stream"
    <3>1. self = [left EXCEPT !.order = Append(@, path)]
      BY <2>1 DEF Self, left, e
    <3>2. /\ left = [seen |-> left.seen, order |-> left.order] /\ left.seen \subseteq Indexes(E)
          /\ left.order \in Seq(PathPrefixes(E))
      BY <1>8, WalksAre
    <3>3. self = [seen |-> left.seen, order |-> Append(left.order, path)]
      BY <3>1, <3>2
    <3>4. Append(left.order, path) \in Seq(PathPrefixes(E))
      BY <1>4, <3>2
    <3>5. self.seen = left.seen /\ self.order = Append(left.order, path)
      BY <3>3
    <3> QED
      BY <3>2, <3>3, <3>4, <3>5, WalksAre
  <2>2. CASE e.type = "storage"
    <3>1. self = WalkTo(w, e.child, path, left)
      BY <2>2 DEF Self, left, e
    <3> QED
      BY <1>10, <3>1 DEF Sound
  <2>3. CASE e.type # "stream" /\ e.type # "storage"
    BY <1>8, <2>3 DEF Self, left, e
  <2> QED
    BY <2>1, <2>2, <2>3
<1>12. acc.seen \subseteq self.seen /\ self.seen # acc.seen
  BY <1>9, <1>11
<1> HIDE DEF self
<1>13. Later(E, acc.seen, e.right, prefix, self)
  BY <1>1, <1>3, <1>11, <1>12 DEF Later, IsCall
<1> QED
  BY <1>7, <1>10, <1>13 DEF e, here, left, self

\* So it returns what walks return, ...
LEMMA VisitSound ==
  ASSUME NEW E, IsArray(E), NEW w, NEW idx, NEW prefix, NEW acc, IsCall(E, idx, prefix, acc),
         Sound(E, w, acc.seen)
  PROVE  VisitAt(E, w, idx, prefix, acc) \in Walks(E) /\ acc.seen \subseteq VisitAt(E, w, idx, prefix, acc).seen
<1>1. CASE ~IsEntry(E, idx) \/ idx \in acc.seen
  BY <1>1 DEF VisitAt, IsCall
<1>2. CASE IsEntry(E, idx) /\ idx \notin acc.seen
  <2> DEFINE self == Self(E, w, idx, prefix, acc)
             res == WalkTo(w, E[idx + 1].right, prefix, self)
  <2>1. Later(E, acc.seen, E[idx + 1].right, prefix, self)
    BY <1>2, VisitGoes
  <2>2. VisitAt(E, w, idx, prefix, acc) = res
    BY <1>2 DEF VisitAt
  <2>3. res \in Walks(E) /\ self.seen \subseteq res.seen
    BY <2>1 DEF Sound
  <2>4. acc.seen \subseteq self.seen
    BY <2>1 DEF Later
  <2> QED
    BY <2>2, <2>3, <2>4
<1> QED
  BY <1>1, <1>2

\* ... and depends on nothing but the calls it makes.
LEMMA VisitAlike ==
  ASSUME NEW E, IsArray(E), NEW v, NEW w, NEW idx, NEW prefix, NEW acc, IsCall(E, idx, prefix, acc),
         Sound(E, w, acc.seen), Alike(E, v, w, acc.seen)
  PROVE  VisitAt(E, v, idx, prefix, acc) = VisitAt(E, w, idx, prefix, acc)
<1>1. CASE ~IsEntry(E, idx) \/ idx \in acc.seen
  BY <1>1 DEF VisitAt
<1>2. CASE IsEntry(E, idx) /\ idx \notin acc.seen
  <2> DEFINE e == E[idx + 1]
             path == Append(prefix, e.name)
             left == Left(E, w, idx, prefix, acc)
             self == Self(E, w, idx, prefix, acc)
  <2>1. /\ Later(E, acc.seen, e.left, prefix, Seeing(acc, idx))
        /\ Later(E, acc.seen, e.child, path, left)
        /\ Later(E, acc.seen, e.right, prefix, self)
    BY <1>2, VisitGoes
  <2>2. Left(E, v, idx, prefix, acc) = left
    BY <2>1 DEF Alike, Left
  <2>3. WalkTo(v, e.child, path, left) = WalkTo(w, e.child, path, left)
    BY <2>1 DEF Alike
  <2> HIDE DEF left
  <2>4. Self(E, v, idx, prefix, acc) = self
    <3>1. Self(E, v, idx, prefix, acc)
          = IF e.type = "stream" THEN [left EXCEPT !.order = Append(@, path)]
            ELSE IF e.type = "storage" THEN WalkTo(v, e.child, path, left)
            ELSE left
      BY <2>2 DEF Self
    <3>2. self = IF e.type = "stream" THEN [left EXCEPT !.order = Append(@, path)]
                 ELSE IF e.type = "storage" THEN WalkTo(w, e.child, path, left)
                 ELSE left
      BY DEF Self, left
    <3> QED
      BY <2>3, <3>1, <3>2
  <2> HIDE DEF self
  <2>5. WalkTo(v, e.right, prefix, self) = WalkTo(w, e.right, prefix, self)
    BY <2>1 DEF Alike
  <2> QED
    BY <1>2, <2>4, <2>5 DEF VisitAt, self
<1> QED
  BY <1>1, <1>2

\* What is still to be seen gets less.
Unseen(E, seen) == Cardinality(Indexes(E) \ seen)

\* It gets less with every entry that is seen.
LEMMA UnseenLess ==
  ASSUME NEW E, IsFiniteSet(Indexes(E)), NEW seen, NEW more, seen \subseteq more, more # seen,
         more \subseteq Indexes(E)
  PROVE  Unseen(E, more) \in Nat /\ Unseen(E, seen) \in Nat /\ Unseen(E, more) < Unseen(E, seen)
<1> DEFINE S == Indexes(E) \ seen
           M == Indexes(E) \ more
<1>1. IsFiniteSet(S) /\ IsFiniteSet(M)
  BY FS_Subset
<1>2. M \subseteq S /\ M # S
  OBVIOUS
<1> HIDE DEF M, S
<1>3. Cardinality(M) \in Nat /\ Cardinality(S) \in Nat /\ Cardinality(M) < Cardinality(S)
  BY <1>1, <1>2, FS_Subset, FS_CardinalityType
<1> QED
  BY <1>3 DEF Unseen, M, S

\* An array has finitely many entries.
LEMMA IndexesFinite == ASSUME NEW E, IsArray(E) PROVE IsFiniteSet(Indexes(E))
<1>1. PICK n \in Nat : DOMAIN E = 1 .. n
  BY DEF IsArray
<1>2. IsFiniteSet(0 .. n)
  BY <1>1, FS_Interval
<1>3. Indexes(E) \subseteq 0 .. n
  BY <1>1 DEF Indexes
<1> QED
  BY <1>2, <1>3, FS_Subset

\* Of the calls with little to be seen, w is what the recursion says; all of
\* them are sound.
WalkUpto(E, w, n) ==
  /\ w = [call \in Calls(E) |-> w[call]]
  /\ \A idx, prefix, acc : IsCall(E, idx, prefix, acc) =>
       /\ WalkTo(w, idx, prefix, acc) \in Walks(E)
       /\ acc.seen \subseteq WalkTo(w, idx, prefix, acc).seen
       /\ Unseen(E, acc.seen) < n => WalkTo(w, idx, prefix, acc) = VisitAt(E, w, idx, prefix, acc)

\* A function of the calls by what it makes of them.
LEMMA ToMade ==
  ASSUME NEW E, NEW w, NEW v, w = [call \in Calls(E) |-> VisitAt(E, v, call.idx, call.prefix, call.acc)],
         NEW idx, NEW prefix, NEW acc, IsCall(E, idx, prefix, acc)
  PROVE  WalkTo(w, idx, prefix, acc) = VisitAt(E, v, idx, prefix, acc)
<1> DEFINE call == [idx |-> idx, prefix |-> prefix, acc |-> acc]
           body(c) == VisitAt(E, v, c.idx, c.prefix, c.acc)
<1>1. call \in Calls(E) /\ call.idx = idx /\ call.prefix = prefix /\ call.acc = acc
  BY CallIs
<1>2. w = [c \in Calls(E) |-> body(c)]
  OBVIOUS
<1> HIDE DEF body, call
<1>3. w[call] = body(call)
  BY <1>1, <1>2
<1> QED
  BY <1>1, <1>3 DEF WalkTo, body, call

\* The recursion of walkDir is well-founded: every call has seen more.
LEMMA WalkExists ==
  ASSUME NEW E, IsArray(E)
  PROVE  \A n \in Nat : \E w : WalkUpto(E, w, n)
<1> DEFINE T == {n \in Nat : \E w : WalkUpto(E, w, n)}
<1>1. 0 \in T
  <2> DEFINE w == [call \in Calls(E) |-> call.acc]
  <2>1. w = [call \in Calls(E) |-> w[call]]
    OBVIOUS
  <2>2. ASSUME NEW idx, NEW prefix, NEW acc, IsCall(E, idx, prefix, acc)
        PROVE  WalkTo(w, idx, prefix, acc) = acc
    <3> DEFINE call == [idx |-> idx, prefix |-> prefix, acc |-> acc]
    <3>1. call \in Calls(E) /\ call.acc = acc
      BY <2>2, CallIs
    <3> HIDE DEF call
    <3>2. w[call] = acc
      BY <3>1
    <3> QED
      BY <3>2 DEF WalkTo, call
  <2>3. ASSUME NEW idx, NEW prefix, NEW acc, IsCall(E, idx, prefix, acc)
        PROVE  ~(Unseen(E, acc.seen) < 0) /\ acc \in Walks(E)
    <3>1. Unseen(E, acc.seen) \in Nat
      <4>1. IsFiniteSet(Indexes(E) \ acc.seen)
        BY IndexesFinite, FS_Subset
      <4> QED
        BY <4>1, FS_CardinalityType DEF Unseen
    <3> QED
      BY <2>3, <3>1 DEF IsCall
  <2> HIDE DEF w
  <2>4. WalkUpto(E, w, 0)
    BY <2>1, <2>2, <2>3 DEF WalkUpto
  <2> QED
    BY <2>4
<1>2. ASSUME NEW n \in Nat, n \in T
      PROVE  n + 1 \in T
  <2>1. PICK w : WalkUpto(E, w, n)
    BY <1>2
  <2> DEFINE body(call) == VisitAt(E, w, call.idx, call.prefix, call.acc)
             more == [call \in Calls(E) |-> body(call)]
  <2>2. more = [call \in Calls(E) |-> VisitAt(E, w, call.idx, call.prefix, call.acc)]
    OBVIOUS
  <2>3. more = [call \in Calls(E) |-> more[call]]
    <3> HIDE DEF body
    <3> QED
      OBVIOUS
  <2> HIDE DEF more
  <2>4. \A idx, prefix, acc : IsCall(E, idx, prefix, acc) =>
          WalkTo(more, idx, prefix, acc) = VisitAt(E, w, idx, prefix, acc)
    BY <2>2, ToMade
  <2>5. \A seen : Sound(E, w, seen)
    BY <2>1 DEF WalkUpto, Sound, Later
  <2>6. ASSUME NEW idx, NEW prefix, NEW acc, IsCall(E, idx, prefix, acc)
        PROVE  /\ WalkTo(more, idx, prefix, acc) \in Walks(E)
               /\ acc.seen \subseteq WalkTo(more, idx, prefix, acc).seen
    BY <2>4, <2>5, <2>6, VisitSound
  <2>7. ASSUME NEW idx, NEW prefix, NEW acc, IsCall(E, idx, prefix, acc), Unseen(E, acc.seen) < n + 1
        PROVE  WalkTo(more, idx, prefix, acc) = VisitAt(E, more, idx, prefix, acc)
    <3>1. Alike(E, more, w, acc.seen)
      <4> SUFFICES ASSUME NEW idx2, NEW prefix2, NEW acc2, Later(E, acc.seen, idx2, prefix2, acc2)
                   PROVE  WalkTo(more, idx2, prefix2, acc2) = WalkTo(w, idx2, prefix2, acc2)
        BY DEF Alike
      <4>1. IsCall(E, idx2, prefix2, acc2) /\ acc.seen \subseteq acc2.seen /\ acc2.seen # acc.seen
        BY DEF Later
      <4>2. acc2.seen \subseteq Indexes(E)
        BY <4>1, WalksAre DEF IsCall
      <4>3. Unseen(E, acc2.seen) < n
        <5>1. /\ Unseen(E, acc2.seen) \in Nat /\ Unseen(E, acc.seen) \in Nat
              /\ Unseen(E, acc2.seen) < Unseen(E, acc.seen)
          BY <4>1, <4>2, IndexesFinite, UnseenLess
        <5> QED
          BY <2>7, <5>1
      <4>4. WalkTo(w, idx2, prefix2, acc2) = VisitAt(E, w, idx2, prefix2, acc2)
        BY <2>1, <4>1, <4>3 DEF WalkUpto
      <4> QED
        BY <2>4, <4>1, <4>4
    <3>2. VisitAt(E, more, idx, prefix, acc) = VisitAt(E, w, idx, prefix, acc)
      BY <2>5, <2>7, <3>1, VisitAlike
    <3> QED
      BY <2>4, <2>7, <3>2
  <2>8. WalkUpto(E, more, n + 1)
    BY <2>3, <2>6, <2>7 DEF WalkUpto
  <2> QED
    BY <2>8
<1> HIDE DEF T
<1>3. \A n \in Nat : n \in T
  BY <1>1, <1>2, AllNumbers
<1> QED
  BY <1>3 DEF T

\* So walkDir makes of every call what its recursion says.
LEMMA WalkVisits ==
  ASSUME NEW E, IsArray(E), NEW idx, NEW prefix, NEW acc, IsCall(E, idx, prefix, acc)
  PROVE  WalkTo(walkDir(E), idx, prefix, acc) = VisitAt(E, walkDir(E), idx, prefix, acc)
<1> DEFINE n == Cardinality(Indexes(E)) + 1
<1>1. \A seen : Unseen(E, seen) < n
  <2> TAKE seen
  <2>1. IsFiniteSet(Indexes(E)) /\ Indexes(E) \ seen \subseteq Indexes(E)
    BY IndexesFinite
  <2>2. /\ Cardinality(Indexes(E) \ seen) \in Nat /\ Cardinality(Indexes(E)) \in Nat
        /\ Cardinality(Indexes(E) \ seen) <= Cardinality(Indexes(E))
    BY <2>1, FS_Subset, FS_CardinalityType
  <2> QED
    BY <2>2 DEF Unseen
<1>2. n \in Nat
  BY IndexesFinite, FS_CardinalityType
<1> HIDE DEF n
<1>3. PICK w : WalkUpto(E, w, n)
  BY <1>2, WalkExists
<1>4. IsWalk(E, w)
  <2> DEFINE body(call) == VisitAt(E, w, call.idx, call.prefix, call.acc)
  <2>1. ASSUME NEW call \in Calls(E)
        PROVE  w[call] = body(call)
    <3>1. /\ IsCall(E, call.idx, call.prefix, call.acc)
          /\ call = [idx |-> call.idx, prefix |-> call.prefix, acc |-> call.acc]
      BY DEF Calls, IsCall, PathPrefixes
    <3>2. WalkTo(w, call.idx, call.prefix, call.acc) = body(call)
      BY <1>1, <1>3, <3>1 DEF WalkUpto
    <3>3. WalkTo(w, call.idx, call.prefix, call.acc) = w[call]
      BY <3>1 DEF WalkTo
    <3> QED
      BY <3>2, <3>3
  <2>2. w = [call \in Calls(E) |-> w[call]]
    BY <1>3 DEF WalkUpto
  <2> HIDE DEF body
  <2>3. w = [call \in Calls(E) |-> body(call)]
    BY <2>1, <2>2
  <2> QED
    BY <2>3 DEF body, IsWalk
<1>5. IsWalk(E, walkDir(E))
  <2>1. walkDir(E) = CHOOSE v : IsWalk(E, v)
    BY WalkChosen
  <2> QED
    BY <1>4, <2>1
<1> HIDE DEF IsWalk
<1> QED
  BY <1>5, ToVisit

\* Every call of walkDir returns what walks return and forgets nothing.
LEMMA WalkSound ==
  ASSUME NEW E, IsArray(E)
  PROVE  \A idx, prefix, acc : IsCall(E, idx, prefix, acc) =>
           /\ WalkTo(walkDir(E), idx, prefix, acc) \in Walks(E)
           /\ acc.seen \subseteq WalkTo(walkDir(E), idx, prefix, acc).seen
<1> DEFINE w == walkDir(E)
           Returns(idx, prefix, acc) == /\ WalkTo(w, idx, prefix, acc) \in Walks(E)
                                        /\ acc.seen \subseteq WalkTo(w, idx, prefix, acc).seen
           T == {n \in Nat : \A idx, prefix, acc :
                   IsCall(E, idx, prefix, acc) /\ Unseen(E, acc.seen) < n => Returns(idx, prefix, acc)}
<1>1. ASSUME NEW idx, NEW prefix, NEW acc, IsCall(E, idx, prefix, acc)
      PROVE  Unseen(E, acc.seen) \in Nat
  <2>1. IsFiniteSet(Indexes(E) \ acc.seen)
    BY IndexesFinite, FS_Subset
  <2> QED
    BY <2>1, FS_CardinalityType DEF Unseen
<1>2. 0 \in T
  BY <1>1
<1>3. ASSUME NEW n \in Nat, n \in T
      PROVE  n + 1 \in T
  <2> SUFFICES ASSUME NEW idx, NEW prefix, NEW acc, IsCall(E, idx, prefix, acc),
                      Unseen(E, acc.seen) < n + 1
               PROVE  Returns(idx, prefix, acc)
    OBVIOUS
  <2>1. ASSUME NEW more, NEW start, NEW acc2, Later(E, acc.seen, more, start, acc2)
        PROVE  Returns(more, start, acc2)
    <3>1. IsCall(E, more, start, acc2) /\ acc.seen \subseteq acc2.seen /\ acc2.seen # acc.seen
      BY <2>1 DEF Later
    <3>2. acc2.seen \subseteq Indexes(E)
      BY <3>1, WalksAre DEF IsCall
    <3>3. /\ Unseen(E, acc2.seen) \in Nat /\ Unseen(E, acc.seen) \in Nat
          /\ Unseen(E, acc2.seen) < Unseen(E, acc.seen)
      BY <3>1, <3>2, IndexesFinite, UnseenLess
    <3>4. Unseen(E, acc2.seen) < n
      BY <3>3
    <3> HIDE DEF Returns
    <3> QED
      BY <1>3, <3>1, <3>4
  <2>2. Sound(E, w, acc.seen)
    BY <2>1 DEF Sound
  <2>3. WalkTo(w, idx, prefix, acc) = VisitAt(E, w, idx, prefix, acc)
    BY WalkVisits
  <2> HIDE DEF w
  <2> QED
    BY <2>2, <2>3, VisitSound
<1> HIDE DEF T
<1>4. \A n \in Nat : n \in T
  BY <1>2, <1>3, AllNumbers
<1> SUFFICES ASSUME NEW idx, NEW prefix, NEW acc, IsCall(E, idx, prefix, acc)
             PROVE  Returns(idx, prefix, acc)
  OBVIOUS
<1>5. Unseen(E, acc.seen) \in Nat
  BY <1>1
<1>6. Unseen(E, acc.seen) + 1 \in T /\ Unseen(E, acc.seen) < Unseen(E, acc.seen) + 1
  BY <1>4, <1>5
<1> HIDE DEF Returns
<1> QED
  BY <1>6 DEF T
=============================================================================
