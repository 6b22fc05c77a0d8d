------------------------- MODULE CfbDirectoryProofs -------------------------
(***************************************************************************)
(* Theorems about CfbDirectory and what readers find in the directory it   *)
(* links (CfbDirectoryReadback), for every set of names, every case        *)
(* mapping and every limit.                                                *)
(***************************************************************************)
EXTENDS CfbDirectoryReadback, CfbWalkProofs

\* The registrations that buildTree has entered.
Entered == 1 .. next - 1

\* The tree is the prefix closure of what was entered: every node lies on the
\* way to an entered stream, ...
NodesEntered ==
  \A q \in DOMAIN tree :
    q # Root /\ \E i \in Entered : IsPrefix(q, streams[i])

\* ... every entered stream is a leaf below nothing but storages, ...
EnteredNodes ==
  \A i \in Entered :
    /\ ~BadPath(streams[i], TooLong)
    /\ streams[i] \in DOMAIN tree /\ tree[streams[i]] = "stream"
    /\ \A q \in StoragesOf(streams[i]) : q \in DOMAIN tree /\ tree[q] = "storage"

\* ... and every leaf is a stream that was entered, once.
LeavesEntered ==
  /\ \A q \in DOMAIN tree : tree[q] = "stream" => \E i \in Entered : streams[i] = q
  /\ \A i, j \in Entered : streams[i] = streams[j] => i = j

\* Neither TypeOK nor RejectsExactlyConflicts is inductive: what Fits says of
\* the tree must be turned into what it means for the registrations.
DirInv ==
  /\ TypeOK
  /\ NodesEntered /\ EnteredNodes /\ LeavesEntered
  /\ pc = "insert" => result = "none"
  /\ result = "error" => next <= Len(streams) /\ ~Fits(tree, streams[next])
  /\ result = "built" => next = Len(streams) + 1

-----------------------------------------------------------------------------
\* A path is a sequence of names.
LEMMA PathIsSeq == \A p \in Paths : p \in Seq(Names) /\ Len(p) \in 0 .. MaxDepth
<1> SUFFICES ASSUME NEW d \in 0 .. MaxDepth, NEW p \in [1 .. d -> Names]
             PROVE  p \in Seq(Names) /\ Len(p) = d
  BY DEF Paths
<1> QED
  BY CfbDirectoryAssumption DEF CfbDirectoryAssumption

\* The storages on the way to a path are its proper, non-empty prefixes.
LEMMA StoragesArePrefixes ==
  ASSUME NEW p \in Paths, NEW q \in StoragesOf(p)
  PROVE  q \in Paths /\ q # Root /\ q # p /\ IsPrefix(q, p)
<1>1. p \in Seq(Names) /\ Len(p) \in 0 .. MaxDepth
  BY PathIsSeq
<1>2. PICK k \in 1 .. Len(p) - 1 : q = SubSeq(p, 1, k)
  BY DEF StoragesOf
<1>3. \A i \in 1 .. k : p[i] \in Names
  BY <1>1, <1>2
<1>4. q \in Seq(Names) /\ Len(q) = k
  BY <1>1, <1>2, <1>3, SubSeqProperties
<1>5. q \in [1 .. k -> Names] /\ k \in 0 .. MaxDepth
  BY <1>1, <1>4, CfbDirectoryAssumption
<1>6. q \in Paths
  BY <1>5 DEF Paths
<1>7. q # Root /\ q # p
  BY <1>1, <1>2, <1>4 DEF Root
<1>8. IsPrefix(q, p)
  BY <1>1, <1>2, <1>4, SubSeqFull DEF IsPrefix
<1> QED
  BY <1>6, <1>7, <1>8

\* A non-empty prefix of a path is the path or a storage on the way to it.
LEMMA PrefixIsNode ==
  ASSUME NEW p \in Paths, NEW q \in Paths, q # Root, IsPrefix(q, p)
  PROVE  q = p \/ q \in StoragesOf(p)
<1>1. p \in Seq(Names) /\ q \in Seq(Names)
  BY PathIsSeq
<1>2. Len(q) \in 1 .. Len(p)
  BY <1>1, EmptySeq DEF IsPrefix, Root
<1>3. q = SubSeq(p, 1, Len(q)) /\ p = SubSeq(p, 1, Len(p))
  BY <1>1, SubSeqFull DEF IsPrefix
<1>4. CASE Len(q) = Len(p)
  BY <1>3, <1>4
<1>5. CASE Len(q) # Len(p)
  <2>1. Len(p) \in Nat /\ Len(q) \in 1 .. Len(p) - 1
    BY <1>1, <1>2, <1>5, LenProperties
  <2> QED
    BY <1>3, <2>1 DEF StoragesOf
<1> QED
  BY <1>4, <1>5

\* A path is a prefix of itself.
LEMMA PrefixOfItself == \A p \in Paths : IsPrefix(p, p)
PROOF BY PathIsSeq DEF IsPrefix

\* In a tree that holds the entered registrations, two of them do not clash.
LEMMA NoClash ==
  ASSUME DirInv, NEW i \in Entered, NEW j \in Entered, i # j
  PROVE  ~Clash(streams[i], streams[j])
<1> DEFINE p == streams[i]
           q == streams[j]
<1>1. p \in Paths /\ q \in Paths /\ p # Root /\ q # Root
  BY DEF DirInv, TypeOK, Entered, EnteredNodes, BadPath, Root
<1>2. p # q
  BY DEF DirInv, LeavesEntered
<1>3. p \notin StoragesOf(q) /\ q \notin StoragesOf(p)
  BY DEF DirInv, EnteredNodes
<1> QED
  BY <1>1, <1>2, <1>3, PrefixIsNode DEF Clash

\* A registration that does not fit clashes with an entered one, or is bad.
LEMMA MisfitClashes ==
  ASSUME DirInv, next <= Len(streams), ~Fits(tree, streams[next])
  PROVE  TreeRejects(streams, TooLong)
<1> DEFINE p == streams[next]
<1>1. p \in Paths /\ next \in DOMAIN streams /\ Entered \subseteq DOMAIN streams
  BY DEF DirInv, TypeOK, Entered
<1>2. CASE BadPath(p, TooLong)
  BY <1>1, <1>2 DEF TreeRejects
<1>3. CASE \E q \in StoragesOf(p) : q \in DOMAIN tree /\ tree[q] # "storage"
  <2>1. PICK q \in StoragesOf(p) : q \in DOMAIN tree /\ tree[q] = "stream"
    BY <1>3 DEF DirInv, TypeOK
  <2>2. PICK i \in Entered : streams[i] = q
    BY <2>1 DEF DirInv, LeavesEntered
  <2>3. IsPrefix(q, p)
    BY <1>1, StoragesArePrefixes
  <2>4. i # next
    BY DEF Entered, DirInv, TypeOK
  <2> QED
    BY <1>1, <2>2, <2>3, <2>4 DEF TreeRejects, Clash
<1>4. CASE p \in DOMAIN tree
  <2>1. PICK i \in Entered : IsPrefix(p, streams[i])
    BY <1>4 DEF DirInv, NodesEntered
  <2>2. i # next
    BY DEF Entered, DirInv, TypeOK
  <2> QED
    BY <1>1, <2>1, <2>2 DEF TreeRejects, Clash
<1> QED
  BY <1>2, <1>3, <1>4 DEF Fits

\* Entering a registration that fits keeps the tree the prefix closure of what
\* was entered.
LEMMA InsertKeeps ==
  ASSUME DirInv, Insert
  PROVE  DirInv'
<1> DEFINE p == streams[next]
<1>1. /\ p \in Paths /\ p # Root /\ next \in 1 .. Len(streams)
      /\ streams \in Seq(Paths) /\ streams' = streams
      /\ next' = next + 1 /\ result' = "none" /\ pc' = "insert"
      /\ Entered' = Entered \cup {next} /\ next \notin Entered
  BY DEF DirInv, TypeOK, Insert, Fits, BadPath, Entered, Root
<1>2. /\ ~BadPath(p, TooLong) /\ p \notin DOMAIN tree
      /\ \A q \in StoragesOf(p) : q \in DOMAIN tree => tree[q] = "storage"
  BY DEF Insert, Fits
<1>3. /\ DOMAIN tree' = DOMAIN tree \cup StoragesOf(p) \cup {p}
      /\ \A q \in DOMAIN tree : tree'[q] = tree[q]
      /\ tree'[p] = "stream"
      /\ \A q \in StoragesOf(p) : tree'[q] = "storage"
      /\ tree' \in [DOMAIN tree' -> {"storage", "stream"}]
  <2>1. \A q \in StoragesOf(p) : q # p
    BY <1>1, StoragesArePrefixes
  <2>2. tree \in [DOMAIN tree -> {"storage", "stream"}]
    BY DEF DirInv, TypeOK
  <2>3. tree' = [q \in DOMAIN tree \cup StoragesOf(p) \cup {p} |->
                   IF q \in DOMAIN tree THEN tree[q] ELSE IF q = p THEN "stream" ELSE "storage"]
    BY DEF Insert, Inserted
  <2> QED
    BY <1>2, <2>1, <2>2, <2>3
<1> HIDE DEF p
<1>4. TypeOK'
  BY <1>1, <1>3, StoragesArePrefixes DEF DirInv, TypeOK
<1>5. NodesEntered'
  <2> SUFFICES ASSUME NEW q \in DOMAIN tree'
               PROVE  q # Root /\ \E i \in Entered \cup {next} : IsPrefix(q, streams[i])
    BY <1>1 DEF NodesEntered
  <2>1. CASE q \in DOMAIN tree
    BY <2>1 DEF DirInv, NodesEntered
  <2>2. CASE q \in StoragesOf(p)
    BY <1>1, <2>2, StoragesArePrefixes DEF p
  <2>3. CASE q = p
    BY <1>1, <2>3, PrefixOfItself DEF p
  <2> QED
    BY <1>3, <2>1, <2>2, <2>3
<1>6. EnteredNodes'
  <2> SUFFICES ASSUME NEW i \in Entered \cup {next}
               PROVE  /\ ~BadPath(streams[i], TooLong)
                      /\ streams[i] \in DOMAIN tree' /\ tree'[streams[i]] = "stream"
                      /\ \A q \in StoragesOf(streams[i]) :
                           q \in DOMAIN tree' /\ tree'[q] = "storage"
    BY <1>1 DEF EnteredNodes
  <2>1. CASE i = next
    BY <1>2, <1>3, <2>1 DEF p
  <2>2. CASE i \in Entered
    BY <1>3, <2>2 DEF DirInv, EnteredNodes
  <2> QED
    BY <2>1, <2>2
<1>7. LeavesEntered'
  <2>1. \A q \in DOMAIN tree' :
          tree'[q] = "stream" => \E i \in Entered \cup {next} : streams[i] = q
    BY <1>3 DEF DirInv, LeavesEntered, p
  <2>2. \A i, j \in Entered \cup {next} : streams[i] = streams[j] => i = j
    BY <1>2 DEF DirInv, LeavesEntered, EnteredNodes, p
  <2> QED
    BY <1>1, <2>1, <2>2 DEF LeavesEntered
<1> QED
  BY <1>1, <1>4, <1>5, <1>6, <1>7 DEF DirInv

\* In every state the tree is the prefix closure of the registrations entered
\* so far.
THEOREM DirInvariant == Spec => []DirInv
<1>1. Init => DirInv
  BY DEF Init, DirInv, TypeOK, NodesEntered, EnteredNodes, LeavesEntered, Entered
<1>2. DirInv /\ [Next]_vars => DirInv'
  <2> SUFFICES ASSUME DirInv, [Next]_vars
               PROVE  DirInv'
    OBVIOUS
  <2>1. ASSUME NEW path \in Paths, AddStream(path)
        PROVE  DirInv'
    <3>1. /\ streams' \in Seq(Paths) /\ next' = 1 /\ tree' = << >>
          /\ pc' = "open" /\ result' = "none"
          /\ next' \in 1 .. Len(streams') + 1
      BY <2>1 DEF AddStream, DirInv, TypeOK
    <3> QED
      BY <3>1 DEF DirInv, TypeOK, NodesEntered, EnteredNodes, LeavesEntered, Entered
  <2>2. CASE Bytes
    <3>1. /\ streams' \in Seq(Paths) /\ next' = 1 /\ tree' = << >>
          /\ pc' = "insert" /\ result' = "none"
          /\ next' \in 1 .. Len(streams') + 1
      BY <2>2 DEF Bytes, DirInv, TypeOK
    <3> QED
      BY <3>1 DEF DirInv, TypeOK, NodesEntered, EnteredNodes, LeavesEntered, Entered
  <2>3. CASE Insert
    BY <2>3, InsertKeeps
  <2>4. CASE Reject
    BY <2>4 DEF Reject, DirInv, TypeOK, NodesEntered, EnteredNodes, LeavesEntered, Entered
  <2>5. CASE Link
    BY <2>5 DEF Link, DirInv, TypeOK, NodesEntered, EnteredNodes, LeavesEntered, Entered
  <2>6. CASE UNCHANGED vars
    BY <2>6 DEF vars, DirInv, TypeOK, NodesEntered, EnteredNodes, LeavesEntered, Entered
  <2> QED
    BY <2>1, <2>2, <2>3, <2>4, <2>5, <2>6 DEF Next
<1> QED
  BY <1>1, <1>2, PTL DEF Spec

\* The variables keep their types.
THEOREM TypeCorrect == Spec => []TypeOK
<1>1. DirInv => TypeOK
  BY DEF DirInv
<1> QED
  BY <1>1, DirInvariant, PTL

\* Whatever the registrations and their order, Bytes fails on exactly those
\* that clash or are bad.
THEOREM RejectsExactly == Spec => []RejectsExactlyConflicts
<1>1. DirInv => RejectsExactlyConflicts
  <2> SUFFICES ASSUME DirInv
               PROVE  RejectsExactlyConflicts
    OBVIOUS
  <2>1. result = "error" => TreeRejects(streams, TooLong)
    BY MisfitClashes DEF DirInv
  <2>2. ASSUME result = "built"
        PROVE  /\ ~TreeRejects(streams, TooLong)
               /\ {p \in DOMAIN tree : tree[p] = "stream"} = ToSet(streams)
               /\ \A p \in DOMAIN tree : \E i \in DOMAIN streams : IsPrefix(p, streams[i])
    <3>1. Entered = DOMAIN streams
      BY <2>2 DEF DirInv, TypeOK, Entered
    <3>2. ~TreeRejects(streams, TooLong)
      BY <3>1, NoClash DEF TreeRejects, DirInv, EnteredNodes
    <3>3. {p \in DOMAIN tree : tree[p] = "stream"} = ToSet(streams)
      BY <3>1 DEF ToSet, DirInv, EnteredNodes, LeavesEntered
    <3>4. \A p \in DOMAIN tree : \E i \in DOMAIN streams : IsPrefix(p, streams[i])
      BY <3>1 DEF DirInv, NodesEntered
    <3> QED
      BY <3>2, <3>3, <3>4
  <2> QED
    BY <2>1, <2>2 DEF RejectsExactlyConflicts
<1> QED
  BY <1>1, DirInvariant, PTL

-----------------------------------------------------------------------------
(***************************************************************************)
(* The tree that buildTree links.                                          *)
(***************************************************************************)

Nodes(t) == {Root} \cup DOMAIN t

\* A finite set of paths with the storages on the way to them.
IsTree(t) ==
  /\ IsFiniteSet(DOMAIN t)
  /\ DOMAIN t \subseteq Paths \ {Root}
  /\ \A q \in DOMAIN t : /\ t[q] \in {"storage", "stream"}
                         /\ \A p \in StoragesOf(q) : p \in DOMAIN t /\ t[p] = "storage"

Parent(q) == SubSeq(q, 1, Len(q) - 1)

\* The root is a path.
LEMMA RootIsPath == Root \in Paths /\ Root \in Seq(Names) /\ Len(Root) = 0
<1>1. Root \in [1 .. 0 -> Names]
  BY DEF Root
<1>2. 0 \in 0 .. MaxDepth
  BY CfbDirectoryAssumption DEF CfbDirectoryAssumption
<1> QED
  BY <1>1, <1>2 DEF Paths, Root

\* Nodes are paths.
LEMMA NodeIsSeq ==
  ASSUME NEW t, IsTree(t), NEW n \in Nodes(t)
  PROVE  n \in Paths /\ n \in Seq(Names) /\ Len(n) \in 0 .. MaxDepth
<1>1. n \in Paths
  BY RootIsPath DEF Nodes, IsTree
<1> QED
  BY <1>1, PathIsSeq

\* A prefix, position by position.
LEMMA PrefixAt ==
  ASSUME NEW p \in Seq(Names), NEW q \in Seq(Names)
  PROVE  IsPrefix(p, q) <=> Len(p) <= Len(q) /\ \A i \in 1 .. Len(p) : p[i] = q[i]
<1>1. SubSeq(p, 1, Len(p)) = p
  BY SubSeqFull
<1>2. ASSUME Len(p) <= Len(q)
      PROVE  /\ SubSeq(q, 1, Len(p)) \in Seq(Names) /\ Len(SubSeq(q, 1, Len(p))) = Len(p)
             /\ \A i \in 1 .. Len(p) : SubSeq(q, 1, Len(p))[i] = q[i]
  <2>1. Len(p) \in Nat /\ Len(q) \in Nat
    OBVIOUS
  <2>2. \A i \in 1 .. Len(p) : q[i] \in Names
    BY <1>2, <2>1
  <2> QED
    BY <1>2, <2>1, <2>2, SubSeqProperties
<1>3. ASSUME IsPrefix(p, q)
      PROVE  Len(p) <= Len(q) /\ \A i \in 1 .. Len(p) : p[i] = q[i]
  <2>1. Len(p) <= Len(q) /\ p = SubSeq(q, 1, Len(p))
    BY <1>1, <1>3 DEF IsPrefix
  <2> QED
    BY <1>2, <2>1
<1>4. ASSUME Len(p) <= Len(q), \A i \in 1 .. Len(p) : p[i] = q[i]
      PROVE  IsPrefix(p, q)
  <2>1. p = SubSeq(q, 1, Len(p))
    BY <1>2, <1>4, SeqEqual
  <2> QED
    BY <1>1, <1>4, <2>1 DEF IsPrefix
<1> QED
  BY <1>3, <1>4

\* A node but the root is a child of its parent.
LEMMA ParentHas ==
  ASSUME NEW t, IsTree(t), NEW q \in DOMAIN t
  PROVE  /\ Parent(q) \in Nodes(t) /\ q \in Children(t, Parent(q))
         /\ Name(q) \in Names /\ Len(q) \in 1 .. MaxDepth
<1>1. q \in Paths /\ q # Root /\ q \in Nodes(t)
  BY DEF IsTree, Nodes
<1>2. q \in Seq(Names) /\ Len(q) \in 1 .. MaxDepth
  BY <1>1, PathIsSeq, EmptySeq DEF Root
<1>3. \A i \in 1 .. Len(q) - 1 : q[i] \in Names
  BY <1>2
<1>4. /\ Parent(q) \in Seq(Names) /\ Len(Parent(q)) = Len(q) - 1
      /\ \A i \in 1 .. Len(q) - 1 : Parent(q)[i] = q[i]
  <2> DEFINE l == Len(q) - 1
  <2>1. l \in Nat
    BY <1>2, CfbDirectoryAssumption DEF CfbDirectoryAssumption
  <2>2. \A i \in 1 .. l : q[i] \in Names
    BY <1>3
  <2> HIDE DEF l
  <2>3. /\ SubSeq(q, 1, l) \in Seq(Names) /\ Len(SubSeq(q, 1, l)) = IF 1 <= l THEN l - 1 + 1 ELSE 0
        /\ \A i \in 1 .. l - 1 + 1 : SubSeq(q, 1, l)[i] = q[1 + i - 1]
    BY <2>1, <2>2, SubSeqProperties
  <2>4. /\ SubSeq(q, 1, l) \in Seq(Names) /\ Len(SubSeq(q, 1, l)) = l
        /\ \A i \in 1 .. l : SubSeq(q, 1, l)[i] = q[i]
    BY <2>1, <2>3
  <2> QED
    BY <2>4 DEF Parent, l
<1>5. IsPrefix(Parent(q), q)
  BY <1>2, <1>4, PrefixAt
<1>6. q \in Children(t, Parent(q))
  BY <1>2, <1>4, <1>5 DEF Children
<1>7. CASE Len(q) = 1
  BY <1>2, <1>4, <1>6, <1>7, EmptySeq DEF Nodes, Root, Name, Last
<1>8. CASE Len(q) # 1
  <2>1. Parent(q) \in StoragesOf(q)
    <3> DEFINE l == Len(q)
    <3>1. l \in 1 .. MaxDepth /\ l # 1
      BY <1>2, <1>8
    <3> HIDE DEF l
    <3>2. l - 1 \in 1 .. l - 1
      BY <3>1, CfbDirectoryAssumption DEF CfbDirectoryAssumption
    <3> QED
      BY <3>2 DEF StoragesOf, Parent, l
  <2>2. Parent(q) \in DOMAIN t
    BY <2>1 DEF IsTree
  <2> QED
    BY <1>2, <1>6, <2>2 DEF Nodes, Name, Last
<1> QED
  BY <1>7, <1>8

\* A child extends its parent by its name, and a stream has none.
LEMMA ChildExtends ==
  ASSUME NEW t, IsTree(t), NEW n \in Nodes(t), NEW q \in Children(t, n)
  PROVE  /\ q \in DOMAIN t /\ Parent(q) = n /\ q = Append(n, Name(q))
         /\ Len(q) = Len(n) + 1 /\ Len(n) < MaxDepth
         /\ n # Root => t[n] = "storage"
<1>1. q \in DOMAIN t /\ Len(q) = Len(n) + 1 /\ IsPrefix(n, q)
  BY DEF Children
<1>2. /\ q \in Seq(Names) /\ Len(q) \in 0 .. MaxDepth
      /\ n \in Seq(Names) /\ Len(n) \in 0 .. MaxDepth /\ q \in Paths /\ n \in Paths
  BY <1>1, NodeIsSeq DEF Nodes
<1>3. Len(n) <= Len(q) /\ Len(q) - 1 = Len(n)
  BY <1>1, <1>2, CfbDirectoryAssumption DEF CfbDirectoryAssumption
<1>4. Parent(q) = n
  BY <1>1, <1>2, <1>3, SubSeqFull DEF IsPrefix, Parent
<1>5. q = Append(n, Name(q))
  <2>1. Name(q) = q[Len(n) + 1] /\ Name(q) \in Names
    BY <1>1, ParentHas DEF Name, Last
  <2>2. \A i \in 1 .. Len(n) : q[i] = n[i]
    BY <1>1, <1>2, PrefixAt
  <2>3. /\ Append(n, Name(q)) \in Seq(Names) /\ Len(Append(n, Name(q))) = Len(n) + 1
        /\ \A i \in 1 .. Len(n) : Append(n, Name(q))[i] = n[i]
        /\ Append(n, Name(q))[Len(n) + 1] = Name(q)
    BY <1>2, <2>1, AppendProperties
  <2>4. \A i \in 1 .. Len(q) : q[i] = Append(n, Name(q))[i]
    <3>1. \A i \in 1 .. Len(q) : i \in 1 .. Len(n) \/ i = Len(n) + 1
      BY <1>1, <1>2, CfbDirectoryAssumption DEF CfbDirectoryAssumption
    <3> QED
      BY <2>1, <2>2, <2>3, <3>1
  <2> QED
    BY <1>1, <1>2, <2>3, <2>4, SeqEqual
<1>6. n # Root => t[n] = "storage"
  <2> SUFFICES ASSUME n # Root
               PROVE  t[n] = "storage"
    OBVIOUS
  <2>1. n \in StoragesOf(q)
    BY <1>1, <1>2, PrefixIsNode
  <2> QED
    BY <1>1, <2>1 DEF IsTree
<1>7. Len(n) < MaxDepth
  BY <1>1, <1>2, CfbDirectoryAssumption DEF CfbDirectoryAssumption
<1> QED
  BY <1>1, <1>4, <1>5, <1>6, <1>7

-----------------------------------------------------------------------------
(***************************************************************************)
(* The arrays of children.                                                 *)
(***************************************************************************)

\* s lists the elements of S, each of them once.
Enumerates(s, S) ==
  /\ s \in Seq(S)
  /\ \A x \in S : \E i \in DOMAIN s : s[i] = x
  /\ \A i, j \in DOMAIN s : s[i] = s[j] => i = j

\* A sorting of a finite set lists it.
LEMMA SortingEnumerates ==
  ASSUME NEW S, IsFiniteSet(S), NEW s \in Sortings(S)
  PROVE  Enumerates(s, S) /\ Len(s) = Cardinality(S)
<1> DEFINE c == Cardinality(S)
<1>1. c \in Nat
  BY FS_CardinalityType
<1>2. s \in [1 .. c -> S] /\ ToSet(s) = S
  BY DEF Sortings
<1> HIDE DEF c
<1>3. s \in Seq(S) /\ Len(s) = c /\ DOMAIN s = 1 .. c
  BY <1>1, <1>2
<1>4. \A x \in S : \E i \in DOMAIN s : s[i] = x
  BY <1>2 DEF ToSet
<1>5. IsFiniteSet(1 .. c) /\ Cardinality(1 .. c) = c
  BY <1>1, FS_Interval
<1>6. s \in Surjection(1 .. c, S)
  BY <1>2, <1>3, <1>4 DEF Surjection
<1>7. s \in Injection(1 .. c, S)
  BY <1>5, <1>6, FS_SurjSameCardinalityImpliesInj DEF c
<1>8. \A i, j \in DOMAIN s : s[i] = s[j] => i = j
  BY <1>3, <1>7 DEF Injection, IsInjective
<1> QED
  BY <1>3, <1>4, <1>8 DEF Enumerates, c

\* Orders gives every node its children in an order of Sortings.
LEMMA OrdersAre ==
  ASSUME NEW t, IsTree(t), NEW O \in Orders(t), NEW n \in Nodes(t)
  PROVE  O[n] \in Sortings(Children(t, n))
<1> DEFINE parents == {Root} \cup {q \in DOMAIN t : t[q] = "storage"}
           arrays == [m \in parents |-> Sortings(Children(t, m))]
           all == {g \in [parents -> UNION {arrays[m] : m \in parents}] :
                     \A m \in parents : g[m] \in arrays[m]}
<1>1. PICK g \in all : O = [m \in Nodes(t) |-> IF m \in parents THEN g[m] ELSE << >>]
  BY DEF Orders, Nodes
<1>2. CASE n \in parents
  BY <1>1, <1>2
<1>3. CASE n \notin parents
  <2>1. O[n] = << >>
    BY <1>1, <1>3
  <2>2. Children(t, n) = {}
    <3>1. n \in DOMAIN t /\ n # Root /\ t[n] # "storage"
      BY <1>3 DEF Nodes
    <3>2. \A q \in Children(t, n) : FALSE
      BY <3>1, ChildExtends
    <3> QED
      BY <3>2
  <2>3. << >> \in Sortings({})
    <3>1. Cardinality({}) = 0
      BY FS_EmptySet
    <3> QED
      BY <3>1 DEF Sortings, ToSet
  <2> QED
    BY <2>1, <2>2, <2>3
<1> QED
  BY <1>2, <1>3

\* The children of a node, each of them once.
LEMMA KidsAre ==
  ASSUME NEW t, IsTree(t), NEW O \in Orders(t), NEW n \in Nodes(t)
  PROVE  Enumerates(O[n], Children(t, n))
<1>1. IsFiniteSet(Children(t, n))
  BY FS_Subset DEF IsTree, Children
<1> QED
  BY <1>1, OrdersAre, SortingEnumerates

-----------------------------------------------------------------------------
(***************************************************************************)
(* Lists of nodes.                                                         *)
(***************************************************************************)

\* Two lists without a common element, one behind the other.
LEMMA ConcatEnumerates ==
  ASSUME NEW a, NEW A, Enumerates(a, A), NEW b, NEW B, Enumerates(b, B), A \cap B = {}
  PROVE  Enumerates(a \o b, A \cup B)
<1> DEFINE C == A \cup B
           la == Len(a)
           lb == Len(b)
           c == a \o b
<1>1. a \in Seq(C) /\ b \in Seq(C) /\ \A i \in 1 .. la : a[i] \in A /\ \A j \in 1 .. lb : b[j] \in B
  BY DEF Enumerates
<1>2. la \in Nat /\ lb \in Nat /\ DOMAIN a = 1 .. la /\ DOMAIN b = 1 .. lb
  BY <1>1
<1>3. /\ c \in Seq(C) /\ Len(c) = la + lb
      /\ \A i \in 1 .. la + lb : c[i] = IF i <= la THEN a[i] ELSE b[i - la]
  BY <1>1, ConcatProperties
<1> HIDE DEF c, la, lb
<1>4. DOMAIN c = 1 .. la + lb
  BY <1>3
<1>5. \A i \in 1 .. la : i \in DOMAIN c /\ c[i] = a[i]
  BY <1>2, <1>3, <1>4
<1>6. \A i \in 1 .. lb : la + i \in DOMAIN c /\ c[la + i] = b[i]
  BY <1>2, <1>3, <1>4
<1>7. \A i \in DOMAIN c : \/ i \in 1 .. la
                          \/ i - la \in 1 .. lb /\ i = la + (i - la)
  BY <1>2, <1>4
<1>8. \A x \in C : \E i \in DOMAIN c : c[i] = x
  BY <1>2, <1>5, <1>6 DEF Enumerates
<1>9. ASSUME NEW i \in DOMAIN c, NEW j \in DOMAIN c, c[i] = c[j]
      PROVE  i = j
  <2>1. CASE i \in 1 .. la /\ j \in 1 .. la
    BY <1>2, <1>5, <1>9, <2>1 DEF Enumerates
  <2>2. CASE i \notin 1 .. la /\ j \notin 1 .. la
    <3>1. i - la \in 1 .. lb /\ j - la \in 1 .. lb /\ b[i - la] = b[j - la]
      BY <1>6, <1>7, <1>9, <2>2
    <3>2. i - la = j - la
      BY <1>2, <3>1 DEF Enumerates
    <3> QED
      BY <1>7, <2>2, <3>2
  <2>3. CASE i \in 1 .. la /\ j \notin 1 .. la
    <3>1. j - la \in 1 .. lb /\ a[i] = b[j - la]
      BY <1>5, <1>6, <1>7, <1>9, <2>3
    <3> QED
      BY <1>1, <1>2, <2>3, <3>1 DEF Enumerates
  <2>4. CASE i \notin 1 .. la /\ j \in 1 .. la
    <3>1. i - la \in 1 .. lb /\ a[j] = b[i - la]
      BY <1>5, <1>6, <1>7, <1>9, <2>4
    <3> QED
      BY <1>1, <1>2, <2>4, <3>1 DEF Enumerates
  <2> QED
    BY <2>1, <2>2, <2>3, <2>4
<1> QED
  BY <1>3, <1>8, <1>9 DEF Enumerates, c

\* Lists without a common element, one behind the other.
LEMMA FlatEnumerates ==
  ASSUME NEW m \in Nat, NEW parts, Len(parts) = m, NEW sets, DOMAIN parts = 1 .. m,
         m = 0 => parts = << >>,
         \A k \in 1 .. m : Enumerates(parts[k], sets[k]),
         \A k, l \in 1 .. m : k # l => sets[k] \cap sets[l] = {}
  PROVE  Enumerates(FlattenSeq(parts), UNION {sets[k] : k \in 1 .. m})
<1> DEFINE Upto(j) == UNION {sets[k] : k \in 1 .. j}
           g == CHOOSE h : IsFlat(h, parts, m)
           Bad == {j \in 1 .. m : ~Enumerates(g[j], Upto(j))}
<1>1. CASE m = 0
  <2>1. FlattenSeq(parts) = parts
    BY <1>1 DEF FlattenSeq
  <2>2. parts = << >>
    BY <1>1
  <2>3. Upto(m) = {}
    BY <1>1
  <2> QED
    BY <2>1, <2>2, <2>3 DEF Enumerates
<1>2. CASE m # 0
  <2>1. FlattenSeq(parts) = g[m]
    BY <1>2 DEF FlattenSeq, IsFlat
  <2>2. IsFlat(g, parts, m)
    BY FlatExists
  <2> HIDE DEF g
  <2>3. \A j \in 1 .. m : g[j] = IF j = 1 THEN parts[j] ELSE g[j - 1] \o parts[j]
    BY <2>2, FlatAt
  <2>4. Bad = {}
    <3> SUFFICES ASSUME Bad # {}
                 PROVE  FALSE
      OBVIOUS
    <3>1. PICK j \in Bad : \A y \in Bad : j <= y
      <4>1. Bad \in SUBSET Nat
        OBVIOUS
      <4> HIDE DEF Bad
      <4> QED
        BY <4>1, LeastOf
    <3>2. j \in 1 .. m /\ ~Enumerates(g[j], Upto(j))
      BY <3>1
    <3>3. CASE j = 1
      <4>1. Upto(1) = sets[1]
        OBVIOUS
      <4> HIDE DEF Upto
      <4> QED
        BY <2>3, <3>2, <3>3, <4>1
    <3>4. CASE j # 1
      <4>1. j - 1 \in 1 .. m /\ ~(j <= j - 1)
        BY <3>2, <3>4
      <4>2. Enumerates(g[j - 1], Upto(j - 1))
        <5>1. j - 1 \notin Bad
          BY <3>1, <4>1
        <5> QED
          BY <4>1, <5>1
      <4>3. Upto(j) = Upto(j - 1) \cup sets[j]
        <5>1. \A k : k \in 1 .. j <=> k \in 1 .. j - 1 \/ k = j
          BY <3>2
        <5> QED
          BY <5>1
      <4>4. Upto(j - 1) \cap sets[j] = {}
        <5>1. \A k \in 1 .. j - 1 : k \in 1 .. m /\ k # j
          BY <3>2
        <5>2. \A k \in 1 .. j - 1 : sets[k] \cap sets[j] = {}
          BY <3>2, <5>1
        <5> QED
          BY <5>2
      <4>5. g[j] = g[j - 1] \o parts[j] /\ Enumerates(parts[j], sets[j])
        BY <2>3, <3>2, <3>4
      <4> HIDE DEF Upto
      <4> QED
        BY <3>2, <4>2, <4>3, <4>4, <4>5, ConcatEnumerates
    <3> QED
      BY <3>3, <3>4
  <2>5. m \in 1 .. m
    BY <1>2
  <2> QED
    BY <2>1, <2>4, <2>5
<1> QED
  BY <1>1, <1>2

-----------------------------------------------------------------------------
(***************************************************************************)
(* Ids: assign lists every node once.                                      *)
(***************************************************************************)

\* The nodes below a node.
Under(t, n) == {q \in DOMAIN t : q # n /\ IsPrefix(n, q)}

\* A prefix of a node that is not empty is a node.
LEMMA PrefixInTree ==
  ASSUME NEW t, IsTree(t), NEW q \in DOMAIN t, NEW d \in 1 .. Len(q)
  PROVE  /\ SubSeq(q, 1, d) \in DOMAIN t /\ Len(SubSeq(q, 1, d)) = d
         /\ \A i \in 1 .. d : SubSeq(q, 1, d)[i] = q[i]
<1>1. q \in Seq(Names) /\ Len(q) \in 0 .. MaxDepth
  BY NodeIsSeq DEF Nodes
<1>2. d \in Nat /\ Len(q) \in Nat /\ \A i \in 1 .. d : q[i] \in Names
  BY <1>1
<1>3. Len(SubSeq(q, 1, d)) = d /\ \A i \in 1 .. d : SubSeq(q, 1, d)[i] = q[i]
  BY <1>2, SubSeqProperties
<1>4. CASE d = Len(q)
  BY <1>1, <1>3, <1>4, SubSeqFull
<1>5. CASE d # Len(q)
  <2>1. d \in 1 .. Len(q) - 1
    BY <1>2, <1>5
  <2>2. SubSeq(q, 1, d) \in StoragesOf(q)
    BY <2>1 DEF StoragesOf
  <2> QED
    BY <1>3, <2>2 DEF IsTree
<1> QED
  BY <1>4, <1>5

\* Below a node are its children and what is below them.
LEMMA UnderIs ==
  ASSUME NEW t, IsTree(t), NEW n \in Nodes(t)
  PROVE  /\ Under(t, n) = Children(t, n) \cup UNION {Under(t, c) : c \in Children(t, n)}
         /\ \A c \in Children(t, n) : Children(t, n) \cap Under(t, c) = {}
         /\ \A c, e \in Children(t, n) : c # e => Under(t, c) \cap Under(t, e) = {}
<1>1. n \in Seq(Names) /\ Len(n) \in Nat
  BY NodeIsSeq
<1>2. \A q \in DOMAIN t : q \in Seq(Names) /\ Len(q) \in Nat
  BY NodeIsSeq DEF Nodes
<1>3. \A c \in Children(t, n) :
        /\ c \in DOMAIN t /\ Len(c) = Len(n) + 1
        /\ \A i \in 1 .. Len(n) : c[i] = n[i]
  BY <1>1, <1>2, PrefixAt DEF Children
<1>4. ASSUME NEW q \in Children(t, n)
      PROVE  q \in Under(t, n)
  BY <1>1, <1>4 DEF Children, Under
<1>5. ASSUME NEW c \in Children(t, n), NEW q \in Under(t, c)
      PROVE  q \in Under(t, n) /\ Len(q) # Len(c) /\ q[Len(c)] = c[Len(c)]
  <2>1. /\ q \in DOMAIN t /\ q # c /\ Len(c) <= Len(q) /\ \A i \in 1 .. Len(c) : c[i] = q[i]
    BY <1>2, <1>3, PrefixAt DEF Under
  <2>2. Len(q) # Len(c)
    BY <1>2, <1>3, <2>1, SeqEqual
  <2>3. Len(c) \in 1 .. Len(c)
    BY <1>1, <1>3
  <2>4. Len(n) <= Len(q) /\ q # n /\ \A i \in 1 .. Len(n) : n[i] = q[i]
    <3>1. \A i \in 1 .. Len(n) : i \in 1 .. Len(c)
      BY <1>1, <1>3
    <3>2. Len(n) < Len(c) /\ Len(n) <= Len(q) /\ Len(q) # Len(n)
      BY <1>1, <1>2, <1>3, <2>1
    <3> QED
      BY <1>3, <2>1, <3>1, <3>2
  <2> QED
    BY <1>1, <1>2, <2>1, <2>2, <2>3, <2>4, PrefixAt DEF Under
<1>6. ASSUME NEW q \in Under(t, n)
      PROVE  q \in Children(t, n) \/ \E c \in Children(t, n) : q \in Under(t, c)
  <2>1. q \in DOMAIN t /\ q # n /\ Len(n) <= Len(q) /\ \A i \in 1 .. Len(n) : n[i] = q[i]
    BY <1>1, <1>2, PrefixAt DEF Under
  <2>2. Len(q) # Len(n)
    BY <1>1, <1>2, <2>1, SeqEqual
  <2> DEFINE d == Len(n) + 1
             c == SubSeq(q, 1, d)
  <2>3. d \in 1 .. Len(q)
    BY <1>1, <1>2, <2>1, <2>2
  <2>4. c \in DOMAIN t /\ Len(c) = d /\ \A i \in 1 .. d : c[i] = q[i]
    BY <2>1, <2>3, PrefixInTree
  <2> HIDE DEF c
  <2>5. c \in Children(t, n)
    <3>1. Len(n) <= Len(c) /\ \A i \in 1 .. Len(n) : i \in 1 .. d
      BY <1>1, <2>4
    <3>2. IsPrefix(n, c)
      BY <1>1, <1>2, <2>1, <2>4, <3>1, PrefixAt
    <3> QED
      BY <2>4, <3>2 DEF Children
  <2>6. IsPrefix(c, q)
    <3>1. Len(c) <= Len(q)
      BY <1>2, <2>1, <2>3, <2>4
    <3> QED
      BY <1>2, <2>1, <2>4, <3>1, PrefixAt
  <2> QED
    BY <2>1, <2>5, <2>6 DEF Under
<1>7. ASSUME NEW c \in Children(t, n), NEW e \in Children(t, n), c # e
      PROVE  c[Len(c)] # e[Len(e)]
  <2>1. c = Append(n, Name(c)) /\ e = Append(n, Name(e))
    BY ChildExtends
  <2> QED
    BY <1>7, <2>1 DEF Name, Last
<1>8. Under(t, n) = Children(t, n) \cup UNION {Under(t, c) : c \in Children(t, n)}
  BY <1>4, <1>5, <1>6
<1>9. ASSUME NEW c \in Children(t, n)
      PROVE  Children(t, n) \cap Under(t, c) = {}
  BY <1>3, <1>5
<1>10. ASSUME NEW c \in Children(t, n), NEW e \in Children(t, n), c # e
       PROVE  Under(t, c) \cap Under(t, e) = {}
  BY <1>3, <1>5, <1>7, <1>10
<1> QED
  BY <1>8, <1>9, <1>10

\* The body of below.
BelowAt(O, w, n) == O[n] \o FlattenSeq([k \in DOMAIN O[n] |-> w[O[n][k]]])

\* Of the nodes that are deep enough, w is what the recursion says.
IsBelow(t, O, w, d) ==
  /\ w = [n \in Nodes(t) |-> w[n]]
  /\ \A n \in Nodes(t) : Len(n) + d > MaxDepth => w[n] = BelowAt(O, w, n)

\* The k-th of the kids is a child.
LEMMA KidIs ==
  ASSUME NEW t, IsTree(t), NEW O \in Orders(t), NEW n \in Nodes(t), NEW k \in DOMAIN O[n]
  PROVE  O[n][k] \in Children(t, n) /\ O[n][k] \in Nodes(t) /\ Len(O[n][k]) = Len(n) + 1
<1>1. O[n][k] \in Children(t, n)
  BY KidsAre DEF Enumerates
<1> QED
  BY <1>1 DEF Children, Nodes

\* The recursion of Numbering is well-founded.
LEMMA BelowExists ==
  ASSUME NEW t, IsTree(t), NEW O \in Orders(t)
  PROVE  \A d \in Nat : \E w : IsBelow(t, O, w, d)
<1> DEFINE T == {d \in Nat : \E w : IsBelow(t, O, w, d)}
           X == Nodes(t)
<1>0. \A n \in X : Len(n) \in 0 .. MaxDepth
  BY NodeIsSeq
<1>1. 0 \in T
  <2> DEFINE w == [n \in X |-> << >>]
  <2>1. w = [n \in X |-> w[n]]
    OBVIOUS
  <2>2. \A n \in X : ~(Len(n) + 0 > MaxDepth)
    BY <1>0, CfbDirectoryAssumption DEF CfbDirectoryAssumption
  <2> HIDE DEF w
  <2>3. IsBelow(t, O, w, 0)
    BY <2>1, <2>2 DEF IsBelow
  <2> QED
    BY <2>3
<1>2. ASSUME NEW d \in Nat, d \in T
      PROVE  d + 1 \in T
  <2>1. PICK w : IsBelow(t, O, w, d)
    BY <1>2
  <2> DEFINE body(n) == BelowAt(O, w, n)
             more == [n \in X |-> body(n)]
  <2> HIDE DEF body
  <2>2. \A n \in X : more[n] = body(n)
    OBVIOUS
  <2>3. more = [n \in X |-> more[n]]
    OBVIOUS
  <2> HIDE DEF more
  <2>4. ASSUME NEW n \in X, Len(n) + (d + 1) > MaxDepth
        PROVE  BelowAt(O, more, n) = BelowAt(O, w, n)
    <3>1. ASSUME NEW k \in DOMAIN O[n]
          PROVE  more[O[n][k]] = w[O[n][k]]
      <4> DEFINE c == O[n][k]
      <4>1. c \in X /\ Len(c) = Len(n) + 1
        BY KidIs
      <4> HIDE DEF c
      <4>2. Len(c) + d > MaxDepth
        BY <1>0, <2>4, <4>1, CfbDirectoryAssumption DEF CfbDirectoryAssumption
      <4>3. w[c] = body(c)
        BY <2>1, <4>1, <4>2 DEF IsBelow, body
      <4> QED
        BY <2>2, <4>1, <4>3 DEF c
    <3>2. [k \in DOMAIN O[n] |-> more[O[n][k]]] = [k \in DOMAIN O[n] |-> w[O[n][k]]]
      BY <3>1
    <3> QED
      BY <3>2 DEF BelowAt
  <2>5. IsBelow(t, O, more, d + 1)
    BY <2>2, <2>3, <2>4 DEF IsBelow, body
  <2> QED
    BY <2>5
<1> HIDE DEF T
<1>3. \A d \in Nat : d \in T
  BY <1>1, <1>2, AllNumbers
<1> QED
  BY <1>3 DEF T

\* Numbering is the root and what the recursion says of it.
LEMMA NumberingIs ==
  ASSUME NEW t, IsTree(t), NEW O \in Orders(t)
  PROVE  \E w : /\ Numbering(t, O) = << Root >> \o w[Root]
                /\ \A n \in Nodes(t) : w[n] = BelowAt(O, w, n)
<1> DEFINE X == Nodes(t)
           Rec(f) == f = [n \in X |-> O[n] \o FlattenSeq([k \in DOMAIN O[n] |-> f[O[n][k]]])]
           w == CHOOSE f : Rec(f)
<1>1. Numbering(t, O) = << Root >> \o w[Root]
  BY DEF Numbering, Nodes
<1>2. \E f : Rec(f)
  <2>1. MaxDepth + 1 \in Nat
    BY CfbDirectoryAssumption DEF CfbDirectoryAssumption
  <2>2. PICK f : IsBelow(t, O, f, MaxDepth + 1)
    BY <2>1, BelowExists
  <2>3. \A n \in X : Len(n) + (MaxDepth + 1) > MaxDepth
    <3>1. \A n \in X : Len(n) \in 0 .. MaxDepth
      BY NodeIsSeq
    <3> QED
      BY <3>1, CfbDirectoryAssumption DEF CfbDirectoryAssumption
  <2> DEFINE body(n) == BelowAt(O, f, n)
  <2>4. f = [n \in X |-> f[n]] /\ \A n \in X : f[n] = body(n)
    BY <2>2, <2>3 DEF IsBelow
  <2> HIDE DEF body, X
  <2>5. f = [n \in X |-> body(n)]
    BY <2>4
  <2> QED
    BY <2>5 DEF body, BelowAt
<1>3. Rec(w)
  <2> HIDE DEF Rec
  <2> QED
    BY <1>2
<1> HIDE DEF w
<1>4. \A n \in X : w[n] = BelowAt(O, w, n)
  <2> DEFINE body(n) == BelowAt(O, w, n)
  <2>1. w = [n \in X |-> body(n)]
    BY <1>3 DEF BelowAt
  <2> HIDE DEF X, body
  <2>2. \A n \in X : w[n] = body(n)
    BY <2>1
  <2> QED
    BY <2>2 DEF body
<1> QED
  BY <1>1, <1>4

\* What assign lists under a node is what is below it, once each.
LEMMA BelowEnumerates ==
  ASSUME NEW t, IsTree(t), NEW O \in Orders(t),
         NEW w, \A n \in Nodes(t) : w[n] = BelowAt(O, w, n)
  PROVE  \A n \in Nodes(t) : Enumerates(w[n], Under(t, n))
<1> DEFINE X == Nodes(t)
           T == {d \in Nat : \A n \in X : Len(n) + d > MaxDepth => Enumerates(w[n], Under(t, n))}
<1>0. \A n \in X : Len(n) \in 0 .. MaxDepth
  BY NodeIsSeq
<1>1. 0 \in T
  BY <1>0, CfbDirectoryAssumption DEF CfbDirectoryAssumption
<1>2. ASSUME NEW d \in Nat, d \in T
      PROVE  d + 1 \in T
  <2> SUFFICES ASSUME NEW n \in X, Len(n) + (d + 1) > MaxDepth
               PROVE  Enumerates(w[n], Under(t, n))
    OBVIOUS
  <2> DEFINE K == O[n]
             m == Len(K)
             C == Children(t, n)
             parts == [k \in DOMAIN K |-> w[K[k]]]
             sets == [k \in 1 .. m |-> Under(t, K[k])]
  <2>1. K \in Seq(C) /\ m \in Nat /\ DOMAIN K = 1 .. m /\ Enumerates(K, C)
    BY KidsAre DEF Enumerates
  <2>2. ASSUME NEW k \in 1 .. m
        PROVE  K[k] \in C /\ Enumerates(w[K[k]], Under(t, K[k]))
    <3>1. K[k] \in C /\ K[k] \in X /\ Len(K[k]) = Len(n) + 1
      BY <2>1, KidIs
    <3> HIDE DEF K
    <3>2. Len(K[k]) + d > MaxDepth
      BY <1>0, <3>1, CfbDirectoryAssumption DEF CfbDirectoryAssumption
    <3> QED
      BY <1>2, <3>1, <3>2
  <2>3. w[n] = K \o FlattenSeq(parts)
    BY DEF BelowAt
  <2> HIDE DEF K
  <2>4. /\ DOMAIN parts = 1 .. m /\ Len(parts) = m /\ (m = 0 => parts = << >>)
        /\ \A k \in 1 .. m : parts[k] = w[K[k]]
    BY <2>1
  <2>5. \A k \in 1 .. m : Enumerates(parts[k], sets[k])
    BY <2>2, <2>4
  <2>6. \A k, l \in 1 .. m : k # l => sets[k] \cap sets[l] = {}
    <3>1. \A k, l \in 1 .. m : k # l => K[k] # K[l]
      BY <2>1 DEF Enumerates
    <3> QED
      BY <2>2, <3>1, UnderIs
  <2>7. UNION {sets[k] : k \in 1 .. m} = UNION {Under(t, c) : c \in C}
    <3>1. \A c \in C : \E k \in 1 .. m : c = K[k]
      BY <2>1 DEF Enumerates
    <3> HIDE DEF C
    <3> QED
      BY <2>2, <3>1
  <2> DEFINE U == UNION {Under(t, c) : c \in C}
  <2> HIDE DEF parts, sets, m
  <2>8. Enumerates(FlattenSeq(parts), U)
    <3>1. Enumerates(FlattenSeq(parts), UNION {sets[k] : k \in 1 .. m})
      BY <2>1, <2>4, <2>5, <2>6, FlatEnumerates
    <3> QED
      BY <2>7, <3>1
  <2>9. C \cap U = {} /\ Under(t, n) = C \cup U
    BY UnderIs
  <2> HIDE DEF C, U
  <2> QED
    BY <2>1, <2>3, <2>8, <2>9, ConcatEnumerates
<1> HIDE DEF T
<1>3. \A d \in Nat : d \in T
  BY <1>1, <1>2, AllNumbers
<1>4. MaxDepth + 1 \in Nat /\ \A n \in X : Len(n) + (MaxDepth + 1) > MaxDepth
  BY <1>0, CfbDirectoryAssumption DEF CfbDirectoryAssumption
<1> QED
  BY <1>3, <1>4 DEF T

\* assign gives every node an id, the root the first one.
LEMMA Numbered ==
  ASSUME NEW t, IsTree(t), NEW O \in Orders(t)
  PROVE  Enumerates(Numbering(t, O), Nodes(t)) /\ Numbering(t, O)[1] = Root
<1>1. PICK w : /\ Numbering(t, O) = << Root >> \o w[Root]
               /\ \A n \in Nodes(t) : w[n] = BelowAt(O, w, n)
  BY NumberingIs
<1>2. Root \in Nodes(t)
  BY DEF Nodes
<1>3. Enumerates(w[Root], Under(t, Root))
  BY <1>1, <1>2, BelowEnumerates
<1>4. Under(t, Root) = DOMAIN t
  <2> SUFFICES ASSUME NEW q \in DOMAIN t
               PROVE  q # Root /\ IsPrefix(Root, q)
    BY DEF Under
  <2>1. q # Root /\ q \in Seq(Names)
    BY NodeIsSeq DEF IsTree, Nodes
  <2>2. Root \in Seq(Names) /\ Len(Root) = 0
    BY RootIsPath
  <2>3. Len(q) \in Nat
    BY <2>1
  <2>4. Len(Root) <= Len(q) /\ \A i \in 1 .. Len(Root) : Root[i] = q[i]
    BY <2>2, <2>3
  <2> QED
    BY <2>1, <2>2, <2>4, PrefixAt
<1>5. Enumerates(<< Root >>, {Root})
  BY DEF Enumerates
<1>6. {Root} \cap DOMAIN t = {}
  BY DEF IsTree
<1>7. Enumerates(<< Root >> \o w[Root], {Root} \cup DOMAIN t)
  BY <1>3, <1>4, <1>5, <1>6, ConcatEnumerates
<1>8. (<< Root >> \o w[Root])[1] = Root
  <2>1. w[Root] \in Seq(DOMAIN t) /\ << Root >> \in Seq({Root})
    BY <1>3, <1>4 DEF Enumerates
  <2> QED
    BY <2>1
<1> QED
  BY <1>1, <1>7, <1>8 DEF Nodes

-----------------------------------------------------------------------------
(***************************************************************************)
(* The sibling trees: buildBST halves the array of children.               *)
(***************************************************************************)

\* The middle of a part lies in it.
LEMMA MidIs ==
  ASSUME NEW lo \in Int, NEW hi \in Int, lo <= hi
  PROVE  Mid(lo, hi) \in lo .. hi
BY DEF Mid

\* The parts that hold the k-th of the kids, and the body of find for one.
Parts(kids, k) == [lo : 1 .. k, hi : k .. Len(kids)]

FindAt(all, kids, k, f, part) ==
  LET m == Mid(part.lo, part.hi)
  IN  IF k < m THEN f[[lo |-> part.lo, hi |-> m - 1]]
      ELSE IF k > m THEN f[[lo |-> m + 1, hi |-> part.hi]]
      ELSE [left  |-> PartRoot(all, kids, part.lo, m - 1),
            right |-> PartRoot(all, kids, m + 1, part.hi)]

IsFind(all, kids, k, f) == f = [part \in Parts(kids, k) |-> FindAt(all, kids, k, f, part)]

FindOf(all, kids, k) == CHOOSE f : IsFind(all, kids, k, f)

\* Of the parts that are small enough, f is what the recursion says.
FindUpto(all, kids, k, f, d) ==
  /\ f = [part \in Parts(kids, k) |-> f[part]]
  /\ \A part \in Parts(kids, k) : part.hi - part.lo < d => f[part] = FindAt(all, kids, k, f, part)

\* Where find goes from a part.
LEMMA PartMid ==
  ASSUME NEW kids, Len(kids) \in Nat, NEW k \in 1 .. Len(kids), NEW part \in Parts(kids, k)
  PROVE  LET m == Mid(part.lo, part.hi)
         IN  /\ part.lo \in 1 .. k /\ part.hi \in k .. Len(kids) /\ m \in part.lo .. part.hi
             /\ k < m => [lo |-> part.lo, hi |-> m - 1] \in Parts(kids, k)
             /\ k > m => [lo |-> m + 1, hi |-> part.hi] \in Parts(kids, k)
<1> DEFINE m == Mid(part.lo, part.hi)
<1>1. part.lo \in 1 .. k /\ part.hi \in k .. Len(kids)
  BY DEF Parts
<1>2. m \in part.lo .. part.hi
  <2>1. part.lo \in Int /\ part.hi \in Int /\ part.lo <= part.hi
    BY <1>1
  <2> QED
    BY <2>1, MidIs
<1> HIDE DEF m
<1>3. /\ k < m => [lo |-> part.lo, hi |-> m - 1] \in Parts(kids, k)
      /\ k > m => [lo |-> m + 1, hi |-> part.hi] \in Parts(kids, k)
  BY <1>1, <1>2 DEF Parts
<1> QED
  BY <1>1, <1>2, <1>3 DEF m

\* The three cases of a halving.
LEMMA FindHere ==
  ASSUME NEW all, NEW kids, NEW f, NEW part, NEW k \in Int, k = Mid(part.lo, part.hi)
  PROVE  FindAt(all, kids, k, f, part)
         = [left  |-> PartRoot(all, kids, part.lo, k - 1),
            right |-> PartRoot(all, kids, k + 1, part.hi)]
<1>1. ~(k < Mid(part.lo, part.hi)) /\ ~(k > Mid(part.lo, part.hi))
  OBVIOUS
<1> QED
  BY <1>1 DEF FindAt

\* ... the one looked for stands before the middle ...
LEMMA FindBefore ==
  ASSUME NEW all, NEW kids, NEW f, NEW part, NEW k, k < Mid(part.lo, part.hi),
         NEW to, to = [lo |-> part.lo, hi |-> Mid(part.lo, part.hi) - 1]
  PROVE  FindAt(all, kids, k, f, part) = f[to]
BY DEF FindAt

\* ... or behind it.
LEMMA FindBehind ==
  ASSUME NEW all, NEW kids, NEW f, NEW part, NEW k \in Int, Mid(part.lo, part.hi) \in Int,
         k > Mid(part.lo, part.hi),
         NEW to, to = [lo |-> Mid(part.lo, part.hi) + 1, hi |-> part.hi]
  PROVE  FindAt(all, kids, k, f, part) = f[to]
<1>1. ~(k < Mid(part.lo, part.hi))
  OBVIOUS
<1> QED
  BY <1>1 DEF FindAt

\* The recursion of find is well-founded.
LEMMA FindExists ==
  ASSUME NEW all, NEW kids, Len(kids) \in Nat, NEW k \in 1 .. Len(kids)
  PROVE  \A d \in Nat : \E f : FindUpto(all, kids, k, f, d)
<1> DEFINE T == {d \in Nat : \E f : FindUpto(all, kids, k, f, d)}
           P == Parts(kids, k)
<1>1. 0 \in T
  <2> DEFINE f == [part \in P |-> 0]
  <2>1. f = [part \in P |-> f[part]]
    OBVIOUS
  <2>2. \A part \in P : ~(part.hi - part.lo < 0)
    BY DEF Parts
  <2> HIDE DEF f
  <2>3. FindUpto(all, kids, k, f, 0)
    BY <2>1, <2>2 DEF FindUpto
  <2> QED
    BY <2>3
<1>2. ASSUME NEW d \in Nat, d \in T
      PROVE  d + 1 \in T
  <2>1. PICK f : FindUpto(all, kids, k, f, d)
    BY <1>2
  <2> DEFINE body(part) == FindAt(all, kids, k, f, part)
             more == [part \in P |-> body(part)]
  <2> HIDE DEF body
  <2>2. \A part \in P : more[part] = body(part)
    OBVIOUS
  <2>3. more = [part \in P |-> more[part]]
    OBVIOUS
  <2> HIDE DEF more
  <2>4. ASSUME NEW part \in P, part.hi - part.lo < d + 1
        PROVE  FindAt(all, kids, k, more, part) = FindAt(all, kids, k, f, part)
    <3> DEFINE m == Mid(part.lo, part.hi)
               a == [lo |-> part.lo, hi |-> m - 1]
               b == [lo |-> m + 1, hi |-> part.hi]
    <3>1. part.lo \in 1 .. k /\ part.hi \in k .. Len(kids) /\ m \in part.lo .. part.hi
      BY PartMid
    <3>0. k \in Int /\ m \in Int
      BY <3>1
    <3> HIDE DEF m
    <3>2. ASSUME NEW p \in P, p.hi - p.lo < d
          PROVE  more[p] = f[p]
      BY <2>1, <2>2, <3>2 DEF FindUpto, body
    <3>3. CASE k = m
      BY <3>0, <3>3, FindHere DEF m
    <3>4. CASE k < m
      <4>1. a \in P /\ a.lo = part.lo /\ a.hi = m - 1
        BY <3>4, PartMid DEF m
      <4>2. a.hi - a.lo < d
        BY <2>4, <3>1, <4>1
      <4>3. more[a] = f[a]
        BY <3>2, <4>1, <4>2
      <4>4. k < Mid(part.lo, part.hi)
        BY <3>4 DEF m
      <4>5. a = [lo |-> part.lo, hi |-> Mid(part.lo, part.hi) - 1]
        BY DEF m
      <4> HIDE DEF a
      <4>6. FindAt(all, kids, k, more, part) = more[a] /\ FindAt(all, kids, k, f, part) = f[a]
        BY <4>4, <4>5, FindBefore
      <4> QED
        BY <4>3, <4>6
    <3>5. CASE k > m
      <4>1. b \in P /\ b.lo = m + 1 /\ b.hi = part.hi
        BY <3>5, PartMid DEF m
      <4>2. b.hi - b.lo < d
        BY <2>4, <3>1, <4>1
      <4>3. more[b] = f[b]
        BY <3>2, <4>1, <4>2
      <4>4. Mid(part.lo, part.hi) \in Int /\ k > Mid(part.lo, part.hi)
        BY <3>0, <3>5 DEF m
      <4>5. b = [lo |-> Mid(part.lo, part.hi) + 1, hi |-> part.hi]
        BY DEF m
      <4> HIDE DEF b
      <4>6. FindAt(all, kids, k, more, part) = more[b] /\ FindAt(all, kids, k, f, part) = f[b]
        BY <3>0, <4>4, <4>5, FindBehind
      <4> QED
        BY <4>3, <4>6
    <3> QED
      BY <3>1, <3>3, <3>4, <3>5
  <2>5. FindUpto(all, kids, k, more, d + 1)
    BY <2>2, <2>3, <2>4 DEF FindUpto, body
  <2> QED
    BY <2>5
<1> HIDE DEF T
<1>3. \A d \in Nat : d \in T
  BY <1>1, <1>2, AllNumbers
<1> QED
  BY <1>3 DEF T

\* Siblings is what the recursion says.
LEMMA SiblingsIs ==
  ASSUME NEW all, NEW kids, Len(kids) \in Nat, NEW k \in 1 .. Len(kids)
  PROVE  /\ Siblings(all, kids, k) = FindOf(all, kids, k)[[lo |-> 1, hi |-> Len(kids)]]
         /\ \A part \in Parts(kids, k) :
              FindOf(all, kids, k)[part] = FindAt(all, kids, k, FindOf(all, kids, k), part)
<1> DEFINE w == FindOf(all, kids, k)
           P == Parts(kids, k)
<1>1. Siblings(all, kids, k) = w[[lo |-> 1, hi |-> Len(kids)]]
  BY DEF Siblings, FindOf, IsFind, FindAt, Parts
<1>2. \E f : IsFind(all, kids, k, f)
  <2>1. PICK f : FindUpto(all, kids, k, f, Len(kids))
    BY FindExists
  <2>2. \A part \in P : part.hi - part.lo < Len(kids)
    BY DEF Parts
  <2> DEFINE body(part) == FindAt(all, kids, k, f, part)
  <2>3. f = [part \in P |-> f[part]] /\ \A part \in P : f[part] = body(part)
    BY <2>1, <2>2 DEF FindUpto
  <2> HIDE DEF body, P
  <2>4. f = [part \in P |-> body(part)]
    BY <2>3
  <2> QED
    BY <2>4 DEF body, IsFind, P
<1>3. IsFind(all, kids, k, w)
  BY <1>2 DEF FindOf
<1> HIDE DEF w
<1>4. \A part \in P : w[part] = FindAt(all, kids, k, w, part)
  <2> DEFINE body(part) == FindAt(all, kids, k, w, part)
  <2>1. w = [part \in P |-> body(part)]
    BY <1>3 DEF IsFind
  <2> HIDE DEF P, body
  <2>2. \A part \in P : w[part] = body(part)
    BY <2>1
  <2> QED
    BY <2>2 DEF body
<1> QED
  BY <1>1, <1>4 DEF w

\* kids[lo .. hi] is a part that buildBST makes a tree of.
Reached(all, kids, lo, hi) ==
  \A k \in lo .. hi : Siblings(all, kids, k) = FindOf(all, kids, k)[[lo |-> lo, hi |-> hi]]

\* All kids are; with a part, what lies on either side of its middle, which
\* are the trees its root links.
LEMMA ReachedAll ==
  ASSUME NEW all, NEW kids, Len(kids) \in Nat
  PROVE  Reached(all, kids, 1, Len(kids))
BY SiblingsIs DEF Reached

\* A part that the halving reaches is its middle and two parts it reaches.
LEMMA Halved ==
  ASSUME NEW all, NEW kids, Len(kids) \in Nat, NEW lo \in Nat \ {0}, NEW hi \in Nat,
         lo <= hi, hi <= Len(kids), Reached(all, kids, lo, hi)
  PROVE  LET m == Mid(lo, hi)
         IN  /\ m \in lo .. hi
             /\ Siblings(all, kids, m) = [left  |-> PartRoot(all, kids, lo, m - 1),
                                          right |-> PartRoot(all, kids, m + 1, hi)]
             /\ Reached(all, kids, lo, m - 1) /\ Reached(all, kids, m + 1, hi)
<1> DEFINE m == Mid(lo, hi)
           part == [lo |-> lo, hi |-> hi]
<1>1. m \in lo .. hi
  BY MidIs
<1>2. part.lo = lo /\ part.hi = hi
  OBVIOUS
<1>3. ASSUME NEW k \in lo .. hi
      PROVE  /\ k \in 1 .. Len(kids) /\ part \in Parts(kids, k)
             /\ Siblings(all, kids, k) = FindAt(all, kids, k, FindOf(all, kids, k), part)
  <2>1. k \in 1 .. Len(kids) /\ part \in Parts(kids, k)
    BY DEF Parts
  <2>2. Siblings(all, kids, k) = FindOf(all, kids, k)[part]
    BY DEF Reached
  <2> QED
    BY <2>1, <2>2, SiblingsIs
<1> HIDE DEF part, m
<1>4. Siblings(all, kids, m) = [left  |-> PartRoot(all, kids, lo, m - 1),
                                right |-> PartRoot(all, kids, m + 1, hi)]
  <2>1. m \in Int /\ m = Mid(part.lo, part.hi)
    BY <1>1, <1>2 DEF m
  <2> QED
    BY <1>1, <1>2, <1>3, <2>1, FindHere
<1>5. ASSUME NEW k \in lo .. m - 1
      PROVE  Siblings(all, kids, k) = FindOf(all, kids, k)[[lo |-> lo, hi |-> m - 1]]
  <2>1. k \in lo .. hi /\ k < m
    BY <1>1
  <2>2. k < Mid(part.lo, part.hi)
    BY <1>2, <2>1 DEF m
  <2> DEFINE w == FindOf(all, kids, k)
             to == [lo |-> lo, hi |-> m - 1]
  <2>0. to = [lo |-> part.lo, hi |-> Mid(part.lo, part.hi) - 1]
    BY <1>2 DEF m
  <2> HIDE DEF to
  <2>3. FindAt(all, kids, k, w, part) = w[to]
    BY <2>0, <2>2, FindBefore
  <2>4. Siblings(all, kids, k) = FindAt(all, kids, k, w, part)
    BY <1>3, <2>1
  <2> QED
    BY <2>3, <2>4 DEF to
<1>6. ASSUME NEW k \in m + 1 .. hi
      PROVE  Siblings(all, kids, k) = FindOf(all, kids, k)[[lo |-> m + 1, hi |-> hi]]
  <2>1. k \in lo .. hi /\ k > m
    BY <1>1
  <2>2. k \in Int /\ Mid(part.lo, part.hi) \in Int /\ k > Mid(part.lo, part.hi)
    BY <1>1, <1>2, <2>1 DEF m
  <2> DEFINE w == FindOf(all, kids, k)
             to == [lo |-> m + 1, hi |-> hi]
  <2>0. to = [lo |-> Mid(part.lo, part.hi) + 1, hi |-> part.hi]
    BY <1>2 DEF m
  <2> HIDE DEF to
  <2>3. FindAt(all, kids, k, w, part) = w[to]
    BY <2>0, <2>2, FindBehind
  <2>4. Siblings(all, kids, k) = FindAt(all, kids, k, w, part)
    BY <1>3, <2>1
  <2> QED
    BY <2>3, <2>4 DEF to
<1> QED
  BY <1>1, <1>4, <1>5, <1>6 DEF Reached, m

-----------------------------------------------------------------------------
(***************************************************************************)
(* The linked entries.                                                     *)
(***************************************************************************)

\* The ids of a listed set are the numbers from 0 on, one each.
LEMMA IdIs ==
  ASSUME NEW S, NEW all, Enumerates(all, S)
  PROVE  /\ \A v \in S : /\ Id(all, v) \in Nat /\ Id(all, v) + 1 \in DOMAIN all
                         /\ all[Id(all, v) + 1] = v
         /\ \A u, v \in S : Id(all, u) = Id(all, v) => u = v
         /\ \A i \in DOMAIN all : all[i] \in S /\ Id(all, all[i]) = i - 1
<1>1. all \in Seq(S) /\ DOMAIN all \subseteq Nat \ {0}
  BY DEF Enumerates
<1>2. ASSUME NEW v \in S
      PROVE  /\ Id(all, v) \in Nat /\ Id(all, v) + 1 \in DOMAIN all
             /\ all[Id(all, v) + 1] = v
  <2> DEFINE i == CHOOSE j \in DOMAIN all : all[j] = v
  <2>1. i \in DOMAIN all /\ all[i] = v
    BY DEF Enumerates
  <2>2. Id(all, v) = i - 1
    BY DEF Id
  <2> HIDE DEF i
  <2>3. i \in Nat \ {0}
    BY <1>1, <2>1
  <2>4. i - 1 \in Nat /\ (i - 1) + 1 = i
    BY <2>3
  <2> QED
    BY <2>1, <2>2, <2>4
<1>3. ASSUME NEW u \in S, NEW v \in S, Id(all, u) = Id(all, v)
      PROVE  u = v
  BY <1>2, <1>3
<1>4. ASSUME NEW i \in DOMAIN all
      PROVE  all[i] \in S /\ Id(all, all[i]) = i - 1
  <2>1. all[i] \in S
    BY <1>1
  <2>2. Id(all, all[i]) + 1 \in DOMAIN all /\ all[Id(all, all[i]) + 1] = all[i] /\ Id(all, all[i]) \in Nat
    BY <1>2, <2>1
  <2>3. Id(all, all[i]) + 1 = i
    BY <2>2 DEF Enumerates
  <2> QED
    BY <2>1, <2>2, <2>3
<1> QED
  BY <1>2, <1>3, <1>4

\* What Writer.Bytes links.
IsLinked(t, O, P, all, E) ==
  /\ IsTree(t) /\ O \in Orders(t) /\ P \in Orders(t)
  /\ all = Numbering(t, O) /\ E = Linked(t, O, P)

\* Every node has an entry at its id, and the entries are those of the nodes.
LEMMA EntryAt ==
  ASSUME NEW t, NEW O, NEW P, NEW all, NEW E, IsLinked(t, O, P, all, E)
  PROVE  /\ Enumerates(all, Nodes(t)) /\ DOMAIN E = DOMAIN all
         /\ \A v \in Nodes(t) : /\ Id(all, v) \in Nat /\ Id(all, v) + 1 \in DOMAIN E
                                /\ IsEntry(E, Id(all, v))
                                /\ E[Id(all, v) + 1] = Entry(t, all, P, v)
         /\ \A u, v \in Nodes(t) : Id(all, u) = Id(all, v) => u = v
         /\ Id(all, Root) = 0 /\ ~IsEntry(E, NoStream)
         /\ Indexes(E) = {Id(all, v) : v \in Nodes(t)}
<1>1. Enumerates(all, Nodes(t)) /\ all[1] = Root
  BY Numbered DEF IsLinked
<1>2. E = [i \in DOMAIN all |-> Entry(t, all, P, all[i])]
  BY DEF IsLinked, Linked
<1>3. DOMAIN E = DOMAIN all /\ \A i \in DOMAIN all : E[i] = Entry(t, all, P, all[i])
  BY <1>2
<1>4. ASSUME NEW v \in Nodes(t)
      PROVE  /\ Id(all, v) \in Nat /\ Id(all, v) + 1 \in DOMAIN E
             /\ IsEntry(E, Id(all, v))
             /\ E[Id(all, v) + 1] = Entry(t, all, P, v)
  <2>1. Id(all, v) \in Nat /\ Id(all, v) + 1 \in DOMAIN all /\ all[Id(all, v) + 1] = v
    BY <1>1, IdIs
  <2>2. (Id(all, v) + 1) - 1 = Id(all, v)
    BY <2>1
  <2> QED
    BY <1>3, <2>1, <2>2 DEF IsEntry, Indexes
<1>5. \A u, v \in Nodes(t) : Id(all, u) = Id(all, v) => u = v
  BY <1>1, IdIs
<1>6. DOMAIN all \subseteq Nat \ {0} /\ 1 \in DOMAIN all
  <2>1. Root \in Nodes(t)
    BY DEF Nodes
  <2>2. \E i \in DOMAIN all : all[i] = Root
    BY <1>1, <2>1 DEF Enumerates
  <2> QED
    BY <1>1, <2>2 DEF Enumerates
<1>7. Id(all, Root) = 0
  BY <1>1, <1>6, IdIs
<1>8. ~IsEntry(E, NoStream)
  BY <1>3, <1>6 DEF IsEntry, Indexes, NoStream
<1>9. Indexes(E) = {Id(all, v) : v \in Nodes(t)}
  <2>1. ASSUME NEW i \in DOMAIN E
        PROVE  \E v \in Nodes(t) : i - 1 = Id(all, v)
    BY <1>1, <1>3, IdIs
  <2>2. ASSUME NEW v \in Nodes(t)
        PROVE  Id(all, v) \in Indexes(E)
    BY <1>4 DEF IsEntry
  <2> QED
    BY <2>1, <2>2 DEF Indexes
<1> QED
  BY <1>1, <1>3, <1>4, <1>5, <1>7, <1>8, <1>9

\* What the entry of a node says: its children, and its siblings.
LEMMA EntrySays ==
  ASSUME NEW t, NEW O, NEW P, NEW all, NEW E, IsLinked(t, O, P, all, E)
  PROVE  /\ \A u \in Nodes(t) :
              /\ E[Id(all, u) + 1].child = PartRoot(all, P[u], 1, Len(P[u]))
              /\ E[Id(all, u) + 1].name = IF u = Root THEN Root ELSE Name(u)
              /\ E[Id(all, u) + 1].type = IF u = Root THEN "root" ELSE t[u]
         /\ \A u \in Nodes(t) : \A k \in DOMAIN P[u] :
              LET e == E[Id(all, P[u][k]) + 1]
              IN  /\ e.left = Siblings(all, P[u], k).left
                  /\ e.right = Siblings(all, P[u], k).right
<1>1. ASSUME NEW u \in Nodes(t)
      PROVE  /\ E[Id(all, u) + 1].child = PartRoot(all, P[u], 1, Len(P[u]))
             /\ E[Id(all, u) + 1].name = IF u = Root THEN Root ELSE Name(u)
             /\ E[Id(all, u) + 1].type = IF u = Root THEN "root" ELSE t[u]
  <2>1. E[Id(all, u) + 1] = Entry(t, all, P, u)
    BY EntryAt
  <2>2. P[u] \in Seq(Children(t, u))
    BY KidsAre DEF IsLinked, Enumerates
  <2>3. IF P[u] = << >> THEN 1 > Len(P[u]) ELSE ~(1 > Len(P[u]))
    BY <2>2, EmptySeq
  <2>4. Entry(t, all, P, u).child = PartRoot(all, P[u], 1, Len(P[u]))
    <3>1. Entry(t, all, P, u).child
          = IF P[u] = << >> THEN NoStream ELSE Id(all, P[u][Mid(1, Len(P[u]))])
      BY DEF Entry
    <3> QED
      BY <2>3, <3>1 DEF PartRoot
  <2>5. /\ Entry(t, all, P, u).name = IF u = Root THEN Root ELSE Name(u)
        /\ Entry(t, all, P, u).type = IF u = Root THEN "root" ELSE t[u]
    BY DEF Entry
  <2> QED
    BY <2>1, <2>4, <2>5
<1>2. ASSUME NEW u \in Nodes(t), NEW k \in DOMAIN P[u]
      PROVE  LET e == E[Id(all, P[u][k]) + 1]
             IN  /\ e.left = Siblings(all, P[u], k).left
                 /\ e.right = Siblings(all, P[u], k).right
  <2> DEFINE v == P[u][k]
  <2>1. v \in Children(t, u) /\ v \in Nodes(t)
    BY KidIs DEF IsLinked
  <2>2. Parent(v) = u /\ v # Root
    BY <2>1, ChildExtends DEF IsLinked, IsTree
  <2>3. E[Id(all, v) + 1] = Entry(t, all, P, v)
    BY <2>1, EntryAt
  <2>4. k = CHOOSE j \in DOMAIN P[u] : P[u][j] = v
    <3>1. \A i, j \in DOMAIN P[u] : P[u][i] = P[u][j] => i = j
      BY KidsAre DEF IsLinked, Enumerates
    <3> QED
      BY <3>1
  <2> HIDE DEF v
  <2>5. /\ Entry(t, all, P, v).left = Siblings(all, P[u], k).left
        /\ Entry(t, all, P, v).right = Siblings(all, P[u], k).right
    <3> DEFINE sib == Siblings(all, P[u], k)
    <3>1. sib = IF v = Root THEN [left |-> NoStream, right |-> NoStream]
                ELSE Siblings(all, P[Parent(v)], CHOOSE j \in DOMAIN P[Parent(v)] : P[Parent(v)][j] = v)
      BY <2>2, <2>4
    <3> HIDE DEF sib
    <3>2. Entry(t, all, P, v).left = sib.left /\ Entry(t, all, P, v).right = sib.right
      BY <3>1 DEF Entry, Parent
    <3> QED
      BY <3>2 DEF sib
  <2> QED
    BY <2>3, <2>5 DEF v
<1> QED
  BY <1>1, <1>2

\* A link is the id of a node, or none.
LEMMA PartRootIs ==
  ASSUME NEW t, NEW O, NEW P, NEW all, NEW E, IsLinked(t, O, P, all, E), NEW u \in Nodes(t),
         NEW lo \in Nat \ {0}, NEW hi \in Int, hi <= Len(P[u])
  PROVE  PartRoot(all, P[u], lo, hi) \in Int
<1>1. CASE lo > hi
  BY <1>1 DEF PartRoot, NoStream
<1>2. CASE ~(lo > hi)
  <2>1. Mid(lo, hi) \in lo .. hi
    <3>1. lo \in Int /\ lo <= hi
      BY <1>2
    <3> QED
      BY <3>1, MidIs
  <2>2. P[u] \in Seq(Children(t, u))
    BY KidsAre DEF IsLinked, Enumerates
  <2>3. Mid(lo, hi) \in DOMAIN P[u]
    BY <2>1, <2>2
  <2>4. P[u][Mid(lo, hi)] \in Nodes(t)
    BY <2>3, KidIs DEF IsLinked
  <2> QED
    BY <1>2, <2>4, EntryAt DEF PartRoot
<1> QED
  BY <1>1, <1>2

\* The kids of a node and their number.
LEMMA KidCount ==
  ASSUME NEW t, IsTree(t), NEW O \in Orders(t), NEW u \in Nodes(t)
  PROVE  Len(O[u]) \in Nat /\ DOMAIN O[u] = 1 .. Len(O[u])
BY KidsAre DEF Enumerates

\* So they are an array that links by numbers.
LEMMA LinkedIsArray ==
  ASSUME NEW t, NEW O, NEW P, NEW all, NEW E, IsLinked(t, O, P, all, E)
  PROVE  IsArray(E)
<1>1. \E n \in Nat : DOMAIN E = 1 .. n
  BY EntryAt DEF Enumerates
<1>2. ASSUME NEW u \in Nodes(t)
      PROVE  LET e == E[Id(all, u) + 1]
             IN  e.left \in Int /\ e.right \in Int /\ e.child \in Int
  <2> DEFINE e == E[Id(all, u) + 1]
  <2>1. e.child \in Int
    <3>1. Len(P[u]) \in Nat
      BY KidCount DEF IsLinked
    <3> QED
      BY <3>1, EntrySays, PartRootIs
  <2>2. CASE u = Root
    <3>1. e = Entry(t, all, P, Root)
      BY <2>2, EntryAt
    <3>2. Entry(t, all, P, Root).left = NoStream /\ Entry(t, all, P, Root).right = NoStream
      BY DEF Entry
    <3> QED
      BY <2>1, <3>1, <3>2 DEF NoStream
  <2>3. CASE u # Root
    <3> DEFINE p == Parent(u)
               K == P[p]
    <3>1. u \in DOMAIN t /\ p \in Nodes(t) /\ u \in Children(t, p)
      BY <2>3, ParentHas DEF Nodes, IsLinked
    <3>2. PICK k \in DOMAIN K : K[k] = u
      BY <3>1, KidsAre DEF Enumerates, IsLinked
    <3>3. e.left = Siblings(all, K, k).left /\ e.right = Siblings(all, K, k).right
      BY <3>1, <3>2, EntrySays
    <3>4. Len(K) \in Nat /\ k \in 1 .. Len(K)
      BY <3>1, <3>2, KidCount DEF IsLinked
    <3> HIDE DEF K
    <3>5. \A lo \in Nat \ {0}, hi \in Int : hi <= Len(K) => PartRoot(all, K, lo, hi) \in Int
      BY <3>1, PartRootIs DEF K
    <3> HIDE DEF e, p
    <3>6. Siblings(all, K, k).left \in Int /\ Siblings(all, K, k).right \in Int
      <4> DEFINE n == Len(K)
                 T == {d \in Nat : \A lo \in Nat \ {0}, hi \in Nat :
                          /\ hi - lo < d /\ lo <= k /\ k <= hi /\ hi <= n /\ Reached(all, K, lo, hi)
                          => Siblings(all, K, k).left \in Int /\ Siblings(all, K, k).right \in Int}
      <4>1. 0 \in T
        OBVIOUS
      <4>2. ASSUME NEW d \in Nat, d \in T
            PROVE  d + 1 \in T
        <5> SUFFICES ASSUME NEW lo \in Nat \ {0}, NEW hi \in Nat, hi - lo < d + 1,
                            lo <= k, k <= hi, hi <= n, Reached(all, K, lo, hi)
                     PROVE  Siblings(all, K, k).left \in Int /\ Siblings(all, K, k).right \in Int
          OBVIOUS
        <5> DEFINE m == Mid(lo, hi)
        <5>1. /\ m \in lo .. hi
              /\ Siblings(all, K, m) = [left  |-> PartRoot(all, K, lo, m - 1),
                                        right |-> PartRoot(all, K, m + 1, hi)]
              /\ Reached(all, K, lo, m - 1) /\ Reached(all, K, m + 1, hi)
          BY <3>4, Halved
        <5> HIDE DEF m
        <5>2. CASE k = m
          <6>1. PartRoot(all, K, lo, m - 1) \in Int /\ PartRoot(all, K, m + 1, hi) \in Int
            <7>1. m - 1 \in Int /\ m - 1 <= Len(K) /\ m + 1 \in Nat \ {0} /\ hi \in Int /\ hi <= Len(K)
              BY <3>4, <5>1
            <7> QED
              BY <3>5, <7>1
          <6> QED
            BY <5>1, <5>2, <6>1
        <5>3. CASE k < m
          <6>1. m - 1 \in Nat /\ m - 1 - lo < d /\ k <= m - 1 /\ m - 1 <= n
            BY <3>4, <5>1, <5>3
          <6> QED
            BY <4>2, <5>1, <6>1
        <5>4. CASE k > m
          <6>1. m + 1 \in Nat \ {0} /\ hi - (m + 1) < d /\ m + 1 <= k
            BY <3>4, <5>1, <5>4
          <6> QED
            BY <4>2, <5>1, <6>1
        <5> QED
          BY <3>4, <5>1, <5>2, <5>3, <5>4
      <4> HIDE DEF T
      <4>3. \A d \in Nat : d \in T
        BY <4>1, <4>2, AllNumbers
      <4>4. n \in T /\ n - 1 < n /\ 1 <= k /\ k <= n
        BY <3>4, <4>3
      <4> QED
        BY <3>4, <4>4, ReachedAll DEF T
    <3> QED
      BY <2>1, <3>3, <3>6 DEF e
  <2> QED
    BY <2>2, <2>3
<1>3. \A i \in DOMAIN E : \E u \in Nodes(t) : i = Id(all, u) + 1
  <2> SUFFICES ASSUME NEW i \in DOMAIN E
               PROVE  \E u \in Nodes(t) : i = Id(all, u) + 1
    OBVIOUS
  <2>1. i \in Nat \ {0} /\ i \in DOMAIN all
    BY <1>1, EntryAt
  <2>2. all[i] \in Nodes(t) /\ Id(all, all[i]) = i - 1
    BY <2>1, EntryAt, IdIs
  <2> QED
    BY <2>1, <2>2
<1> QED
  BY <1>1, <1>2, <1>3 DEF IsArray

-----------------------------------------------------------------------------
(***************************************************************************)
(* What walkDir collects.                                                  *)
(***************************************************************************)

StreamsIn(t, S) == {q \in S : t[q] = "stream"}

\* The nodes at and below kids[lo .. hi].
Within(t, K, lo, hi) == {q \in DOMAIN t : \E k \in lo .. hi : q = K[k] \/ q \in Under(t, K[k])}

\* The walk has gone from acc to res over the entries of V, and has appended
\* the paths of W, one each.
Collects(all, E, acc, V, W, res) ==
  /\ res \in Walks(E)
  /\ res.seen = acc.seen \cup {Id(all, q) : q \in V}
  /\ ToSet(res.order) = ToSet(acc.order) \cup W
  /\ Len(res.order) = Len(acc.order) + Cardinality(W)

\* No path of V is seen yet.
Free(all, acc, V) == \A q \in V : Id(all, q) \notin acc.seen

\* The order of a walk is a sequence of paths.
LEMMA OrderIs ==
  ASSUME NEW E, NEW acc \in Walks(E)
  PROVE  acc.order \in Seq(PathPrefixes(E)) /\ Len(acc.order) \in Nat
BY WalksAre

\* Nothing is collected from nothing.
LEMMA CollectsNone ==
  ASSUME NEW all, NEW E, NEW acc \in Walks(E)
  PROVE  Collects(all, E, acc, {}, {}, acc)
<1>1. Cardinality({}) = 0
  BY FS_EmptySet
<1> QED
  BY <1>1, OrderIs DEF Collects

\* What two calls collect, one after the other, is collected by both.
LEMMA CollectsMore ==
  ASSUME NEW all, NEW E, NEW acc \in Walks(E), NEW V, NEW W, NEW mid, NEW V2, NEW W2, NEW res,
         Collects(all, E, acc, V, W, mid), Collects(all, E, mid, V2, W2, res),
         IsFiniteSet(W), IsFiniteSet(W2), W \cap W2 = {}
  PROVE  Collects(all, E, acc, V \cup V2, W \cup W2, res)
<1>1. /\ Cardinality(W) \in Nat /\ Cardinality(W2) \in Nat
      /\ Cardinality(W \cup W2) = Cardinality(W) + Cardinality(W2)
  <2>1. Cardinality(W \cap W2) = 0
    BY FS_EmptySet
  <2>2. Cardinality(W \cup W2) = Cardinality(W) + Cardinality(W2) - Cardinality(W \cap W2)
    BY FS_Union
  <2>3. Cardinality(W) \in Nat /\ Cardinality(W2) \in Nat
    BY FS_CardinalityType
  <2> QED
    BY <2>1, <2>2, <2>3
<1>2. Len(res.order) = Len(acc.order) + Cardinality(W \cup W2)
  <2>1. Len(acc.order) \in Nat
    BY OrderIs
  <2> QED
    BY <1>1, <2>1 DEF Collects
<1>3. /\ res \in Walks(E) /\ res.seen = acc.seen \cup {Id(all, q) : q \in V \cup V2}
      /\ ToSet(res.order) = ToSet(acc.order) \cup (W \cup W2)
  BY DEF Collects
<1> QED
  BY <1>2, <1>3 DEF Collects

\* Below a node are the nodes at and below all of its kids.
LEMMA WithinAll ==
  ASSUME NEW t, IsTree(t), NEW P \in Orders(t), NEW u \in Nodes(t)
  PROVE  Within(t, P[u], 1, Len(P[u])) = Under(t, u)
<1> DEFINE K == P[u]
<1>1. DOMAIN K = 1 .. Len(K)
  BY KidCount
<1>2. \A k \in DOMAIN K : K[k] \in Children(t, u)
  BY KidIs
<1>3. \A c \in Children(t, u) : \E k \in DOMAIN K : c = K[k]
  BY KidsAre DEF Enumerates
<1>4. Under(t, u) = Children(t, u) \cup UNION {Under(t, c) : c \in Children(t, u)}
  BY UnderIs
<1>5. Under(t, u) \subseteq DOMAIN t
  BY DEF Under
<1> HIDE DEF K
<1>6. ASSUME NEW q \in Under(t, u)
      PROVE  q \in Within(t, K, 1, Len(K))
  BY <1>1, <1>3, <1>4, <1>5 DEF Within
<1>7. ASSUME NEW q \in Within(t, K, 1, Len(K))
      PROVE  q \in Under(t, u)
  <2>1. PICK k \in 1 .. Len(K) : q = K[k] \/ q \in Under(t, K[k])
    BY DEF Within
  <2> QED
    BY <1>1, <1>2, <1>4, <2>1
<1> QED
  BY <1>6, <1>7 DEF K

\* A part falls into what lies before its middle, the middle, what is below
\* it, and what lies behind it.
LEMMA WithinSplit ==
  ASSUME NEW t, IsTree(t), NEW P \in Orders(t), NEW u \in Nodes(t),
         NEW lo \in Nat \ {0}, NEW hi \in Nat, hi <= Len(P[u]), NEW m \in lo .. hi
  PROVE  LET v == P[u][m]
             A == Within(t, P[u], lo, m - 1)
             B == Under(t, v)
             C == Within(t, P[u], m + 1, hi)
         IN  /\ \A q : q \in Within(t, P[u], lo, hi) <=> q = v \/ q \in A \/ q \in B \/ q \in C
             /\ v \notin A \cup B \cup C
             /\ A \cap B = {} /\ A \cap C = {} /\ B \cap C = {}
<1> DEFINE K == P[u]
           v == K[m]
           A == Within(t, K, lo, m - 1)
           B == Under(t, v)
           C == Within(t, K, m + 1, hi)
<1>0. Len(K) \in Nat
  BY KidCount
<1>1. \A k \in lo .. hi : k \in DOMAIN K /\ K[k] \in Children(t, u) /\ K[k] \in DOMAIN t
  <2>1. \A k \in lo .. hi : k \in 1 .. Len(K)
    BY <1>0
  <2>2. \A k \in lo .. hi : k \in DOMAIN K
    BY <2>1, KidCount
  <2>3. \A k \in lo .. hi : K[k] \in Children(t, u)
    BY <2>2, KidIs
  <2> QED
    BY <2>2, <2>3 DEF Children
<1>2. \A k, l \in lo .. hi : k # l => K[k] # K[l]
  BY <1>1, KidsAre DEF Enumerates
<1>3. \A k \in lo .. hi : \A c \in Children(t, u) : c \notin Under(t, K[k])
  BY <1>1, UnderIs
<1>4. \A k, l \in lo .. hi : k # l => Under(t, K[k]) \cap Under(t, K[l]) = {}
  BY <1>1, <1>2, UnderIs
<1>5. \A k : k \in lo .. hi <=> k \in lo .. m - 1 \/ k = m \/ k \in m + 1 .. hi
  OBVIOUS
<1>6. \A k \in lo .. m - 1 : k \in lo .. hi /\ k # m /\ k \notin m + 1 .. hi
  OBVIOUS
<1>7. \A k \in m + 1 .. hi : k \in lo .. hi /\ k # m
  OBVIOUS
<1> HIDE DEF K
<1>8. ASSUME NEW k \in lo .. hi, NEW l \in lo .. hi, k # l, NEW q,
             q = K[k] \/ q \in Under(t, K[k]), q = K[l] \/ q \in Under(t, K[l])
      PROVE  FALSE
  BY <1>1, <1>2, <1>3, <1>4, <1>8
<1>9. ASSUME NEW q \in A
      PROVE  \E k \in lo .. m - 1 : q = K[k] \/ q \in Under(t, K[k])
  BY DEF Within
<1>10. ASSUME NEW q \in C
       PROVE  \E k \in m + 1 .. hi : q = K[k] \/ q \in Under(t, K[k])
  BY DEF Within
<1>11. Within(t, K, lo, hi) = {v} \cup A \cup B \cup C
  <2>1. v \in DOMAIN t /\ B \subseteq DOMAIN t
    BY <1>1 DEF Under
  <2> QED
    BY <1>5, <2>1 DEF Within
<1> HIDE DEF A, C
<1>12. v \notin B
  BY <1>1, <1>3
<1>13. v \notin A /\ A \cap B = {}
  BY <1>6, <1>8, <1>9
<1>14. v \notin C /\ C \cap B = {}
  BY <1>7, <1>8, <1>10
<1>15. A \cap C = {}
  <2> SUFFICES ASSUME NEW q \in A, q \in C
               PROVE  FALSE
    OBVIOUS
  <2>1. PICK k \in lo .. m - 1 : q = K[k] \/ q \in Under(t, K[k])
    BY <1>9
  <2>2. PICK l \in m + 1 .. hi : q = K[l] \/ q \in Under(t, K[l])
    BY <1>10
  <2>3. k \in lo .. hi /\ l \in lo .. hi /\ k # l
    BY <1>6, <1>7
  <2> QED
    BY <1>8, <2>1, <2>2, <2>3
<1> QED
  BY <1>11, <1>12, <1>13, <1>14, <1>15 DEF A, B, C, v, K

\* Every name on the way to a node is the name of an entry.
LEMMA NodeIsPrefix ==
  ASSUME NEW t, NEW O, NEW P, NEW all, NEW E, IsLinked(t, O, P, all, E), NEW u \in Nodes(t)
  PROVE  u \in PathPrefixes(E)
<1>1. u \in Seq(Names) /\ Len(u) \in Nat
  BY NodeIsSeq DEF IsLinked
<1>2. CASE u = Root
  BY <1>2 DEF Root, PathPrefixes
<1>3. CASE u # Root
  <2>1. u \in DOMAIN t
    BY <1>3 DEF Nodes
  <2>2. ASSUME NEW d \in 1 .. Len(u)
        PROVE  u[d] \in EntryNames(E)
    <3> DEFINE q == SubSeq(u, 1, d)
    <3>1. q \in DOMAIN t /\ Len(q) = d /\ q[d] = u[d]
      <4>1. d \in 1 .. d
        BY <1>1
      <4> QED
        BY <2>1, <4>1, PrefixInTree DEF IsLinked
    <3> HIDE DEF q
    <3>2. q # Root /\ q \in Nodes(t)
      BY <3>1 DEF Nodes, IsLinked, IsTree
    <3>3. E[Id(all, q) + 1].name = Name(q) /\ Id(all, q) + 1 \in DOMAIN E
      BY <3>2, EntrySays, EntryAt
    <3>4. Name(q) = u[d]
      BY <3>1 DEF Name, Last
    <3> QED
      BY <3>3, <3>4 DEF EntryNames
  <2>3. u \in [1 .. Len(u) -> EntryNames(E)]
    <3>1. DOMAIN u = 1 .. Len(u) /\ u = [d \in DOMAIN u |-> u[d]]
      BY <1>1
    <3> QED
      BY <2>2, <3>1
  <2> QED
    BY <1>1, <2>3 DEF PathPrefixes
<1> QED
  BY <1>2, <1>3

\* The walk of a part, from the link to its root: it collects the nodes of the
\* part and the streams among them, when none of them is seen yet.
PartWalked(t, P, all, E, u, lo, hi) ==
  \A acc \in Walks(E) :
    LET V == Within(t, P[u], lo, hi)
    IN  Free(all, acc, V) =>
          Collects(all, E, acc, V, StreamsIn(t, V),
                   WalkTo(walkDir(E), PartRoot(all, P[u], lo, hi), u, acc))

\* An empty part is walked at once: its link is NOSTREAM.
LEMMA EmptyPartWalked ==
  ASSUME NEW t, NEW O, NEW P, NEW all, NEW E, IsLinked(t, O, P, all, E), NEW u \in Nodes(t),
         NEW lo \in Int, NEW hi \in Int, lo > hi
  PROVE  PartWalked(t, P, all, E, u, lo, hi)
<1> SUFFICES ASSUME NEW acc \in Walks(E)
             PROVE  LET V == Within(t, P[u], lo, hi)
                    IN  Collects(all, E, acc, V, StreamsIn(t, V),
                                 WalkTo(walkDir(E), PartRoot(all, P[u], lo, hi), u, acc))
  BY DEF PartWalked
<1>1. PartRoot(all, P[u], lo, hi) = NoStream
  BY DEF PartRoot
<1>2. Within(t, P[u], lo, hi) = {} /\ StreamsIn(t, {}) = {}
  BY DEF Within, StreamsIn
<1>3. IsCall(E, NoStream, u, acc)
  BY NodeIsPrefix DEF IsCall, NoStream
<1>4. WalkTo(walkDir(E), NoStream, u, acc) = acc
  <2>1. ~IsEntry(E, NoStream)
    BY EntryAt
  <2> QED
    BY <1>3, <2>1, LinkedIsArray, WalkVisits DEF VisitAt
<1> QED
  BY <1>1, <1>2, <1>4, CollectsNone

\* Taking note of a node.
LEMMA SeeingCollects ==
  ASSUME NEW all, NEW E, NEW acc \in Walks(E), NEW v, Id(all, v) \in Indexes(E)
  PROVE  Collects(all, E, acc, {v}, {}, Seeing(acc, Id(all, v)))
<1> DEFINE here == Seeing(acc, Id(all, v))
<1>1. here = [seen |-> acc.seen \cup {Id(all, v)}, order |-> acc.order]
  <2>1. acc \in [seen : SUBSET Indexes(E), order : Seq(Seq(EntryNames(E)))]
    BY DEF Walks
  <2> QED
    BY <2>1, SeeingIs
<1>2. acc.seen \subseteq Indexes(E) /\ acc.order \in Seq(PathPrefixes(E))
  BY WalksAre
<1> HIDE DEF here
<1>3. here.seen = acc.seen \cup {Id(all, v)} /\ here.order = acc.order
      /\ here = [seen |-> here.seen, order |-> here.order]
  BY <1>1
<1>4. here \in Walks(E)
  BY <1>2, <1>3, WalksAre
<1>5. Cardinality({}) = 0 /\ Len(acc.order) \in Nat
  BY FS_EmptySet, OrderIs
<1>6. {Id(all, q) : q \in {v}} = {Id(all, v)}
  OBVIOUS
<1> QED
  BY <1>3, <1>4, <1>5, <1>6 DEF Collects, here

\* Appending the path of a stream.
Listed(acc, path) == [acc EXCEPT !.order = Append(@, path)]

\* That collects the one path.
LEMMA ListedCollects ==
  ASSUME NEW all, NEW E, NEW acc \in Walks(E), NEW v \in PathPrefixes(E)
  PROVE  Collects(all, E, acc, {}, {v}, Listed(acc, v))
<1> DEFINE res == Listed(acc, v)
<1>1. res = [seen |-> acc.seen, order |-> Append(acc.order, v)]
  <2>1. acc \in [seen : SUBSET Indexes(E), order : Seq(PathPrefixes(E))]
    BY DEF Walks, PathPrefixes
  <2> QED
    BY <2>1 DEF Listed
<1>2. acc.seen \subseteq Indexes(E) /\ acc.order \in Seq(PathPrefixes(E)) /\ Len(acc.order) \in Nat
  BY WalksAre, OrderIs
<1> HIDE DEF res
<1>3. /\ res.seen = acc.seen /\ res.order = Append(acc.order, v)
      /\ res = [seen |-> res.seen, order |-> res.order]
  BY <1>1
<1>4. /\ res.order \in Seq(PathPrefixes(E)) /\ Len(res.order) = Len(acc.order) + 1
      /\ \A i \in 1 .. Len(acc.order) : res.order[i] = acc.order[i]
      /\ res.order[Len(acc.order) + 1] = v
  BY <1>2, <1>3, AppendProperties
<1>5. res \in Walks(E)
  BY <1>2, <1>3, <1>4, WalksAre
<1>6. ToSet(res.order) = ToSet(acc.order) \cup {v}
  <2> DEFINE n == Len(acc.order)
  <2>1. DOMAIN acc.order = 1 .. n /\ DOMAIN res.order = 1 .. n + 1
    BY <1>2, <1>4
  <2>2. \A i : i \in 1 .. n + 1 <=> i \in 1 .. n \/ i = n + 1
    BY <1>2
  <2> HIDE DEF n
  <2> QED
    BY <1>4, <2>1, <2>2 DEF ToSet, n
<1>7. Cardinality({v}) = 1
  BY FS_Singleton
<1> QED
  BY <1>3, <1>4, <1>5, <1>6, <1>7 DEF Collects, res

\* One step of the walk: the middle of a part, when the parts on either side
\* and the one below it are walked.
LEMMA MiddleWalked ==
  ASSUME NEW t, NEW O, NEW P, NEW all, NEW E, IsLinked(t, O, P, all, E), NEW u \in Nodes(t),
         NEW lo \in Nat \ {0}, NEW hi \in Nat, lo <= hi, hi <= Len(P[u]),
         Reached(all, P[u], lo, hi),
         LET m == Mid(lo, hi)
             v == P[u][m]
         IN  /\ PartWalked(t, P, all, E, u, lo, m - 1)
             /\ PartWalked(t, P, all, E, v, 1, Len(P[v]))
             /\ PartWalked(t, P, all, E, u, m + 1, hi)
  PROVE  PartWalked(t, P, all, E, u, lo, hi)
<1> DEFINE K == P[u]
           m == Mid(lo, hi)
           v == K[m]
           idx == Id(all, v)
           e == E[idx + 1]
           w == walkDir(E)
           S == Within(t, K, lo, hi)
           A == Within(t, K, lo, m - 1)
           B == Under(t, v)
           C == Within(t, K, m + 1, hi)
<1>1. IsTree(t) /\ P \in Orders(t)
  BY DEF IsLinked
<1>2. Len(K) \in Nat /\ DOMAIN K = 1 .. Len(K)
  BY <1>1, KidCount
<1>3. /\ m \in lo .. hi
      /\ Siblings(all, K, m) = [left  |-> PartRoot(all, K, lo, m - 1),
                                right |-> PartRoot(all, K, m + 1, hi)]
  BY <1>2, Halved
<1>4. m \in DOMAIN K /\ m - 1 \in Int /\ m - 1 <= Len(K) /\ m + 1 \in Nat \ {0} /\ hi \in Int
  BY <1>2, <1>3
<1>5. v \in Children(t, u) /\ v \in Nodes(t)
  BY <1>1, <1>4, KidIs
<1>6. v \in DOMAIN t /\ v # Root /\ v = Append(u, Name(v)) /\ t[v] \in {"storage", "stream"}
  BY <1>1, <1>5, ChildExtends DEF IsTree
<1>7. /\ S = {v} \cup A \cup B \cup C /\ v \notin A \cup B \cup C
      /\ A \cap B = {} /\ A \cap C = {} /\ B \cap C = {}
  <2>1. m \in lo .. hi
    BY <1>3
  <2> HIDE DEF m
  <2>2. /\ \A q : q \in S <=> q = v \/ q \in A \/ q \in B \/ q \in C
        /\ v \notin A \cup B \cup C
        /\ A \cap B = {} /\ A \cap C = {} /\ B \cap C = {}
    BY <1>1, <2>1, WithinSplit
  <2> HIDE DEF S, v, A, B, C
  <2>3. S = {v} \cup A \cup B \cup C
    BY <2>2
  <2> QED
    BY <2>2, <2>3
<1>8. A \subseteq DOMAIN t /\ B \subseteq DOMAIN t /\ C \subseteq DOMAIN t
  BY DEF Within, Under
<1>9. \A p, q \in DOMAIN t : Id(all, p) = Id(all, q) => p = q
  <2>1. \A p, q \in Nodes(t) : Id(all, p) = Id(all, q) => p = q
    BY EntryAt
  <2> QED
    BY <2>1 DEF Nodes
<1>10. /\ e.left = PartRoot(all, K, lo, m - 1) /\ e.right = PartRoot(all, K, m + 1, hi)
       /\ e.child = PartRoot(all, P[v], 1, Len(P[v]))
       /\ e.name = Name(v) /\ e.type = t[v]
  <2>1. e.left = Siblings(all, K, m).left /\ e.right = Siblings(all, K, m).right
    BY <1>4, EntrySays
  <2>2. /\ e.child = PartRoot(all, P[v], 1, Len(P[v]))
        /\ e.name = Name(v) /\ e.type = t[v]
    BY <1>5, <1>6, EntrySays
  <2> HIDE DEF e
  <2> QED
    BY <1>3, <2>1, <2>2
<1>11. IsEntry(E, idx) /\ idx \in Indexes(E)
  BY <1>5, EntryAt DEF IsEntry
<1>12. PartRoot(all, K, lo, hi) = idx
  BY DEF PartRoot
<1>13. Within(t, P[v], 1, Len(P[v])) = B
  BY <1>1, <1>5, WithinAll
<1>14. u \in PathPrefixes(E) /\ v \in PathPrefixes(E)
  BY <1>5, NodeIsPrefix
<1>15. IsArray(E) /\ idx \in Int
  BY <1>5, EntryAt, LinkedIsArray
<1>16. \A V \in SUBSET DOMAIN t : IsFiniteSet(StreamsIn(t, V))
  <2> TAKE V \in SUBSET DOMAIN t
  <2>1. StreamsIn(t, V) \subseteq DOMAIN t /\ IsFiniteSet(DOMAIN t)
    BY <1>1 DEF StreamsIn, IsTree
  <2> QED
    BY <2>1, FS_Subset
<1>17. PartWalked(t, P, all, E, u, lo, m - 1) /\ PartWalked(t, P, all, E, v, 1, Len(P[v]))
       /\ PartWalked(t, P, all, E, u, m + 1, hi)
  OBVIOUS
<1> HIDE DEF v, m, K
<1> SUFFICES ASSUME NEW acc \in Walks(E), Free(all, acc, S)
             PROVE  Collects(all, E, acc, S, StreamsIn(t, S), WalkTo(w, idx, u, acc))
  BY <1>12 DEF PartWalked, K, v
<1> HIDE DEF S, A, B, C, e, idx, w
<1> DEFINE here == Seeing(acc, idx)
           left == WalkTo(w, e.left, u, here)
           self == Self(E, w, idx, u, acc)
           res == WalkTo(w, e.right, u, self)
<1>18. Collects(all, E, acc, {v}, {}, here)
  BY <1>11, SeeingCollects DEF idx
<1>19. here \in Walks(E) /\ Free(all, here, A)
  <2>1. \A q \in A : Id(all, q) # Id(all, v) /\ Id(all, q) \notin acc.seen
    BY <1>6, <1>7, <1>8, <1>9 DEF Free
  <2> QED
    BY <1>18, <2>1 DEF Free, Collects
<1>20. Collects(all, E, here, A, StreamsIn(t, A), left)
  BY <1>10, <1>17, <1>19 DEF PartWalked, A, K, w
<1> DEFINE VA == {v} \cup A
           WA == StreamsIn(t, A)
<1> HIDE DEF here
<1>21. Collects(all, E, acc, VA, WA, left)
  <2>1. IsFiniteSet({}) /\ IsFiniteSet(StreamsIn(t, A)) /\ {} \cap StreamsIn(t, A) = {}
    BY <1>8, <1>16, FS_EmptySet
  <2>2. Collects(all, E, acc, {v} \cup A, {} \cup StreamsIn(t, A), left)
    BY <1>18, <1>20, <2>1, CollectsMore
  <2>3. {} \cup StreamsIn(t, A) = WA
    OBVIOUS
  <2> QED
    BY <2>2, <2>3
<1> DEFINE VB == VA \cup B
           WB == WA \cup IF t[v] = "stream" THEN {v} ELSE StreamsIn(t, B)
<1>22. left \in Walks(E) /\ Left(E, w, idx, u, acc) = left
  BY <1>21 DEF Collects, Left, here, e
<1> HIDE DEF left
<1>23. Collects(all, E, acc, VB, WB, self)
  <2>1. CASE t[v] = "stream"
    <3>1. self = Listed(left, v)
      <4>1. self = [left EXCEPT !.order = Append(@, Append(u, e.name))]
        BY <1>10, <1>22, <2>1 DEF Self, e
      <4> QED
        BY <1>6, <1>10, <4>1 DEF Listed
    <3>2. Collects(all, E, left, {}, {v}, self)
      BY <1>14, <1>22, <3>1, ListedCollects
    <3>3. B = {}
      <4>1. \A q \in Children(t, v) : FALSE
        BY <1>1, <1>5, <1>6, <2>1, ChildExtends
      <4>2. Children(t, v) = {}
        BY <4>1
      <4>3. Under(t, v) = Children(t, v) \cup UNION {Under(t, c) : c \in Children(t, v)}
        BY <1>1, <1>5, UnderIs
      <4> QED
        BY <4>2, <4>3 DEF B
    <3>4. IsFiniteSet(WA) /\ IsFiniteSet({v}) /\ WA \cap {v} = {}
      <4>1. IsFiniteSet(WA) /\ IsFiniteSet({v})
        BY <1>8, <1>16, FS_Singleton
      <4>2. v \notin WA
        BY <1>7 DEF StreamsIn
      <4> QED
        BY <4>1, <4>2
    <3> HIDE DEF VA, WA, self
    <3>5. Collects(all, E, acc, VA \cup {}, WA \cup {v}, self)
      BY <1>21, <3>2, <3>4, CollectsMore
    <3>6. VA \cup {} = VB /\ WA \cup {v} = WB
      BY <2>1, <3>3
    <3> QED
      BY <3>5, <3>6
  <2>2. CASE t[v] = "storage"
    <3>1. self = WalkTo(w, e.child, v, left)
      <4>1. self = WalkTo(w, e.child, Append(u, e.name), left)
        BY <1>10, <1>22, <2>2 DEF Self, e
      <4> QED
        BY <1>6, <1>10, <4>1
    <3>2. Free(all, left, B)
      <4>1. \A q \in B : /\ Id(all, q) # Id(all, v) /\ Id(all, q) \notin acc.seen
                         /\ \A p \in A : Id(all, q) # Id(all, p)
        BY <1>6, <1>7, <1>8, <1>9 DEF Free
      <4> QED
        BY <1>21, <4>1 DEF Free, Collects
    <3>3. Collects(all, E, left, B, StreamsIn(t, B), self)
      BY <1>10, <1>13, <1>17, <1>22, <3>1, <3>2 DEF PartWalked, w
    <3>4. IsFiniteSet(WA) /\ IsFiniteSet(StreamsIn(t, B)) /\ WA \cap StreamsIn(t, B) = {}
      BY <1>7, <1>8, <1>16 DEF StreamsIn
    <3> HIDE DEF VA, WA, self
    <3>5. Collects(all, E, acc, VA \cup B, WA \cup StreamsIn(t, B), self)
      BY <1>21, <3>3, <3>4, CollectsMore
    <3>6. WA \cup StreamsIn(t, B) = WB
      BY <2>2
    <3> QED
      BY <3>5, <3>6
  <2> QED
    BY <1>6, <2>1, <2>2
<1> HIDE DEF self
<1>24. self \in Walks(E) /\ Free(all, self, C)
  <2>1. \A q \in C : /\ Id(all, q) # Id(all, v) /\ Id(all, q) \notin acc.seen
                     /\ \A p \in A \cup B : Id(all, q) # Id(all, p)
    BY <1>6, <1>7, <1>8, <1>9 DEF Free
  <2> QED
    BY <1>23, <2>1 DEF Free, Collects
<1>25. Collects(all, E, self, C, StreamsIn(t, C), res)
  BY <1>10, <1>17, <1>24 DEF PartWalked, C, K, w
<1> HIDE DEF res
<1>26. Collects(all, E, acc, S, StreamsIn(t, S), res)
  <2>1. IsFiniteSet(WB) /\ WB \cap StreamsIn(t, C) = {}
    <3>1. WB \subseteq DOMAIN t /\ WB \cap C = {}
      BY <1>6, <1>7, <1>8 DEF StreamsIn
    <3>2. IsFiniteSet(WB)
      BY <1>1, <3>1, FS_Subset DEF IsTree
    <3> QED
      BY <3>1, <3>2 DEF StreamsIn
  <2>2. IsFiniteSet(StreamsIn(t, C))
    BY <1>8, <1>16
  <2>3. VB \cup C = S
    BY <1>7
  <2>4. WB \cup StreamsIn(t, C) = StreamsIn(t, S)
    <3>1. CASE t[v] = "stream"
      <4>1. B = {}
        <5>1. \A q \in Children(t, v) : FALSE
          BY <1>1, <1>5, <1>6, <3>1, ChildExtends
        <5>2. Children(t, v) = {}
          BY <5>1
        <5>3. Under(t, v) = Children(t, v) \cup UNION {Under(t, c) : c \in Children(t, v)}
          BY <1>1, <1>5, UnderIs
        <5> QED
          BY <5>2, <5>3 DEF B
      <4> QED
        BY <1>7, <3>1, <4>1 DEF StreamsIn
    <3>2. CASE t[v] = "storage"
      BY <1>7, <3>2 DEF StreamsIn
    <3> QED
      BY <1>6, <3>1, <3>2
  <2> HIDE DEF VB, WB
  <2>5. Collects(all, E, acc, VB \cup C, WB \cup StreamsIn(t, C), res)
    BY <1>23, <1>25, <2>1, <2>2, CollectsMore
  <2> QED
    BY <2>3, <2>4, <2>5
<1>27. WalkTo(w, idx, u, acc) = res
  <2>1. idx \notin acc.seen
    BY <1>7 DEF Free, idx
  <2>2. IsCall(E, idx, u, acc)
    BY <1>14, <1>15 DEF IsCall
  <2>3. WalkTo(w, idx, u, acc) = VisitAt(E, w, idx, u, acc)
    BY <1>15, <2>2, WalkVisits DEF w
  <2> QED
    BY <1>11, <2>1, <2>3 DEF VisitAt, res, self, e
<1> QED
  BY <1>26, <1>27

\* So every part is walked, by its number of nodes.
LEMMA PartsWalked ==
  ASSUME NEW t, NEW O, NEW P, NEW all, NEW E, IsLinked(t, O, P, all, E)
  PROVE  \A u \in Nodes(t) : PartWalked(t, P, all, E, u, 1, Len(P[u]))
<1> DEFINE Small(d, u, lo, hi) ==
             /\ hi <= Len(P[u]) /\ Reached(all, P[u], lo, hi)
             /\ Cardinality(Within(t, P[u], lo, hi)) < d
           T == {d \in Nat : \A u \in Nodes(t), lo \in Nat \ {0}, hi \in Nat :
                   Small(d, u, lo, hi) => PartWalked(t, P, all, E, u, lo, hi)}
<1>1. IsTree(t) /\ P \in Orders(t)
  BY DEF IsLinked
<1>2. \A u \in Nodes(t) : \A lo, hi : IsFiniteSet(Within(t, P[u], lo, hi))
  <2> SUFFICES ASSUME NEW u \in Nodes(t), NEW lo, NEW hi
               PROVE  IsFiniteSet(Within(t, P[u], lo, hi))
    OBVIOUS
  <2>1. Within(t, P[u], lo, hi) \subseteq DOMAIN t /\ IsFiniteSet(DOMAIN t)
    BY <1>1 DEF Within, IsTree
  <2> QED
    BY <2>1, FS_Subset
<1>3. 0 \in T
  <2> SUFFICES ASSUME NEW u \in Nodes(t), NEW lo \in Nat \ {0}, NEW hi \in Nat,
                      Cardinality(Within(t, P[u], lo, hi)) < 0
               PROVE  FALSE
    OBVIOUS
  <2>1. Cardinality(Within(t, P[u], lo, hi)) \in Nat
    BY <1>2, FS_CardinalityType
  <2> QED
    BY <2>1
<1>4. ASSUME NEW d \in Nat, d \in T
      PROVE  d + 1 \in T
  <2> SUFFICES ASSUME NEW u \in Nodes(t), NEW lo \in Nat \ {0}, NEW hi \in Nat, Small(d + 1, u, lo, hi)
               PROVE  PartWalked(t, P, all, E, u, lo, hi)
    OBVIOUS
  <2>1. CASE lo > hi
    BY <2>1, EmptyPartWalked
  <2>2. CASE ~(lo > hi)
    <3> DEFINE m == Mid(lo, hi)
               v == P[u][m]
               S == Within(t, P[u], lo, hi)
               A == Within(t, P[u], lo, m - 1)
               B == Within(t, P[v], 1, Len(P[v]))
               C == Within(t, P[u], m + 1, hi)
    <3>1. Len(P[u]) \in Nat /\ DOMAIN P[u] = 1 .. Len(P[u]) /\ lo <= hi
      BY <1>1, <2>2, KidCount
    <3>2. m \in lo .. hi /\ Reached(all, P[u], lo, m - 1) /\ Reached(all, P[u], m + 1, hi)
      BY <3>1, Halved
    <3>3. /\ m - 1 \in Nat /\ m - 1 <= Len(P[u]) /\ m + 1 \in Nat \ {0} /\ m \in DOMAIN P[u]
          /\ hi <= Len(P[u])
      BY <3>1, <3>2
    <3>4. v \in Nodes(t)
      BY <1>1, <3>3, KidIs
    <3>5. B = Under(t, v)
      BY <1>1, <3>4, WithinAll
    <3> HIDE DEF m
    <3>6. /\ \A q : q \in S <=> q = v \/ q \in A \/ q \in Under(t, v) \/ q \in C
          /\ v \notin A \cup Under(t, v) \cup C
      BY <1>1, <3>2, WithinSplit
    <3>7. IsFiniteSet(S) /\ Cardinality(S) < d + 1
      BY <1>2
    <3> HIDE DEF S, A, B, C, v
    <3>8. ASSUME NEW X \in {A, B, C}
          PROVE  Cardinality(X) < d
      <4>1. X \subseteq S /\ X # S
        BY <3>5, <3>6
      <4>2. Cardinality(X) \in Nat /\ Cardinality(S) \in Nat /\ Cardinality(X) < Cardinality(S)
        BY <3>7, <4>1, FS_Subset, FS_CardinalityType
      <4> QED
        BY <3>7, <4>2
    <3>9. PartWalked(t, P, all, E, u, lo, m - 1)
      <4>1. Small(d, u, lo, m - 1)
        BY <3>2, <3>3, <3>8 DEF A
      <4> QED
        BY <1>4, <3>3, <4>1
    <3>10. PartWalked(t, P, all, E, u, m + 1, hi)
      <4>1. Small(d, u, m + 1, hi)
        BY <3>2, <3>3, <3>8 DEF C
      <4> QED
        BY <1>4, <3>3, <4>1
    <3>11. PartWalked(t, P, all, E, v, 1, Len(P[v]))
      <4>1. Len(P[v]) \in Nat /\ 1 \in Nat \ {0}
        BY <1>1, <3>4, KidCount
      <4>2. Reached(all, P[v], 1, Len(P[v]))
        BY <4>1, ReachedAll
      <4>3. Small(d, v, 1, Len(P[v]))
        BY <3>8, <4>1, <4>2 DEF B
      <4> QED
        BY <1>4, <3>4, <4>1, <4>3
    <3> HIDE DEF Small, T
    <3>12. hi <= Len(P[u]) /\ Reached(all, P[u], lo, hi)
      BY DEF Small
    <3> QED
      BY <3>1, <3>9, <3>10, <3>11, <3>12, MiddleWalked DEF m, v
  <2> QED
    BY <2>1, <2>2
<1> HIDE DEF T
<1>5. \A d \in Nat : d \in T
  BY <1>3, <1>4, AllNumbers
<1>6. ASSUME NEW u \in Nodes(t)
      PROVE  PartWalked(t, P, all, E, u, 1, Len(P[u]))
  <2> DEFINE n == Len(P[u])
             c == Cardinality(Within(t, P[u], 1, n))
  <2>1. c \in Nat /\ c + 1 \in Nat /\ c < c + 1
    <3>1. c \in Nat
      BY <1>2, FS_CardinalityType
    <3> HIDE DEF c
    <3> QED
      BY <3>1
  <2>2. n \in Nat /\ n <= n /\ 1 \in Nat \ {0}
    BY <1>1, KidCount
  <2>3. Reached(all, P[u], 1, n)
    BY <2>2, ReachedAll
  <2>4. Small(c + 1, u, 1, n)
    BY <2>1, <2>2, <2>3
  <2>5. c + 1 \in T
    BY <1>5, <2>1
  <2> HIDE DEF c, n, Small
  <2>6. PartWalked(t, P, all, E, u, 1, n)
    BY <2>2, <2>4, <2>5 DEF T
  <2> QED
    BY <2>6 DEF n
<1> QED
  BY <1>6

\* The walk over what Writer.Bytes links sees every entry but the root's and
\* returns the path of every stream, once.
LEMMA WalkOfLinked ==
  ASSUME NEW t, NEW O, NEW P, NEW all, NEW E, IsLinked(t, O, P, all, E)
  PROVE  LET w == Walk(E)
             S == StreamsIn(t, DOMAIN t)
         IN  /\ Cardinality(w.seen) = Len(E) - 1
             /\ Len(w.order) = Cardinality(S) /\ ToSet(w.order) = S
<1> DEFINE none == [seen |-> {}, order |-> << >>]
           D == DOMAIN t
           w == WalkTo(walkDir(E), PartRoot(all, P[Root], 1, Len(P[Root])), Root, none)
           S == StreamsIn(t, D)
<1>1. Root \in Nodes(t) /\ IsTree(t) /\ P \in Orders(t)
  BY DEF Nodes, IsLinked
<1>2. E[1].child = PartRoot(all, P[Root], 1, Len(P[Root]))
  <2>1. Id(all, Root) + 1 = 1
    BY EntryAt
  <2> QED
    BY <1>1, <2>1, EntrySays
<1>3. Walk(E) = w
  BY <1>2 DEF Walk, WalkTo, Root
<1>4. none \in Walks(E) /\ none.seen = {} /\ none.order = << >>
  <2>1. << >> \in Seq(PathPrefixes(E))
    OBVIOUS
  <2> QED
    BY <2>1, WalksAre
<1>5. Within(t, P[Root], 1, Len(P[Root])) = D
  <2>1. Within(t, P[Root], 1, Len(P[Root])) = Under(t, Root)
    BY <1>1, WithinAll
  <2>2. ASSUME NEW q \in D
        PROVE  q \in Under(t, Root)
    <3>1. q # Root /\ q \in Seq(Names)
      BY <1>1, NodeIsSeq DEF IsTree, Nodes
    <3>2. Root \in Seq(Names) /\ Len(Root) = 0 /\ Len(q) \in Nat
      BY <3>1, RootIsPath
    <3>3. Len(Root) <= Len(q) /\ \A i \in 1 .. Len(Root) : Root[i] = q[i]
      BY <3>2
    <3> QED
      BY <3>1, <3>2, <3>3, PrefixAt DEF Under
  <2>3. Under(t, Root) \subseteq D
    BY DEF Under
  <2> QED
    BY <2>1, <2>2, <2>3
<1> HIDE DEF none
<1>6. Free(all, none, D)
  BY <1>4 DEF Free
<1>7. Collects(all, E, none, D, S, w)
  BY <1>1, <1>4, <1>5, <1>6, PartsWalked DEF PartWalked
<1> HIDE DEF w, S
<1>8. w.seen = {Id(all, q) : q \in D} /\ ToSet(w.order) = S /\ Len(w.order) = Cardinality(S)
  <2>1. ToSet(<< >>) = {} /\ Len(<< >>) = 0
    BY DEF ToSet
  <2>2. S \subseteq D /\ IsFiniteSet(D)
    BY <1>1 DEF S, StreamsIn, IsTree
  <2>3. Cardinality(S) \in Nat
    BY <2>2, FS_Subset, FS_CardinalityType
  <2> QED
    BY <1>4, <1>7, <2>1, <2>3 DEF Collects
<1>9. Cardinality(w.seen) = Len(E) - 1
  <2>1. /\ Enumerates(all, Nodes(t)) /\ DOMAIN E = DOMAIN all /\ Id(all, Root) = 0
        /\ Indexes(E) = {Id(all, v) : v \in Nodes(t)}
        /\ \A u, v \in Nodes(t) : Id(all, u) = Id(all, v) => u = v
    BY EntryAt
  <2>2. w.seen = Indexes(E) \ {0}
    <3>1. Root \notin D
      BY <1>1 DEF IsTree
    <3>2. \A q \in D : Id(all, q) # 0
      BY <1>1, <2>1, <3>1 DEF Nodes
    <3> QED
      BY <1>8, <2>1, <3>2 DEF Nodes
  <2>3. PICK n \in Nat : DOMAIN E = 1 .. n /\ n = Len(E)
    <3>1. all \in Seq(Nodes(t))
      BY <2>1 DEF Enumerates
    <3>2. DOMAIN all = 1 .. Len(all) /\ Len(all) \in Nat
      BY <3>1
    <3>3. E = [i \in 1 .. Len(all) |-> E[i]]
      <4>1. E = [i \in DOMAIN all |-> Entry(t, all, P, all[i])]
        BY DEF IsLinked, Linked
      <4> QED
        BY <3>2, <4>1
    <3>4. Len(E) = Len(all)
      BY <3>2, <3>3
    <3> QED
      BY <2>1, <3>2, <3>4
  <2>4. 1 \in 1 .. n
    <3>1. Id(all, Root) + 1 \in DOMAIN E
      BY <1>1, EntryAt
    <3> QED
      BY <2>1, <2>3, <3>1
  <2>5. Indexes(E) \ {0} = 1 .. n - 1
    <3>1. \A i \in 1 .. n - 1 : i + 1 \in 1 .. n /\ i = (i + 1) - 1 /\ i # 0
      BY <2>3
    <3>2. \A i \in 1 .. n : i - 1 = 0 \/ i - 1 \in 1 .. n - 1
      BY <2>3
    <3>3. Indexes(E) = {i - 1 : i \in 1 .. n}
      BY <2>3 DEF Indexes
    <3> QED
      BY <3>1, <3>2, <3>3
  <2>6. Cardinality(1 .. n - 1) = n - 1
    <3>1. n - 1 \in Nat
      BY <2>3, <2>4
    <3> QED
      BY <3>1, FS_Interval
  <2> QED
    BY <2>2, <2>3, <2>5, <2>6
<1> QED
  BY <1>3, <1>8, <1>9 DEF S

-----------------------------------------------------------------------------
(***************************************************************************)
(* What Writer.Bytes linked.                                               *)
(***************************************************************************)

\* The tree is finite, and what was returned was linked from it.
LinkInv ==
  /\ IsFiniteSet(DOMAIN tree)
  /\ result = "built" => \E O, P \in Orders(tree) : entries = Linked(tree, O, P)

\* There are finitely many storages above a stream.
LEMMA StoragesFinite == ASSUME NEW p \in Paths PROVE IsFiniteSet(StoragesOf(p))
<1> DEFINE n == Len(p) - 1
           f == [k \in 1 .. n |-> SubSeq(p, 1, k)]
<1>1. n \in Int
  BY PathIsSeq
<1>2. IsFiniteSet(1 .. n)
  BY <1>1, FS_Interval
<1>3. f \in Surjection(1 .. n, StoragesOf(p))
  BY DEF Surjection, StoragesOf
<1> HIDE DEF f, n
<1> QED
  BY <1>2, <1>3, FS_Surjection

\* Every step keeps the invariant.
THEOREM LinkInvariant == Spec => []LinkInv
<1>1. Init => LinkInv
  <2> SUFFICES ASSUME Init
               PROVE  LinkInv
    OBVIOUS
  <2>1. DOMAIN tree = {}
    BY DEF Init
  <2> QED
    BY <2>1, FS_EmptySet DEF Init, LinkInv
<1>2. DirInv /\ LinkInv /\ [Next]_vars => LinkInv'
  <2> SUFFICES ASSUME DirInv, LinkInv, [Next]_vars
               PROVE  LinkInv'
    OBVIOUS
  <2>0. DOMAIN << >> = {} /\ IsFiniteSet({})
    BY FS_EmptySet
  <2>1. ASSUME NEW path \in Paths, AddStream(path)
        PROVE  LinkInv'
    <3>1. tree' = << >> /\ result' = "none"
      BY <2>1 DEF AddStream
    <3> QED
      BY <2>0, <3>1 DEF LinkInv
  <2>2. CASE Bytes
    <3>1. tree' = << >> /\ result' = "none"
      BY <2>2 DEF Bytes
    <3> QED
      BY <2>0, <3>1 DEF LinkInv
  <2>3. CASE Insert
    <3> DEFINE p == streams[next]
    <3>1. p \in Paths
      BY <2>3 DEF Insert, DirInv, TypeOK
    <3>2. DOMAIN tree' = DOMAIN tree \cup StoragesOf(p) \cup {p} /\ result' = "none"
      BY <2>3 DEF Insert, Inserted, DirInv
    <3>3. IsFiniteSet(StoragesOf(p)) /\ IsFiniteSet({p}) /\ IsFiniteSet(DOMAIN tree)
      BY <3>1, StoragesFinite, FS_Singleton DEF LinkInv
    <3>4. IsFiniteSet(DOMAIN tree')
      BY <3>2, <3>3, FS_Union
    <3> QED
      BY <3>2, <3>4 DEF LinkInv
  <2>4. CASE Reject
    BY <2>4 DEF Reject, LinkInv
  <2>5. CASE Link
    BY <2>5 DEF Link, LinkInv
  <2>6. CASE UNCHANGED vars
    BY <2>6 DEF vars, LinkInv
  <2> QED
    BY <2>1, <2>2, <2>3, <2>4, <2>5, <2>6 DEF Next
<1> QED
  BY <1>1, <1>2, DirInvariant, PTL DEF Spec

\* So what buildTree links is a tree.
LEMMA TreeIs == DirInv /\ LinkInv => IsTree(tree)
<1> SUFFICES ASSUME DirInv, LinkInv
             PROVE  IsTree(tree)
  OBVIOUS
<1>1. ASSUME NEW q \in DOMAIN tree
      PROVE  /\ q \in Paths \ {Root} /\ tree[q] \in {"storage", "stream"}
             /\ \A p \in StoragesOf(q) : p \in DOMAIN tree /\ tree[p] = "storage"
  <2>1. q \in Paths /\ q # Root /\ tree[q] \in {"storage", "stream"}
    BY DEF DirInv, TypeOK, NodesEntered
  <2>2. PICK i \in Entered : IsPrefix(q, streams[i])
    BY DEF DirInv, NodesEntered
  <2> DEFINE s == streams[i]
  <2>3. /\ s \in Paths
        /\ \A p \in StoragesOf(s) : p \in DOMAIN tree /\ tree[p] = "storage"
    <3>1. i \in 1 .. Len(streams)
      BY DEF DirInv, TypeOK, Entered
    <3> QED
      BY <3>1 DEF DirInv, TypeOK, EnteredNodes
  <2> HIDE DEF s
  <2>4. IsPrefix(q, s)
    BY <2>2 DEF s
  <2>5. ASSUME NEW p \in StoragesOf(q)
        PROVE  p \in StoragesOf(s)
    <3>1. p \in Paths /\ p # Root /\ p # q /\ IsPrefix(p, q)
      BY <2>1, StoragesArePrefixes
    <3>2. p \in Seq(Names) /\ q \in Seq(Names) /\ s \in Seq(Names)
      BY <2>1, <2>3, <3>1, PathIsSeq
    <3>3. /\ Len(p) <= Len(q) /\ \A j \in 1 .. Len(p) : p[j] = q[j]
          /\ Len(q) <= Len(s) /\ \A j \in 1 .. Len(q) : q[j] = s[j]
      BY <2>4, <3>1, <3>2, PrefixAt
    <3>4. Len(p) <= Len(s) /\ \A j \in 1 .. Len(p) : p[j] = s[j]
      <4>1. \A j \in 1 .. Len(p) : j \in 1 .. Len(q)
        BY <3>2, <3>3
      <4> QED
        BY <3>2, <3>3, <4>1
    <3>5. IsPrefix(p, s)
      BY <3>2, <3>4, PrefixAt
    <3>6. p # s
      <4>1. Len(p) # Len(q)
        BY <3>1, <3>2, <3>3, SeqEqual
      <4> QED
        BY <3>2, <3>3, <4>1
    <3> QED
      BY <2>3, <3>1, <3>5, <3>6, PrefixIsNode
  <2> QED
    BY <2>1, <2>3, <2>5
<1>2. IsFiniteSet(DOMAIN tree)
  BY DEF LinkInv
<1> QED
  BY <1>1, <1>2 DEF IsTree

\* The walk of Open meets every entry that Writer.Bytes linked once and
\* returns every registered stream once, under its full path, and nothing
\* else, in whatever orders assign and link saw the children.
THEOREM WalkFindsAllHolds == Spec => []WalkFindsAll
<1>1. DirInv /\ LinkInv => WalkFindsAll
  <2> SUFFICES ASSUME DirInv, LinkInv, result = "built"
               PROVE  LET w == Walk(entries)
                      IN  /\ Cardinality(w.seen) = Len(entries) - 1
                          /\ Len(w.order) = Len(streams)
                          /\ ToSet(w.order) = ToSet(streams)
    BY DEF WalkFindsAll
  <2>1. PICK O \in Orders(tree), P \in Orders(tree) : entries = Linked(tree, O, P)
    BY DEF LinkInv
  <2> DEFINE w == Walk(entries)
             S == StreamsIn(tree, DOMAIN tree)
  <2>2. IsLinked(tree, O, P, Numbering(tree, O), entries)
    BY <2>1, TreeIs DEF IsLinked
  <2>3. /\ Cardinality(w.seen) = Len(entries) - 1
        /\ Len(w.order) = Cardinality(S) /\ ToSet(w.order) = S
    BY <2>2, WalkOfLinked
  <2> HIDE DEF w
  <2>4. Entered = 1 .. Len(streams) /\ Len(streams) \in Nat /\ streams \in Seq(Paths)
    BY DEF DirInv, TypeOK, Entered
  <2>5. S = ToSet(streams)
    BY <2>4 DEF ToSet, StreamsIn, DirInv, EnteredNodes, LeavesEntered
  <2>6. Cardinality(S) = Len(streams)
    <3>1. streams \in [1 .. Len(streams) -> S]
      <4>1. DOMAIN streams = 1 .. Len(streams) /\ streams = [i \in DOMAIN streams |-> streams[i]]
        BY <2>4
      <4>2. \A i \in DOMAIN streams : streams[i] \in S
        BY <2>5 DEF ToSet
      <4> HIDE DEF S
      <4> QED
        BY <4>1, <4>2
    <3>2. \A i, j \in 1 .. Len(streams) : streams[i] = streams[j] => i = j
      BY <2>4 DEF DirInv, LeavesEntered
    <3>3. \A x \in S : \E i \in 1 .. Len(streams) : streams[i] = x
      BY <2>4, <2>5 DEF ToSet
    <3> HIDE DEF S
    <3>4. streams \in Bijection(1 .. Len(streams), S)
      BY <3>1, <3>2, <3>3 DEF Bijection, Injection, IsInjective, Surjection
    <3> QED
      BY <2>4, <3>4, FS_CountingElements DEF ExistsBijection
  <2> QED
    BY <2>3, <2>5, <2>6 DEF w
<1> QED
  BY <1>1, DirInvariant, LinkInvariant, PTL

-----------------------------------------------------------------------------
(***************************************************************************)
(* The order of names.                                                     *)
(***************************************************************************)

\* Upcased code units are numbers.
LEMMA UnitsAre ==
  ASSUME NEW n \in Names
  PROVE  /\ Len(n) \in Nat /\ DOMAIN n = 1 .. Len(n)
         /\ \A k \in DOMAIN n : Upcase[n[k]] \in Nat
<1>1. n \in Seq(DOMAIN Upcase)
  BY CfbTreeAssumption DEF CfbTreeAssumption
<1>2. \A k \in DOMAIN n : n[k] \in DOMAIN Upcase
  BY <1>1
<1> QED
  BY <1>1, <1>2, CfbTreeAssumption DEF CfbTreeAssumption

\* No name is less than itself.
LEMMA LessIrreflexive == ASSUME NEW a \in Names PROVE ~nameLess(a, a)
BY UnitsAre DEF nameLess

\* Of two names that differ in more than case one is less than the other.
LEMMA LessTotal ==
  ASSUME NEW a \in Names, NEW b \in Names, ~SameName(a, b)
  PROVE  nameLess(a, b) \/ nameLess(b, a)
<1>1. /\ Len(a) \in Nat /\ DOMAIN a = 1 .. Len(a) /\ \A k \in DOMAIN a : Upcase[a[k]] \in Nat
      /\ Len(b) \in Nat /\ DOMAIN b = 1 .. Len(b) /\ \A k \in DOMAIN b : Upcase[b[k]] \in Nat
  BY UnitsAre
<1>2. CASE Len(a) # Len(b)
  <2> DEFINE la == Len(a)
             lb == Len(b)
  <2>1. la < lb \/ lb < la
    <3>1. la \in Nat /\ lb \in Nat /\ la # lb
      BY <1>1, <1>2
    <3> HIDE DEF la, lb
    <3> QED
      BY <3>1
  <2> QED
    BY <2>1 DEF nameLess
<1>3. CASE Len(a) = Len(b)
  <2> DEFINE D == {k \in 1 .. Len(a) : Upcase[a[k]] # Upcase[b[k]]}
  <2>1. D # {} /\ D \in SUBSET Nat
    BY <1>1, <1>3 DEF SameName
  <2> HIDE DEF D
  <2>2. PICK k \in D : \A j \in D : k <= j
    BY <2>1, LeastOf
  <2>3. k \in DOMAIN a /\ k \in DOMAIN b /\ Upcase[a[k]] # Upcase[b[k]] /\ k \in Nat
    BY <1>1, <1>3, <2>2 DEF D
  <2>4. \A j \in 1 .. k - 1 : Upcase[a[j]] = Upcase[b[j]]
    <3>1. \A j \in 1 .. k - 1 : j \in 1 .. Len(a) /\ ~(k <= j)
      BY <1>1, <2>3
    <3> QED
      BY <2>2, <3>1 DEF D
  <2>5. Upcase[a[k]] < Upcase[b[k]] \/ Upcase[b[k]] < Upcase[a[k]]
    BY <1>1, <2>3
  <2> QED
    BY <1>3, <2>3, <2>4, <2>5 DEF nameLess
<1> QED
  BY <1>2, <1>3

-----------------------------------------------------------------------------
(***************************************************************************)
(* The search for a name.                                                  *)
(***************************************************************************)

\* What a search makes of a call, and the body of search.
Steps(E) == 0 .. Len(E)

SearchTo(f, steps, idx) == f[[steps |-> steps, idx |-> idx]]

LookAt(E, order, name, f, steps, idx) ==
  LET e == E[idx + 1]
  IN  IF steps = 0 \/ ~IsEntry(E, idx) THEN -1
      ELSE IF << name, e.name >> \in order THEN SearchTo(f, steps - 1, e.left)
      ELSE IF << e.name, name >> \in order THEN SearchTo(f, steps - 1, e.right)
      ELSE idx

MadeFrom(E, order, name, f, g) ==
  f = [call \in [steps : Steps(E), idx : Int] |-> LookAt(E, order, name, g, call.steps, call.idx)]

IsSearch(E, order, name, f) == MadeFrom(E, order, name, f, f)

SearchOf(E, order, name) == CHOOSE f : IsSearch(E, order, name, f)

\* SearchFrom is a call of that search.
LEMMA SearchChosen ==
  ASSUME NEW E, NEW order, NEW link, NEW name
  PROVE  SearchFrom(E, order, link, name) = SearchTo(SearchOf(E, order, name), Len(E), link)
BY DEF SearchFrom, SearchTo, SearchOf, IsSearch, MadeFrom, LookAt, Steps

\* With few steps, f is what the recursion says.
SearchUpto(E, order, name, f, n) ==
  /\ f = [call \in [steps : Steps(E), idx : Int] |-> f[call]]
  /\ \A steps \in Steps(E), idx \in Int :
       steps < n => SearchTo(f, steps, idx) = LookAt(E, order, name, f, steps, idx)

\* One step depends only on the calls with fewer steps.
LEMMA LookAlike ==
  ASSUME NEW E, IsArray(E), Len(E) \in Nat, NEW order, NEW name, NEW f, NEW g,
         NEW steps \in Steps(E), NEW idx \in Int,
         \A s \in Steps(E), i \in Int : s < steps => SearchTo(f, s, i) = SearchTo(g, s, i)
  PROVE  LookAt(E, order, name, f, steps, idx) = LookAt(E, order, name, g, steps, idx)
<1>1. CASE steps = 0 \/ ~IsEntry(E, idx)
  BY <1>1 DEF LookAt
<1>2. CASE ~(steps = 0 \/ ~IsEntry(E, idx))
  <2> DEFINE e == E[idx + 1]
  <2>1. idx + 1 \in DOMAIN E
    BY <1>2 DEF IsEntry, Indexes, IsArray
  <2>2. e.left \in Int /\ e.right \in Int
    BY <2>1 DEF IsArray
  <2>3. steps - 1 \in Steps(E) /\ steps - 1 < steps
    BY <1>2 DEF Steps
  <2> HIDE DEF e
  <2>4. /\ SearchTo(f, steps - 1, e.left) = SearchTo(g, steps - 1, e.left)
        /\ SearchTo(f, steps - 1, e.right) = SearchTo(g, steps - 1, e.right)
    BY <2>2, <2>3
  <2> QED
    BY <2>4 DEF LookAt, e
<1> QED
  BY <1>1, <1>2

\* A function of the calls by what it makes of them.
LEMMA SearchMade ==
  ASSUME NEW E, NEW order, NEW name, NEW f, NEW g, NEW steps \in Steps(E), NEW idx \in Int,
         MadeFrom(E, order, name, f, g)
  PROVE  SearchTo(f, steps, idx) = LookAt(E, order, name, g, steps, idx)
<1> DEFINE call == [steps |-> steps, idx |-> idx]
           body(c) == LookAt(E, order, name, g, c.steps, c.idx)
           C == [steps : Steps(E), idx : Int]
<1>1. call \in C /\ call.steps = steps /\ call.idx = idx
  OBVIOUS
<1>2. f = [c \in C |-> body(c)]
  BY DEF MadeFrom
<1> HIDE DEF body, call, C
<1>3. f[call] = body(call)
  BY <1>1, <1>2
<1> QED
  BY <1>1, <1>3 DEF SearchTo, body, call

\* The recursion of search is well-founded.
LEMMA SearchExists ==
  ASSUME NEW E, IsArray(E), Len(E) \in Nat, NEW order, NEW name
  PROVE  \A n \in Nat : \E f : SearchUpto(E, order, name, f, n)
<1> DEFINE C == [steps : Steps(E), idx : Int]
           T == {n \in Nat : \E f : SearchUpto(E, order, name, f, n)}
<1>1. 0 \in T
  <2> DEFINE f == [call \in C |-> 0]
  <2>1. f = [call \in C |-> f[call]]
    OBVIOUS
  <2>2. \A steps \in Steps(E) : ~(steps < 0)
    BY DEF Steps
  <2> HIDE DEF f
  <2>3. SearchUpto(E, order, name, f, 0)
    BY <2>1, <2>2 DEF SearchUpto
  <2> QED
    BY <2>3
<1>2. ASSUME NEW n \in Nat, n \in T
      PROVE  n + 1 \in T
  <2>1. PICK f : SearchUpto(E, order, name, f, n)
    BY <1>2
  <2> DEFINE body(call) == LookAt(E, order, name, f, call.steps, call.idx)
             more == [call \in C |-> body(call)]
  <2>2. MadeFrom(E, order, name, more, f)
    BY DEF MadeFrom
  <2>3. more = [call \in C |-> more[call]]
    <3> HIDE DEF body
    <3> QED
      OBVIOUS
  <2> HIDE DEF more
  <2>4. \A steps \in Steps(E), idx \in Int :
          SearchTo(more, steps, idx) = LookAt(E, order, name, f, steps, idx)
    BY <2>2, SearchMade
  <2>5. ASSUME NEW steps \in Steps(E), NEW idx \in Int, steps < n + 1
        PROVE  SearchTo(more, steps, idx) = LookAt(E, order, name, more, steps, idx)
    <3>1. ASSUME NEW s \in Steps(E), NEW i \in Int, s < steps
          PROVE  SearchTo(more, s, i) = SearchTo(f, s, i)
      <4>1. s < n
        BY <2>5, <3>1 DEF Steps
      <4>2. SearchTo(f, s, i) = LookAt(E, order, name, f, s, i)
        BY <2>1, <4>1 DEF SearchUpto
      <4> QED
        BY <2>4, <4>2
    <3>2. LookAt(E, order, name, more, steps, idx) = LookAt(E, order, name, f, steps, idx)
      BY <3>1, LookAlike
    <3> QED
      BY <2>4, <3>2
  <2>6. SearchUpto(E, order, name, more, n + 1)
    BY <2>3, <2>5 DEF SearchUpto
  <2> QED
    BY <2>6
<1> HIDE DEF T
<1>3. \A n \in Nat : n \in T
  BY <1>1, <1>2, AllNumbers
<1> QED
  BY <1>3 DEF T

\* So the search makes of every call what its recursion says.
LEMMA SearchLooks ==
  ASSUME NEW E, IsArray(E), Len(E) \in Nat, NEW order, NEW name, NEW steps \in Steps(E), NEW idx \in Int
  PROVE  SearchTo(SearchOf(E, order, name), steps, idx)
         = LookAt(E, order, name, SearchOf(E, order, name), steps, idx)
<1> DEFINE C == [steps : Steps(E), idx : Int]
<1>1. PICK f : SearchUpto(E, order, name, f, Len(E) + 1)
  <2>1. Len(E) + 1 \in Nat
    OBVIOUS
  <2> QED
    BY <2>1, SearchExists
<1>2. IsSearch(E, order, name, f)
  <2> DEFINE body(call) == LookAt(E, order, name, f, call.steps, call.idx)
  <2>1. ASSUME NEW call \in C
        PROVE  f[call] = body(call)
    <3>1. /\ call = [steps |-> call.steps, idx |-> call.idx]
          /\ call.steps \in Steps(E) /\ call.idx \in Int /\ call.steps < Len(E) + 1
      BY DEF Steps
    <3>2. SearchTo(f, call.steps, call.idx) = body(call)
      BY <1>1, <3>1 DEF SearchUpto
    <3>3. SearchTo(f, call.steps, call.idx) = f[call]
      BY <3>1 DEF SearchTo
    <3> QED
      BY <3>2, <3>3
  <2>2. f = [call \in C |-> f[call]]
    BY <1>1 DEF SearchUpto
  <2> HIDE DEF body
  <2>3. f = [call \in C |-> body(call)]
    BY <2>1, <2>2
  <2> QED
    BY <2>3 DEF body, IsSearch, MadeFrom
<1>3. IsSearch(E, order, name, SearchOf(E, order, name))
  BY <1>2 DEF SearchOf
<1> QED
  BY <1>3, SearchMade DEF IsSearch

-----------------------------------------------------------------------------
(***************************************************************************)
(* What a search by name finds.                                            *)
(***************************************************************************)

NameOrder == {o \in Names \X Names : nameLess(o[1], o[2])}

\* No two siblings differ in case only.
NoTwins(t) == \A p, q \in DOMAIN t : p # q /\ Parent(p) = Parent(q) => ~SameName(Name(p), Name(q))

\* Then the children of a node stand in the order of their names.
LEMMA KidsInOrder ==
  ASSUME NEW t, IsTree(t), NoTwins(t), NEW P \in Orders(t), NEW u \in Nodes(t),
         NEW i \in DOMAIN P[u], NEW j \in DOMAIN P[u], i < j
  PROVE  /\ << Name(P[u][i]), Name(P[u][j]) >> \in NameOrder
         /\ << Name(P[u][j]), Name(P[u][i]) >> \notin NameOrder
<1> DEFINE a == P[u][i]
           b == P[u][j]
<1>1. a \in Children(t, u) /\ b \in Children(t, u) /\ i \in Nat /\ j \in Nat
  BY KidIs, KidCount
<1>2. a \in DOMAIN t /\ b \in DOMAIN t /\ Parent(a) = u /\ Parent(b) = u
  BY <1>1, ChildExtends
<1>3. a # b
  <2>1. i # j
    BY <1>1
  <2> QED
    BY <2>1, KidsAre DEF Enumerates
<1>4. ~nameLess(Name(b), Name(a))
  <2>1. P[u] \in Sortings(Children(t, u))
    BY OrdersAre
  <2> QED
    BY <2>1 DEF Sortings
<1>5. Name(a) \in Names /\ Name(b) \in Names
  BY <1>2, ParentHas
<1> HIDE DEF a, b
<1>6. ~SameName(Name(a), Name(b))
  BY <1>2, <1>3 DEF NoTwins
<1>7. nameLess(Name(a), Name(b))
  BY <1>4, <1>5, <1>6, LessTotal
<1> QED
  BY <1>4, <1>5, <1>7 DEF NameOrder, a, b

\* The search for the j-th of the kids, from the root of a part it lies in.
PartSearched(P, all, E, u, lo, hi) ==
  \A j \in lo .. hi, steps \in Steps(E) :
    LET name == Name(P[u][j])
    IN  hi - lo < steps =>
          SearchTo(SearchOf(E, NameOrder, name), steps, PartRoot(all, P[u], lo, hi)) = Id(all, P[u][j])

\* A part is searched well when the two parts beside its middle are.
LEMMA MiddleSearched ==
  ASSUME NEW t, NEW O, NEW P, NEW all, NEW E, IsLinked(t, O, P, all, E), NoTwins(t),
         Len(E) \in Nat, NEW u \in Nodes(t),
         NEW lo \in Nat \ {0}, NEW hi \in Nat, lo <= hi, hi <= Len(P[u]),
         Reached(all, P[u], lo, hi),
         PartSearched(P, all, E, u, lo, Mid(lo, hi) - 1),
         PartSearched(P, all, E, u, Mid(lo, hi) + 1, hi)
  PROVE  PartSearched(P, all, E, u, lo, hi)
<1> DEFINE K == P[u]
           m == Mid(lo, hi)
           v == K[m]
           idx == Id(all, v)
           e == E[idx + 1]
<1>1. IsTree(t) /\ P \in Orders(t) /\ IsArray(E)
  BY LinkedIsArray DEF IsLinked
<1>2. Len(K) \in Nat /\ DOMAIN K = 1 .. Len(K)
  BY <1>1, KidCount
<1>3. /\ m \in lo .. hi
      /\ Siblings(all, K, m) = [left  |-> PartRoot(all, K, lo, m - 1),
                                right |-> PartRoot(all, K, m + 1, hi)]
  BY <1>2, Halved
<1>4. m \in DOMAIN K
  BY <1>2, <1>3
<1>5. v \in Nodes(t) /\ v # Root
  BY <1>1, <1>4, KidIs, ChildExtends DEF IsTree
<1>6. /\ e.left = PartRoot(all, K, lo, m - 1) /\ e.right = PartRoot(all, K, m + 1, hi)
      /\ e.name = Name(v)
  <2>1. e.left = Siblings(all, K, m).left /\ e.right = Siblings(all, K, m).right
    BY <1>4, EntrySays
  <2>2. e.name = Name(v)
    BY <1>5, EntrySays
  <2> HIDE DEF e
  <2> QED
    BY <1>3, <2>1, <2>2
<1>7. IsEntry(E, idx) /\ idx \in Int
  BY <1>5, EntryAt
<1>8. PartRoot(all, K, lo, hi) = idx
  BY DEF PartRoot
<1>9. PartSearched(P, all, E, u, lo, m - 1) /\ PartSearched(P, all, E, u, m + 1, hi)
  OBVIOUS
<1> SUFFICES ASSUME NEW j \in lo .. hi, NEW steps \in Steps(E), hi - lo < steps
             PROVE  SearchTo(SearchOf(E, NameOrder, Name(K[j])), steps, idx) = Id(all, K[j])
  BY <1>8 DEF PartSearched
<1> HIDE DEF m
<1> DEFINE name == Name(K[j])
           f == SearchOf(E, NameOrder, name)
<1>10. SearchTo(f, steps, idx) = LookAt(E, NameOrder, name, f, steps, idx)
  BY <1>1, <1>7, SearchLooks
<1>11. steps # 0 /\ steps - 1 \in Steps(E) /\ j \in DOMAIN K
  BY <1>2 DEF Steps
<1> HIDE DEF f, e, idx
<1>12. LookAt(E, NameOrder, name, f, steps, idx)
       = IF << name, e.name >> \in NameOrder THEN SearchTo(f, steps - 1, e.left)
         ELSE IF << e.name, name >> \in NameOrder THEN SearchTo(f, steps - 1, e.right)
         ELSE idx
  BY <1>7, <1>11 DEF LookAt, e
<1>13. CASE j < m
  <2>0. j < m
    BY <1>13
  <2>1. << name, e.name >> \in NameOrder
    <3>1. << Name(K[j]), Name(K[m]) >> \in NameOrder
      BY <1>1, <1>4, <1>11, <2>0, KidsInOrder
    <3> QED
      BY <1>6, <3>1
  <2>2. j \in lo .. m - 1 /\ m - 1 - lo < steps - 1
    BY <1>3, <1>13 DEF Steps
  <2>3. SearchTo(f, steps - 1, e.left) = Id(all, K[j])
    BY <1>6, <1>9, <1>11, <2>2 DEF PartSearched, f
  <2> QED
    BY <1>10, <1>12, <2>1, <2>3 DEF f
<1>14. CASE j > m
  <2>0. m < j
    BY <1>3, <1>14
  <2>1. << e.name, name >> \in NameOrder /\ << name, e.name >> \notin NameOrder
    BY <1>1, <1>4, <1>6, <1>11, <2>0, KidsInOrder
  <2>2. j \in m + 1 .. hi /\ hi - (m + 1) < steps - 1
    BY <1>3, <1>14 DEF Steps
  <2>3. SearchTo(f, steps - 1, e.right) = Id(all, K[j])
    BY <1>6, <1>9, <1>11, <2>2 DEF PartSearched, f
  <2> QED
    BY <1>10, <1>12, <2>1, <2>3 DEF f
<1>15. CASE j = m
  <2>1. name = e.name /\ name \in Names
    <3>1. v \in DOMAIN t
      BY <1>5 DEF Nodes
    <3> QED
      BY <1>1, <1>6, <1>15, <3>1, ParentHas
  <2>2. << name, name >> \notin NameOrder
    BY <2>1, LessIrreflexive DEF NameOrder
  <2>3. Id(all, K[j]) = idx
    BY <1>15 DEF idx
  <2> QED
    BY <1>10, <1>12, <2>1, <2>2, <2>3 DEF f
<1> QED
  BY <1>3, <1>13, <1>14, <1>15

\* So is the whole array of children.
LEMMA PartsSearched ==
  ASSUME NEW t, NEW O, NEW P, NEW all, NEW E, IsLinked(t, O, P, all, E), NoTwins(t),
         Len(E) \in Nat, NEW u \in Nodes(t)
  PROVE  PartSearched(P, all, E, u, 1, Len(P[u]))
<1> DEFINE n == Len(P[u])
           T == {d \in Nat : \A lo \in Nat \ {0}, hi \in Nat :
                   /\ hi - lo < d /\ hi <= n /\ Reached(all, P[u], lo, hi)
                   => PartSearched(P, all, E, u, lo, hi)}
<1>1. n \in Nat
  BY KidCount DEF IsLinked
<1>2. ASSUME NEW lo \in Int, NEW hi \in Int, lo > hi
      PROVE  PartSearched(P, all, E, u, lo, hi)
  <2>1. lo .. hi = {}
    BY <1>2
  <2> QED
    BY <2>1 DEF PartSearched
<1>3. 0 \in T
  BY <1>2
<1>4. ASSUME NEW d \in Nat, d \in T
      PROVE  d + 1 \in T
  <2> SUFFICES ASSUME NEW lo \in Nat \ {0}, NEW hi \in Nat, hi - lo < d + 1, hi <= n,
                      Reached(all, P[u], lo, hi)
               PROVE  PartSearched(P, all, E, u, lo, hi)
    OBVIOUS
  <2>1. CASE lo > hi
    BY <1>2, <2>1
  <2>2. CASE lo <= hi
    <3> DEFINE m == Mid(lo, hi)
    <3>1. m \in lo .. hi /\ Reached(all, P[u], lo, m - 1) /\ Reached(all, P[u], m + 1, hi)
      BY <1>1, <2>2, Halved
    <3> HIDE DEF m
    <3>2. m - 1 \in Nat /\ m - 1 - lo < d /\ m - 1 <= n /\ m + 1 \in Nat \ {0} /\ hi - (m + 1) < d
      BY <1>1, <3>1
    <3>3. PartSearched(P, all, E, u, lo, m - 1) /\ PartSearched(P, all, E, u, m + 1, hi)
      BY <1>4, <3>1, <3>2
    <3> HIDE DEF T
    <3> QED
      BY <2>2, <3>3, MiddleSearched DEF m
  <2> QED
    BY <2>1, <2>2
<1> HIDE DEF T
<1>5. \A d \in Nat : d \in T
  BY <1>3, <1>4, AllNumbers
<1>6. n \in T /\ n - 1 < n /\ n <= n /\ 1 \in Nat \ {0} /\ Reached(all, P[u], 1, n)
  BY <1>1, <1>5, ReachedAll
<1> HIDE DEF n
<1>7. PartSearched(P, all, E, u, 1, n)
  BY <1>1, <1>6 DEF T
<1> QED
  BY <1>7 DEF n

-----------------------------------------------------------------------------
(***************************************************************************)
(* The search for a path.                                                  *)
(***************************************************************************)

\* There is one entry for every node, so no array of children is longer than
\* the array of entries.
LEMMA EntryCount ==
  ASSUME NEW t, NEW O, NEW P, NEW all, NEW E, IsLinked(t, O, P, all, E), NEW u \in Nodes(t)
  PROVE  Len(E) \in Nat /\ Len(P[u]) <= Len(E)
<1>1. IsTree(t) /\ P \in Orders(t) /\ Enumerates(all, Nodes(t))
  BY EntryAt DEF IsLinked
<1>2. all \in Seq(Nodes(t)) /\ Len(all) \in Nat /\ DOMAIN all = 1 .. Len(all)
  BY <1>1 DEF Enumerates
<1>3. Len(E) = Len(all)
  <2>1. E = [i \in DOMAIN all |-> Entry(t, all, P, all[i])]
    BY DEF IsLinked, Linked
  <2>2. DOMAIN E = 1 .. Len(all) /\ E = [i \in 1 .. Len(all) |-> E[i]]
    BY <1>2, <2>1
  <2> QED
    BY <1>2, <2>2
<1>4. IsFiniteSet(Nodes(t))
  BY <1>1, FS_Singleton, FS_Union DEF IsTree, Nodes
<1>5. Cardinality(Nodes(t)) = Len(all)
  <2> DEFINE S == Nodes(t)
             n == Len(all)
  <2>1. all \in [1 .. n -> S]
    BY <1>2
  <2>2. /\ \A x \in S : \E i \in 1 .. n : all[i] = x
        /\ \A i, j \in 1 .. n : all[i] = all[j] => i = j
    BY <1>1, <1>2 DEF Enumerates
  <2>3. n \in Nat
    BY <1>2
  <2> HIDE DEF S, n
  <2>4. all \in Bijection(1 .. n, S)
    BY <2>1, <2>2 DEF Bijection, Injection, IsInjective, Surjection
  <2>5. Cardinality(S) = n
    BY <2>3, <2>4, FS_CountingElements DEF ExistsBijection
  <2> QED
    BY <2>5 DEF S, n
<1>6. Children(t, u) \subseteq Nodes(t)
  BY DEF Children, Nodes
<1>7. Cardinality(Children(t, u)) <= Cardinality(Nodes(t)) /\ IsFiniteSet(Children(t, u))
  BY <1>4, <1>6, FS_Subset
<1>8. Len(P[u]) = Cardinality(Children(t, u))
  <2>1. P[u] \in Sortings(Children(t, u))
    BY <1>1, OrdersAre
  <2> QED
    BY <1>7, <2>1, SortingEnumerates
<1> QED
  BY <1>2, <1>3, <1>5, <1>7, <1>8

\* The search among the children of a node finds the child of a name.
LEMMA ChildFound ==
  ASSUME NEW t, NEW O, NEW P, NEW all, NEW E, IsLinked(t, O, P, all, E), NoTwins(t),
         NEW q \in DOMAIN t
  PROVE  SearchFrom(E, NameOrder, E[Id(all, Parent(q)) + 1].child, Name(q)) = Id(all, q)
<1> DEFINE u == Parent(q)
           n == Len(P[u])
<1>1. IsTree(t) /\ P \in Orders(t)
  BY DEF IsLinked
<1>2. u \in Nodes(t) /\ q \in Children(t, u)
  BY <1>1, ParentHas
<1>3. PICK j \in DOMAIN P[u] : P[u][j] = q
  BY <1>1, <1>2, KidsAre DEF Enumerates
<1>4. n \in Nat /\ j \in 1 .. n
  BY <1>1, <1>2, <1>3, KidCount
<1>5. Len(E) \in Nat /\ n <= Len(E)
  BY <1>2, EntryCount
<1>6. E[Id(all, u) + 1].child = PartRoot(all, P[u], 1, n)
  BY <1>2, EntrySays
<1>7. PartSearched(P, all, E, u, 1, n)
  BY <1>2, <1>5, PartsSearched
<1>8. Len(E) \in Steps(E) /\ n - 1 < Len(E)
  <2> HIDE DEF n
  <2> QED
    BY <1>4, <1>5 DEF Steps
<1> DEFINE f == SearchOf(E, NameOrder, Name(q))
<1>9. SearchTo(f, Len(E), PartRoot(all, P[u], 1, n)) = Id(all, q)
  BY <1>3, <1>4, <1>7, <1>8 DEF PartSearched
<1> HIDE DEF u, n, f
<1>10. SearchFrom(E, NameOrder, E[Id(all, u) + 1].child, Name(q)) = Id(all, q)
  BY <1>6, <1>9, SearchChosen DEF f
<1> QED
  BY <1>10 DEF u

\* One step of Find, and what Find is when its recursion has a solution.
HitAt(E, order, p, h, k) ==
  IF k = 0 THEN 0
  ELSE IF h[k - 1] = -1 THEN -1
  ELSE SearchFrom(E, order, E[h[k - 1] + 1].child, p[k])

IsHit(E, order, p, h) == h = [k \in 0 .. Len(p) |-> HitAt(E, order, p, h, k)]

\* Find is the last of the hits.
LEMMA FindChosen ==
  ASSUME NEW E, NEW order, NEW p
  PROVE  Find(E, order, p) = (CHOOSE h : IsHit(E, order, p, h))[Len(p)]
BY DEF Find, IsHit, HitAt

HitUpto(E, order, p, h, n) ==
  /\ h = [k \in 0 .. Len(p) |-> h[k]]
  /\ \A k \in 0 .. Len(p) : k < n => h[k] = HitAt(E, order, p, h, k)

\* That recursion is well-founded.
LEMMA HitExists ==
  ASSUME NEW E, NEW order, NEW p, Len(p) \in Nat
  PROVE  \E h : IsHit(E, order, p, h)
<1> DEFINE D == 0 .. Len(p)
           T == {n \in Nat : \E h : HitUpto(E, order, p, h, n)}
<1>1. 0 \in T
  <2> DEFINE h == [k \in D |-> 0]
  <2>1. h = [k \in D |-> h[k]] /\ \A k \in D : ~(k < 0)
    OBVIOUS
  <2> HIDE DEF h
  <2>2. HitUpto(E, order, p, h, 0)
    BY <2>1 DEF HitUpto
  <2> QED
    BY <2>2
<1>2. ASSUME NEW n \in Nat, n \in T
      PROVE  n + 1 \in T
  <2>1. PICK h : HitUpto(E, order, p, h, n)
    BY <1>2
  <2> DEFINE body(k) == HitAt(E, order, p, h, k)
             more == [k \in D |-> body(k)]
  <2>2. more = [k \in D |-> more[k]] /\ \A k \in D : more[k] = body(k)
    <3> HIDE DEF body
    <3> QED
      OBVIOUS
  <2> HIDE DEF more
  <2>3. ASSUME NEW k \in D, k < n + 1
        PROVE  more[k] = HitAt(E, order, p, more, k)
    <3>1. CASE k = 0
      BY <2>2, <3>1 DEF HitAt
    <3>2. CASE k # 0
      <4>1. k - 1 \in D /\ k - 1 < n
        BY <2>3, <3>2
      <4>2. more[k - 1] = h[k - 1]
        BY <2>1, <2>2, <4>1 DEF HitUpto
      <4> QED
        BY <2>2, <4>2 DEF HitAt
    <3> QED
      BY <3>1, <3>2
  <2>4. HitUpto(E, order, p, more, n + 1)
    BY <2>2, <2>3 DEF HitUpto
  <2> QED
    BY <2>4
<1> HIDE DEF T
<1>3. \A n \in Nat : n \in T
  BY <1>1, <1>2, AllNumbers
<1>4. PICK h : HitUpto(E, order, p, h, Len(p) + 1)
  <2>1. Len(p) + 1 \in Nat
    OBVIOUS
  <2> QED
    BY <1>3, <2>1 DEF T
<1> DEFINE body(k) == HitAt(E, order, p, h, k)
<1>5. \A k \in D : h[k] = body(k)
  BY <1>4 DEF HitUpto
<1>6. h = [k \in D |-> h[k]]
  BY <1>4 DEF HitUpto
<1> HIDE DEF body
<1>7. h = [k \in D |-> body(k)]
  BY <1>5, <1>6
<1> QED
  BY <1>7 DEF body, IsHit

\* A path is found at the id of its node.
LEMMA PathFound ==
  ASSUME NEW t, NEW O, NEW P, NEW all, NEW E, IsLinked(t, O, P, all, E), NoTwins(t),
         NEW p \in DOMAIN t
  PROVE  Find(E, NameOrder, p) = Id(all, p)
<1>1. IsTree(t) /\ p \in Seq(Names) /\ Len(p) \in Nat /\ p \in Nodes(t) /\ Len(p) >= 1
  <2>1. IsTree(t) /\ p \in Nodes(t)
    BY DEF IsLinked, Nodes
  <2> QED
    BY <2>1, NodeIsSeq, ParentHas
<1> DEFINE h == CHOOSE g : IsHit(E, NameOrder, p, g)
           T == {k \in Nat : k \in 1 .. Len(p) => h[k] = Id(all, SubSeq(p, 1, k))}
<1>2. IsHit(E, NameOrder, p, h)
  BY <1>1, HitExists
<1> HIDE DEF h
<1>3. \A k \in 0 .. Len(p) : h[k] = HitAt(E, NameOrder, p, h, k)
  <2> DEFINE body(k) == HitAt(E, NameOrder, p, h, k)
  <2>1. h = [k \in 0 .. Len(p) |-> body(k)]
    BY <1>2 DEF IsHit
  <2> HIDE DEF body
  <2>2. \A k \in 0 .. Len(p) : h[k] = body(k)
    BY <2>1
  <2> QED
    BY <2>2 DEF body
<1>4. h[0] = Id(all, Root)
  <2>1. 0 \in 0 .. Len(p) /\ Id(all, Root) = 0
    BY <1>1, EntryAt
  <2> QED
    BY <1>3, <2>1 DEF HitAt
<1>5. 0 \in T
  OBVIOUS
<1>6. ASSUME NEW k \in Nat, k \in T
      PROVE  k + 1 \in T
  <2> SUFFICES ASSUME k + 1 \in 1 .. Len(p)
               PROVE  h[k + 1] = Id(all, SubSeq(p, 1, k + 1))
    OBVIOUS
  <2> DEFINE q == SubSeq(p, 1, k + 1)
  <2>1. q \in DOMAIN t /\ Len(q) = k + 1 /\ \A i \in 1 .. k + 1 : q[i] = p[i]
    BY <1>1, PrefixInTree
  <2>2. Name(q) = p[k + 1]
    <3> HIDE DEF q
    <3> QED
      BY <2>1 DEF Name, Last
  <2>3. h[k] = Id(all, Parent(q))
    <3>1. Parent(q) = SubSeq(p, 1, k)
      <4>1. \A i \in 1 .. k : p[i] \in Names /\ q[i] \in Names /\ q[i] = p[i]
        BY <1>1, <2>1
      <4>2. /\ SubSeq(p, 1, k) \in Seq(Names) /\ Len(SubSeq(p, 1, k)) = k
            /\ \A i \in 1 .. k : SubSeq(p, 1, k)[i] = p[i]
        <5>1. /\ SubSeq(p, 1, k) \in Seq(Names) /\ Len(SubSeq(p, 1, k)) = IF 1 <= k THEN k - 1 + 1 ELSE 0
              /\ \A i \in 1 .. k - 1 + 1 : SubSeq(p, 1, k)[i] = p[1 + i - 1]
          BY <4>1, SubSeqProperties
        <5> QED
          BY <5>1
      <4>3. /\ SubSeq(q, 1, k) \in Seq(Names) /\ Len(SubSeq(q, 1, k)) = k
            /\ \A i \in 1 .. k : SubSeq(q, 1, k)[i] = q[i]
        <5> HIDE DEF q
        <5>1. /\ SubSeq(q, 1, k) \in Seq(Names) /\ Len(SubSeq(q, 1, k)) = IF 1 <= k THEN k - 1 + 1 ELSE 0
              /\ \A i \in 1 .. k - 1 + 1 : SubSeq(q, 1, k)[i] = q[1 + i - 1]
          BY <4>1, SubSeqProperties
        <5> QED
          BY <5>1
      <4>4. Parent(q) = SubSeq(q, 1, k)
        <5> HIDE DEF q
        <5>1. Len(q) - 1 = k
          BY <2>1
        <5> QED
          BY <5>1 DEF Parent
      <4> QED
        BY <4>1, <4>2, <4>3, <4>4, SeqEqual
    <3>2. CASE k = 0
      <4>1. Parent(q) = Root
        <5>1. SubSeq(p, 1, 0) = << >>
          BY <1>1
        <5> QED
          BY <3>1, <3>2, <5>1 DEF Root
      <4> QED
        BY <1>4, <3>2, <4>1
    <3>3. CASE k # 0
      <4>1. k \in 1 .. Len(p)
        BY <1>1, <3>3
      <4> QED
        BY <1>6, <3>1, <4>1
    <3> QED
      BY <3>2, <3>3
  <2>4. Id(all, Parent(q)) # -1
    BY <1>1, <2>1, ParentHas, EntryAt
  <2>5. h[k + 1] = SearchFrom(E, NameOrder, E[h[k] + 1].child, p[k + 1])
    <3>1. k + 1 \in 0 .. Len(p) /\ k + 1 # 0 /\ (k + 1) - 1 = k
      OBVIOUS
    <3> QED
      BY <1>3, <2>3, <2>4, <3>1 DEF HitAt
  <2> HIDE DEF q
  <2>6. SearchFrom(E, NameOrder, E[Id(all, Parent(q)) + 1].child, Name(q)) = Id(all, q)
    BY <2>1, ChildFound
  <2> QED
    BY <2>2, <2>3, <2>5, <2>6 DEF q
<1> HIDE DEF T
<1>7. \A k \in Nat : k \in T
  BY <1>5, <1>6, AllNumbers
<1>8. h[Len(p)] = Id(all, SubSeq(p, 1, Len(p)))
  BY <1>1, <1>7 DEF T
<1>9. SubSeq(p, 1, Len(p)) = p
  BY <1>1, SubSeqFull
<1> QED
  BY <1>8, <1>9, FindChosen DEF h

\* A reader that searches the directory of Writer.Bytes by name finds under
\* every path the entry of its own kind, and never one entry under two paths,
\* when no two siblings differ in case only, in whatever orders assign and
\* link saw the children.
THEOREM SearchFindsAllHolds == Spec => []SearchFindsAll
<1>1. DirInv /\ LinkInv => SearchFindsAll
  <2> SUFFICES ASSUME DirInv, LinkInv, result = "built", ~CaseTwins
               PROVE  LET order == {o \in Names \X Names : nameLess(o[1], o[2])}
                          found == [p \in DOMAIN tree |-> Find(entries, order, p)]
                      IN  /\ \A p \in DOMAIN tree : /\ IsEntry(entries, found[p])
                                                   /\ entries[found[p] + 1].name = Name(p)
                                                   /\ entries[found[p] + 1].type = tree[p]
                          /\ \A p, q \in DOMAIN tree : found[p] = found[q] => p = q
    BY DEF SearchFindsAll
  <2>1. PICK O \in Orders(tree), P \in Orders(tree) : entries = Linked(tree, O, P)
    BY DEF LinkInv
  <2> DEFINE all == Numbering(tree, O)
             found == [p \in DOMAIN tree |-> Find(entries, NameOrder, p)]
  <2>2. IsLinked(tree, O, P, all, entries)
    BY <2>1, TreeIs DEF IsLinked
  <2>3. NoTwins(tree)
    BY DEF CaseTwins, Siblings2, NoTwins, Parent
  <2> HIDE DEF all
  <2>4. \A p \in DOMAIN tree : Find(entries, NameOrder, p) = Id(all, p)
    BY <2>2, <2>3, PathFound
  <2>5. ASSUME NEW p \in DOMAIN tree
        PROVE  p \in Nodes(tree) /\ p # Root
    BY TreeIs DEF IsTree, Nodes
  <2>6. ASSUME NEW p \in DOMAIN tree
        PROVE  /\ IsEntry(entries, Id(all, p))
               /\ entries[Id(all, p) + 1].name = Name(p)
               /\ entries[Id(all, p) + 1].type = tree[p]
    BY <2>2, <2>5, EntryAt, EntrySays
  <2>7. \A p, q \in DOMAIN tree : Id(all, p) = Id(all, q) => p = q
    BY <2>2, <2>5, EntryAt
  <2>8. \A p \in DOMAIN tree : found[p] = Id(all, p)
    BY <2>4
  <2> HIDE DEF found
  <2>9. /\ \A p \in DOMAIN tree : /\ IsEntry(entries, found[p])
                                 /\ entries[found[p] + 1].name = Name(p)
                                 /\ entries[found[p] + 1].type = tree[p]
        /\ \A p, q \in DOMAIN tree : found[p] = found[q] => p = q
    BY <2>6, <2>7, <2>8
  <2> QED
    BY <2>9 DEF found, NameOrder
<1> QED
  BY <1>1, DirInvariant, LinkInvariant, PTL
=============================================================================
