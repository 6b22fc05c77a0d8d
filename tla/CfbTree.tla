------------------------------ MODULE CfbTree ------------------------------
(***************************************************************************)
(* The directory of a compound file as Writer.buildTree computes it: the   *)
(* tree of storages and streams under the root, its entries in an array    *)
(* and the sibling trees that link them (buildTree, sortedChildren,        *)
(* buildBST and nameLess in src/cfb/writer.go).                            *)
(*                                                                         *)
(* A name is a sequence of UTF-16 code units.  A node of the tree is its   *)
(* path; Root is the empty path.                                           *)
(***************************************************************************)
EXTENDS CfbPaths, FiniteSetsExt

CONSTANTS
  Names,      \* names that occur as path segments
  Upcase,     \* unicode.ToUpper on code units
  MaxName     \* code units that fit the name field: 31 in the code

ASSUME CfbTreeAssumption ==
  /\ MaxName \in Nat
  /\ \A n \in Names : n \in Seq(DOMAIN Upcase)
  /\ \A unit \in DOMAIN Upcase : Upcase[unit] \in Nat

Root == << >>
NoStream == -1    \* 0xFFFFFFFF
TooLong == {n \in Names : Len(n) > MaxName}

-----------------------------------------------------------------------------
(***************************************************************************)
(* Name order: the shorter name first, then code unit by code unit,        *)
(* upcased.                                                                *)
(***************************************************************************)

SameName(a, b) == Len(a) = Len(b) /\ \A k \in DOMAIN a : Upcase[a[k]] = Upcase[b[k]]

nameLess(a, b) ==
  \/ Len(a) < Len(b)
  \/ /\ Len(a) = Len(b)
     /\ \E k \in DOMAIN a :
          /\ Upcase[a[k]] < Upcase[b[k]]
          /\ \A j \in 1 .. k - 1 : Upcase[a[j]] = Upcase[b[j]]

Name(node) == Last(node)
Children(t, node) == {q \in DOMAIN t : Len(q) = Len(node) + 1 /\ IsPrefix(node, q)}

\* Mutant of Sortings: the order of the Go map.
MapOrders(S) == {s \in [1 .. Cardinality(S) -> S] : ToSet(s) = S}

\* sortedChildren may return any of these: sort.Slice is not stable, and it
\* starts from the arbitrary order of a Go map.
Sortings(S) ==
  {s \in [1 .. Cardinality(S) -> S] :
     /\ ToSet(s) = S
     /\ \A i, j \in DOMAIN s : i < j => ~nameLess(Name(s[j]), Name(s[i]))}

-----------------------------------------------------------------------------
(***************************************************************************)
(* buildTree, registration by registration.                                *)
(***************************************************************************)

StoragesOf(path) == {SubSeq(path, 1, k) : k \in 1 .. Len(path) - 1}

\* Mutant of Fits: a stream in the way of a storage goes unnoticed.
FitsAsLeaf(t, path) == ~BadPath(path, TooLong) /\ path \notin DOMAIN t

Fits(t, path) ==
  /\ ~BadPath(path, TooLong)
  /\ \A q \in StoragesOf(path) : q \in DOMAIN t => t[q] = "storage"
  /\ path \notin DOMAIN t

Inserted(t, path) ==
  [q \in DOMAIN t \cup StoragesOf(path) \cup {path} |->
     IF q \in DOMAIN t THEN t[q] ELSE IF q = path THEN "stream" ELSE "storage"]

\* assign: the children of a node get consecutive ids, then each child's own.
\* kids[n] is the array sortedChildren(n) returned to assign.
Numbering(t, kids) ==
  LET below[node \in {Root} \cup DOMAIN t] ==
        kids[node] \o FlattenSeq([k \in DOMAIN kids[node] |-> below[kids[node][k]]])
  IN  << Root >> \o below[Root]

\* Mutant of Id: the ids count from 1.
IdFromOne(all, node) == CHOOSE i \in DOMAIN all : all[i] = node

Id(all, node) == (CHOOSE i \in DOMAIN all : all[i] = node) - 1

\* Mutant of Mid: the first of the kids becomes the root.
MidFirst(lo, hi) == lo

\* buildBST on kids[lo .. hi]: the element in the middle becomes the root.
Mid(lo, hi) == lo + (hi - lo + 1) \div 2

\* What a link to the tree of kids[lo .. hi] holds.
PartRoot(all, kids, lo, hi) == IF lo > hi THEN NoStream ELSE Id(all, kids[Mid(lo, hi)])

\* The links of the k-th of the kids, found by halving from kids[lo .. hi].
Siblings(all, kids, k) ==
  LET find[part \in [lo : 1 .. k, hi : k .. Len(kids)]] ==
        LET m == Mid(part.lo, part.hi)
        IN  IF k < m THEN find[[lo |-> part.lo, hi |-> m - 1]]
            ELSE IF k > m THEN find[[lo |-> m + 1, hi |-> part.hi]]
            ELSE [left  |-> PartRoot(all, kids, part.lo, m - 1),
                  right |-> PartRoot(all, kids, m + 1, part.hi)]
  IN  find[[lo |-> 1, hi |-> Len(kids)]]

\* The directory array, when assign saw the children in the order idOrder and
\* link, which sorts them again, in linkOrder.
Entry(t, all, linkOrder, node) ==
  LET parent == SubSeq(node, 1, Len(node) - 1)
      kids   == linkOrder[node]
      sib    == IF node = Root THEN [left |-> NoStream, right |-> NoStream]
                ELSE Siblings(all, linkOrder[parent],
                              CHOOSE k \in DOMAIN linkOrder[parent] :
                                linkOrder[parent][k] = node)
  IN  [name  |-> IF node = Root THEN Root ELSE Name(node),
       type  |-> IF node = Root THEN "root" ELSE t[node],
       left  |-> sib.left,
       right |-> sib.right,
       child |-> IF kids = << >> THEN NoStream
                 ELSE Id(all, kids[Mid(1, Len(kids))])]

Linked(t, idOrder, linkOrder) ==
  LET all == Numbering(t, idOrder)
  IN  [i \in DOMAIN all |-> Entry(t, all, linkOrder, all[i])]

\* One array of children for every node; a stream has none.
Orders(t) ==
  LET parents == {Root} \cup {q \in DOMAIN t : t[q] = "storage"}
      arrays  == [n \in parents |-> Sortings(Children(t, n))]
  IN  {[n \in {Root} \cup DOMAIN t |-> IF n \in parents THEN f[n] ELSE << >>] :
         f \in {g \in [parents -> UNION {arrays[n] : n \in parents}] :
                  \A n \in parents : g[n] \in arrays[n]}}
=============================================================================
