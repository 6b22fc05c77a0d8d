---------------------------- MODULE CfbDirectory ----------------------------
(***************************************************************************)
(* The directory writer of a compound file, from the AddStream calls to    *)
(* the linked entries (Writer.AddStream, Bytes and the loop of buildTree   *)
(* in src/cfb/writer.go), one step for each call and each registration.    *)
(* What Bytes does next with the entries, assemble, is CfbLayout; it may   *)
(* refuse a file whose tree could be built.                                *)
(***************************************************************************)
EXTENDS CfbTree

CONSTANTS
  MaxDepth,   \* bound: segments in a path
  MaxSegments \* bound: segments in all registered paths, an empty path counted as one

ASSUME CfbDirectoryAssumption == MaxDepth \in Nat /\ MaxSegments \in Nat

VARIABLES
  streams,  \* w.streams: the registered paths, in order
  pc,       \* "open" between calls, "insert" inside Bytes
  next,     \* the index in streams of the registration buildTree is at
  tree,     \* the nodes under Root: path -> "storage" or "stream"
  entries,  \* the directory array: all[id + 1]
  result    \* of buildTree on these streams: "none" yet, "built" or "error"

vars == << streams, pc, next, tree, entries, result >>

Paths == UNION {[1 .. d -> Names] : d \in 0 .. MaxDepth}

-----------------------------------------------------------------------------
Segments(path) == IF path = << >> THEN 1 ELSE Len(path)
SegmentsOf(paths) == FoldSeq(LAMBDA path, sum : sum + Segments(path), 0, paths)

\* What an earlier Bytes computed has been returned and is forgotten.
AddStream(path) ==
  /\ pc = "open"
  /\ SegmentsOf(streams) + Segments(path) <= MaxSegments
  /\ streams' = Append(streams, path)
  /\ next' = 1 /\ tree' = << >> /\ entries' = << >>
  /\ result' = "none"
  /\ UNCHANGED pc

\* Bytes starts from an empty tree each time it is called.
Bytes ==
  /\ pc = "open"
  /\ pc' = "insert"
  /\ next' = 1
  /\ tree' = << >>
  /\ entries' = << >>
  /\ result' = "none"
  /\ UNCHANGED streams

\* Mutant of Insert: the loop index moves twice.
InsertSkipping ==
  /\ pc = "insert"
  /\ next <= Len(streams)
  /\ Fits(tree, streams[next])
  /\ tree' = Inserted(tree, streams[next])
  /\ next' = next + 2
  /\ UNCHANGED << streams, pc, entries, result >>

Insert ==
  /\ pc = "insert"
  /\ next <= Len(streams)
  /\ Fits(tree, streams[next])
  /\ tree' = Inserted(tree, streams[next])
  /\ next' = next + 1
  /\ UNCHANGED << streams, pc, entries, result >>

Reject ==
  /\ pc = "insert"
  /\ next <= Len(streams)
  /\ ~Fits(tree, streams[next])
  /\ pc' = "open"
  /\ result' = "error"
  /\ UNCHANGED << streams, next, tree, entries >>

\* buildTree returns the entries, and Bytes hands them to assemble.
Link ==
  /\ pc = "insert"
  /\ next > Len(streams)
  /\ \E idOrder, linkOrder \in Orders(tree) :
       entries' = Linked(tree, idOrder, linkOrder)
  /\ pc' = "open"
  /\ result' = "built"
  /\ UNCHANGED << streams, next, tree >>

Init ==
  /\ streams = << >>
  /\ pc = "open"
  /\ next = 1
  /\ tree = << >>
  /\ entries = << >>
  /\ result = "none"

Next == (\E path \in Paths : AddStream(path)) \/ Bytes \/ Insert \/ Reject \/ Link

Spec == Init /\ [][Next]_vars

-----------------------------------------------------------------------------
(***************************************************************************)
(* Properties.                                                             *)
(***************************************************************************)

TypeOK ==
  /\ streams \in Seq(Paths)
  /\ pc \in {"open", "insert"}
  /\ next \in 1 .. Len(streams) + 1
  /\ tree \in [DOMAIN tree -> {"storage", "stream"}]
  /\ DOMAIN tree \subseteq Paths
  /\ result \in {"none", "built", "error"}

\* buildTree fails on exactly the lists in which a path is empty, has a name
\* that does not fit, or is a prefix of another one, whatever the order in which
\* the paths were registered; otherwise the tree has exactly these streams.
RejectsExactlyConflicts ==
  /\ result = "error" => TreeRejects(streams, TooLong)
  /\ result = "built" =>
       /\ ~TreeRejects(streams, TooLong)
       /\ {p \in DOMAIN tree : tree[p] = "stream"} = ToSet(streams)
       /\ \A p \in DOMAIN tree : \E i \in DOMAIN streams : IsPrefix(p, streams[i])
=============================================================================
