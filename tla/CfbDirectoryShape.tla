------------------------- MODULE CfbDirectoryShape -------------------------
(***************************************************************************)
(* The shape of the sibling trees that Writer.Bytes links.                 *)
(***************************************************************************)
EXTENDS CfbDirectoryReadback

\* The levels of a sibling tree, from its root down.
RECURSIVE Levels(_)
Levels(level) ==
  IF level = {} THEN << >>
  ELSE << level >> \o Levels(
         {i \in UNION {{entries[idx + 1].left, entries[idx + 1].right} : idx \in level} :
            IsEntry(entries, i)})

\* Sibling trees are as flat as their size allows: every level is full but for
\* the last one.
Balanced ==
  result = "built" =>
    \A i \in DOMAIN entries :
      entries[i].child # NoStream =>
        LET levels == Levels({entries[i].child})
        IN  \A k \in 1 .. Len(levels) - 1 : Cardinality(levels[k]) = 2 ^ (k - 1)
=============================================================================
