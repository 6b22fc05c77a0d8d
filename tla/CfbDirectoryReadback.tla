------------------------ MODULE CfbDirectoryReadback ------------------------
(***************************************************************************)
(* What readers find in the directory that Writer.Bytes links.             *)
(***************************************************************************)
EXTENDS CfbDirectory, CfbWalk

\* Open's walk meets every entry once and returns every registered stream
\* once, under its full path, and nothing else.
WalkFindsAll ==
  result = "built" =>
    LET w == Walk(entries)
    IN  /\ Cardinality(w.seen) = Len(entries) - 1
        /\ Len(w.order) = Len(streams)
        /\ ToSet(w.order) = ToSet(streams)

Siblings2(p, q) == SubSeq(p, 1, Len(p) - 1) = SubSeq(q, 1, Len(q) - 1)

CaseTwins ==
  \E p, q \in DOMAIN tree : p # q /\ Siblings2(p, q) /\ SameName(Name(p), Name(q))

\* A reader that searches by name, as the format prescribes, finds under every
\* path the entry of its own kind, and two paths never share an entry, when no
\* two siblings differ in case only.
SearchFindsAll ==
  result = "built" /\ ~CaseTwins =>
    LET order == {o \in Names \X Names : nameLess(o[1], o[2])}
        found == [p \in DOMAIN tree |-> Find(entries, order, p)]
    IN  /\ \A p \in DOMAIN tree : /\ IsEntry(entries, found[p])
                                 /\ entries[found[p] + 1].name = Name(p)
                                 /\ entries[found[p] + 1].type = tree[p]
        /\ \A p, q \in DOMAIN tree : found[p] = found[q] => p = q
=============================================================================
