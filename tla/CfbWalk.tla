------------------------------ MODULE CfbWalk ------------------------------
(***************************************************************************)
(* How the directory array is read: walkDir of Open (src/cfb/reader.go),   *)
(* an in-order walk with a visited guard, and the search by name that the  *)
(* compound file format prescribes and any other reader may use.           *)
(*                                                                         *)
(* A path is the sequence of its names.  The code joins them with slashes, *)
(* which tell the same paths apart as long as no name has one in it; the   *)
(* format forbids them in names.                                           *)
(*                                                                         *)
(* An entry is [name, type, left, right, child]; a link is the index of an *)
(* entry, or -1 for NOSTREAM.                                              *)
(***************************************************************************)
EXTENDS Integers, Sequences

Indexes(entries) == {i - 1 : i \in DOMAIN entries}

IsEntry(entries, idx) == idx \in Indexes(entries)

EntryNames(entries) == {entries[i].name : i \in DOMAIN entries}

\* What the calls of walkDir collect: seen is visited, order the paths of
\* c.order.
Walks(entries) == [seen : SUBSET Indexes(entries), order : Seq(Seq(EntryNames(entries)))]

\* walkDir(idx, prefix), from what the calls before it have collected.
Calls(entries) == [idx : Int, prefix : Seq(EntryNames(entries)), acc : Walks(entries)]

walkDir(entries) ==
  LET walk[call \in Calls(entries)] ==
        LET to(idx, prefix, acc) == walk[[idx |-> idx, prefix |-> prefix, acc |-> acc]]
            acc   == call.acc
            e     == entries[call.idx + 1]
            path  == Append(call.prefix, e.name)
            left  == to(e.left, call.prefix, [acc EXCEPT !.seen = @ \cup {call.idx}])
            self  == IF e.type = "stream" THEN [left EXCEPT !.order = Append(@, path)]
                     ELSE IF e.type = "storage" THEN to(e.child, path, left)
                     ELSE left
        IN  IF ~IsEntry(entries, call.idx) \/ call.idx \in acc.seen THEN acc
            ELSE to(e.right, call.prefix, self)
  IN  walk

Walk(entries) ==
  walkDir(entries)[[idx |-> entries[1].child, prefix |-> << >>,
                    acc |-> [seen |-> {}, order |-> << >>]]]

\* External: the lookup of one name among siblings by the order `order`, a
\* set of pairs << smaller, greater >>, in no more steps than there are
\* entries: the index, or -1.
SearchFrom(entries, order, link, name) ==
  LET search[call \in [steps : 0 .. Len(entries), idx : Int]] ==
        LET e == entries[call.idx + 1]
            to(idx) == search[[steps |-> call.steps - 1, idx |-> idx]]
        IN  IF call.steps = 0 \/ ~IsEntry(entries, call.idx) THEN -1
            ELSE IF << name, e.name >> \in order THEN to(e.left)
            ELSE IF << e.name, name >> \in order THEN to(e.right)
            ELSE call.idx
  IN  search[[steps |-> Len(entries), idx |-> link]]

\* External: the lookup of a path, segment by segment.
Find(entries, order, path) ==
  LET hit[k \in 0 .. Len(path)] ==
        IF k = 0 THEN 0
        ELSE IF hit[k - 1] = -1 THEN -1
        ELSE SearchFrom(entries, order, entries[hit[k - 1] + 1].child, path[k])
  IN  hit[Len(path)]
=============================================================================
