--------------------------- MODULE CfbOpenResult ---------------------------
(***************************************************************************)
(* What the loops of Open (CfbOpen) compute, in terms of the operators     *)
(* that say what a reader finds (CfbReader, CfbWalk).                      *)
(***************************************************************************)
EXTENDS CfbOpen, CfbWalk

\* On any file, however damaged, the loops of Open compute what the operators
\* of CfbReader and CfbWalk say, which ReadBack and WalkFindsAll are about.
OpenComputes ==
  phase = "done" =>
    /\ entries = Entries(Image, Header)
    /\ [i \in DOMAIN order |-> order[i].path] = Walk(entries).order
    /\ \A i \in DOMAIN order :
         (\A j \in i + 1 .. Len(order) : order[j].path # order[i].path) =>
            streams[order[i].path] = Content(Image, Header, entries[order[i].idx + 1])
=============================================================================
