---------------------------- MODULE CfbRoundTrip ----------------------------
(***************************************************************************)
(* What Open reads from the sectors that assemble lays out.                *)
(***************************************************************************)
EXTENDS CfbLayout

Reader == INSTANCE CfbReader

\* Every stream is read back with the bytes it was given: empty, shorter than
\* a mini sector, across mini sectors, at the cutoff, over several sectors,
\* through the FAT found by way of the header and of the FAT's own sectors.
ReadBack ==
  pc = "done" =>
    LET entries == Reader!Entries(Image, Header)
    IN  /\ Len(entries) >= Len(nodes) + 1
        /\ \A n \in Streams : Reader!Content(Image, Header, entries[n + 1]) = Bytes(n)
=============================================================================
