------------------------------ MODULE CfbFile ------------------------------
(***************************************************************************)
(* From the streams that are registered to the streams that Open returns:  *)
(* the directory that buildTree links (CfbTree), the sectors that assemble *)
(* lays out (CfbLayout) and Open (CfbOpen), with a disk in between that    *)
(* may cut the file short or change one number in it, and with other       *)
(* writers that list FAT sectors in a DIFAT sector.                        *)
(***************************************************************************)
EXTENDS CfbOpenResult

CONSTANTS
  Names, Upcase, MaxName,     \* of CfbTree
  MaxFat, MaxNodes, MaxSize,  \* of CfbLayout
  Listings                    \* inputs: functions from paths to sizes

VARIABLES
  listing,    \* the streams registered with AddStream and their sizes
  ids,        \* the nodes by entry: ids[idx + 1] is a path
  links,      \* the directory array of CfbTree
  nodes, pc, todo, sector, start, miniStream, miniFat,  \* of CfbLayout
  container, miniFatRun, dirRun, fatRun, fat,
  damage      \* what happened to the file before it is opened

Tree   == INSTANCE CfbTree
Layout == INSTANCE CfbLayout

writeVars == << listing, ids, links, nodes, pc, todo, sector, start, miniStream,
                miniFat, container, miniFatRun, dirRun, fatRun, fat >>
vars == << writeVars, damage, openVars >>

-----------------------------------------------------------------------------
(***************************************************************************)
(* The sectors as any of their readings.                                   *)
(***************************************************************************)

Zeros == [k \in 1 .. FatEntries |-> 0]
ZeroEntry == [name |-> << >>, type |-> "unused", left |-> 0, right |-> 0,
              child |-> 0, start |-> 0, size |-> 0]
Unused == [ZeroEntry EXCEPT !.left = Tree!NoStream, !.right = Tree!NoStream,
                            !.child = Tree!NoStream]
Structure == << 0, 1 >>   \* a byte of the file's own structures

EntryAt(idx) ==
  IF idx >= Len(links) THEN Unused ELSE links[idx + 1] @@ Layout!Entry(idx)

EntriesOf(s) ==
  [k \in 1 .. DirEntries |-> EntryAt((s - dirRun.start) * DirEntries + k - 1)]

SectorOf(s) ==
  LET written == Layout!Sector(s)
  IN  [words   |-> IF "words" \in DOMAIN written THEN written.words ELSE Zeros,
       entries |-> IF "entries" \in DOMAIN written THEN EntriesOf(s)
                   ELSE [k \in 1 .. DirEntries |-> ZeroEntry],
       data    |-> IF "data" \in DOMAIN written THEN written.data
                   ELSE [k \in 1 .. SectorSize |-> Structure]]

Sound == [valid |-> TRUE, header |-> Layout!Header,
          image |-> [s \in 0 .. sector - 1 |-> SectorOf(s)]]

-----------------------------------------------------------------------------
(***************************************************************************)
(* What may happen to the file.                                            *)
(***************************************************************************)

\* External: the same file as a writer lists it that puts the FAT sectors from
\* the k-th on into DIFAT sectors at the end of the file.
Relisted(k) ==
  LET moved   == [i \in 1 .. fatRun.count - k + 1 |-> fatRun.start + k + i - 2]
      perNode == FatEntries - 1
      count   == Layout!CeilDiv(Len(moved), perNode)
      difat(n) == [i \in 1 .. FatEntries |->
                     IF i = FatEntries
                       THEN IF n = count THEN EndOfChain ELSE sector + n
                     ELSE IF (n - 1) * perNode + i <= Len(moved)
                       THEN moved[(n - 1) * perNode + i] ELSE FreeSect]
  IN  [Sound EXCEPT
         !.header = [@ EXCEPT !.firstDifat = sector,
                              !.difat = [i \in DOMAIN @ |-> IF i < k THEN @[i] ELSE FreeSect]],
         !.image = @ @@ [s \in sector .. sector + count - 1 |->
                           [words   |-> difat(s - sector + 1),
                            entries |-> [j \in 1 .. DirEntries |-> ZeroEntry],
                            data    |-> [j \in 1 .. SectorSize |-> Structure]]]]

Numbers == {FatSect, EndOfChain, FreeSect} \cup 0 .. sector

\* Sectors of words, and the directory entries in use.
WordSectors == {s \in 0 .. sector - 1 : Layout!In(s, fatRun) \/ Layout!In(s, miniFatRun)}
Indices == 0 .. Len(links) - 1

Damages ==
  {[kind |-> "none"]}
    \cup [kind : {"relisted"}, from : 1 .. fatRun.count]
    \cup [kind : {"cut"}, keep : -1 .. sector - 1]
    \cup [kind : {"word"}, sector : WordSectors, k : 1 .. FatEntries, value : Numbers]
    \cup [kind : {"link"}, idx : Indices, field : {"left", "right", "child"},
          value : {Tree!NoStream} \cup 0 .. Len(links)]
    \cup [kind : {"extent"}, idx : Indices, field : {"start"}, value : Numbers]
    \cup [kind : {"extent"}, idx : Indices, field : {"size"}, value : 0 .. MaxSize]
    \cup [kind : {"header"}, field : {"firstMiniFat", "firstDifat", "firstDir"},
          value : Numbers]
    \cup [kind : {"difat"}, k : 1 .. MaxFat, value : Numbers]

Damaged(d) ==
  CASE d.kind = "none" -> Sound
    [] d.kind = "relisted" -> Relisted(d.from)
    [] d.kind = "cut" -> [Sound EXCEPT !.valid = d.keep >= 0,
                                       !.image = [s \in 0 .. d.keep - 1 |-> @[s]]]
    [] d.kind = "word" -> [Sound EXCEPT !.image[d.sector].words[d.k] = d.value]
    [] d.kind \in {"link", "extent"} ->
         [Sound EXCEPT !.image[dirRun.start + d.idx \div DirEntries]
                          .entries[(d.idx % DirEntries) + 1][d.field] = d.value]
    [] d.kind = "header" -> [Sound EXCEPT !.header[d.field] = d.value]
    [] d.kind = "difat" -> [Sound EXCEPT !.header.difat[d.k] = d.value]

-----------------------------------------------------------------------------
Init ==
  /\ listing \in Listings
  /\ LET tree == [p \in UNION {Tree!StoragesOf(q) \cup {q} : q \in DOMAIN listing} |->
                    IF p \in DOMAIN listing THEN "stream" ELSE "storage"]
     IN  \E order1, order2 \in Tree!Orders(tree) :
           /\ ids = Tree!Numbering(tree, order1)
           /\ links = Tree!Linked(tree, order1, order2)
  /\ nodes = [n \in 1 .. Len(ids) - 1 |->
                IF ids[n + 1] \in DOMAIN listing THEN listing[ids[n + 1]]
                ELSE Layout!Storage]
  /\ Layout!Init
  /\ damage = [kind |-> "unknown"]
  /\ file = [valid |-> FALSE]
  /\ Idle

WriteStep ==
  /\ Layout!Next
  /\ UNCHANGED << listing, ids, links, damage, openVars >>

\* The file written is opened, as it is or after something happened to it.
Deliver ==
  /\ pc = "done"
  /\ phase = "idle"
  /\ damage' \in Damages
  /\ file' = Damaged(damage')
  /\ Call
  /\ UNCHANGED writeVars

OpenStep ==
  /\ OpenNext
  /\ UNCHANGED << writeVars, damage >>

Next == WriteStep \/ Deliver \/ OpenStep

\* assemble and Open are sequential functions that run until they return.
FairSpec == /\ Init /\ [][Next]_vars
            /\ WF_vars(WriteStep) /\ WF_vars(OpenStep)

-----------------------------------------------------------------------------
(***************************************************************************)
(* Properties.                                                             *)
(***************************************************************************)

Written(path) == Layout!Bytes((CHOOSE i \in DOMAIN ids : ids[i] = path) - 1)

\* Open is the inverse of AddStream and Bytes: from a whole file it returns
\* every registered path with the bytes registered under it, once, and nothing
\* else, also when another writer lists the FAT sectors in a DIFAT chain.
ReadsWhatWasWritten ==
  damage.kind \in {"none", "relisted"} =>
    /\ phase # "error"
    /\ phase = "done" => /\ streams = [p \in DOMAIN listing |-> Written(p)]
                         /\ Len(order) = Cardinality(DOMAIN listing)

\* A file that ends early is refused exactly when the first directory sector
\* or the FAT sector that describes it is missing.  Otherwise each stream that
\* is found is a prefix of the one written, and the code gives no error.
TruncationShortens ==
  damage.kind = "cut" =>
    /\ phase = "error" => damage.keep < 1 + fatRun.start + dirRun.start \div FatEntries
    /\ phase = "done" =>
         /\ damage.keep >= 1 + fatRun.start + dirRun.start \div FatEntries
         /\ \A p \in DOMAIN streams : p \in DOMAIN listing /\ IsPrefix(streams[p], Written(p))

Small == {n \in Layout!Mini : nodes[n] > 0}

\* The streams that depend on the FAT word of sector s ...
OnSector(s) ==
  {n \in Layout!Large : Layout!In(s, Layout!LargeRun(n))}
    \cup IF Layout!In(s, container) \/ Layout!In(s, miniFatRun) THEN Small ELSE {}

\* ... and on the mini FAT word of mini sector m.
OnMiniSector(m) ==
  {n \in Small : m \in start[n] .. start[n] + Layout!CeilDiv(nodes[n], MiniSize) - 1}

Hit(d) ==
  CASE d.kind = "word" ->
         IF Layout!In(d.sector, fatRun)
           THEN OnSector((d.sector - fatRun.start) * FatEntries + d.k - 1)
           ELSE OnMiniSector((d.sector - miniFatRun.start) * FatEntries + d.k - 1)
    [] d.kind = "extent" -> IF d.idx = 0 THEN Small ELSE {d.idx}
    [] d.kind = "header" -> IF d.field = "firstMiniFat" THEN Small ELSE {}
    [] d.kind = "difat" -> {}

\* Damage that leaves the way to the directory and its links alone.
OffDirectory(d) ==
  CASE d.kind = "word" -> ~ /\ Layout!In(d.sector, fatRun)
                            /\ Layout!In((d.sector - fatRun.start) * FatEntries + d.k - 1, dirRun)
    [] d.kind = "extent" -> TRUE
    [] d.kind = "header" -> d.field # "firstDir"
    [] d.kind = "difat" -> d.k > fatRun.count
    [] OTHER -> FALSE

\* One wrong number does not spread: a stream whose own chain and entry are
\* not hit is returned as it was written.  A wrong directory link changes
\* where streams are found but never the bytes found there.
DamageIsLocal ==
  /\ phase \in {"done", "error"} /\ OffDirectory(damage) =>
       /\ DOMAIN streams = DOMAIN listing
       /\ \A n \in Layout!Streams \ Hit(damage) : streams[ids[n + 1]] = Layout!Bytes(n)
  /\ phase = "done" /\ damage.kind = "link" =>
       \A i \in DOMAIN order :
         (\A j \in i + 1 .. Len(order) : order[j].path # order[i].path) =>
            streams[order[i].path] = Layout!Bytes(order[i].idx)

\* Open returns, on every file.
OpenReturns == phase = "header" ~> phase \in {"done", "error"}
=============================================================================
