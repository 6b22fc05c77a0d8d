----------------------------- MODULE CfbReader -----------------------------
(***************************************************************************)
(* How Open recovers a stream from the sectors of a compound file          *)
(* (buildFAT, readChain, readMiniChain and the content selection of        *)
(* walkDir in src/cfb/reader.go).                                          *)
(*                                                                         *)
(* An image is a function from sector numbers to sectors.  A sector is     *)
(* read as words (FAT, mini FAT, DIFAT), as directory entries or as data,  *)
(* and has the field of each reading it supports.  A word is a sector      *)
(* number or one of the reserved values.                                   *)
(***************************************************************************)
EXTENDS Integers, Sequences, FiniteSetsExt, SequencesExt

CONSTANTS
  SectorSize,      \* bytes in a sector: 512 in the code
  MiniSize,        \* bytes in a mini sector: 64
  FatEntries,      \* words in a sector: 128
  DirEntries,      \* directory entries in a sector: 4
  Cutoff           \* streams of this size and more have sectors of their own

EndOfChain == -2   \* 0xFFFFFFFE
FreeSect   == -1   \* 0xFFFFFFFF
FatSect    == -3   \* 0xFFFFFFFD

\* The prefix of a word list before its first reserved terminator.
Terminated(words) ==
  LET ends == {i \in DOMAIN words : words[i] \in {FreeSect, EndOfChain}}
  IN  IF ends = {} THEN words ELSE SubSeq(words, 1, Min(ends) - 1)

\* The walk start, succ[start], succ[succ[start]], ... up to the first value
\* that has no successor (a reserved value, a number out of range, a sector
\* the file does not have) or that was met before.
Walked(succ, start) ==
  LET at[n \in 0 .. Cardinality(DOMAIN succ)] ==
        IF n = 0 THEN start
        ELSE IF at[n - 1] \in DOMAIN succ THEN succ[at[n - 1]] ELSE at[n - 1]
      stops == {n \in DOMAIN at : \/ at[n] \notin DOMAIN succ
                                  \/ \E m \in 0 .. n - 1 : at[m] = at[n]}
  IN  [i \in 1 .. Min(stops) |-> at[i - 1]]

\* The DIFAT sectors from h.firstDifat on.  The last word of each is the next.
DifatSectors(img, h) ==
  Walked([s \in {t \in DOMAIN img : "words" \in DOMAIN img[t]} |-> Last(img[s].words)],
         h.firstDifat)

\* fatSectorNums: the header's list, then those of the DIFAT sectors up to the
\* first terminator.
FatSectors(img, h) ==
  Terminated(h.difat)
    \o Terminated(FlattenSeq([k \in DOMAIN DifatSectors(img, h) |->
                                Front(img[DifatSectors(img, h)[k]].words)]))

\* The sectors of a list that the file has, in their order.
InFile(img, nums) ==
  LET kept[i \in 0 .. Len(nums)] ==
        IF i = 0 THEN << >>
        ELSE IF nums[i] \in DOMAIN img THEN Append(kept[i - 1], nums[i])
        ELSE kept[i - 1]
  IN  kept[Len(nums)]

\* The FAT as a function from 0; a FAT sector beyond the file is left out.
buildFAT(img, h) ==
  LET present == InFile(img, FatSectors(img, h))
  IN  [n \in 0 .. Len(present) * FatEntries - 1 |->
         img[present[n \div FatEntries + 1]].words[(n % FatEntries) + 1]]

\* readChain, as the sectors it visits.
Chain(img, fat, start) ==
  Walked([s \in DOMAIN fat \cap DOMAIN img |-> fat[s]], start)

Data(img, sectors) == FlattenSeq([k \in DOMAIN sectors |-> img[sectors[k]].data])

Truncated(bytes, size) == SubSeq(bytes, 1, IF size < Len(bytes) THEN size ELSE Len(bytes))

Entries(img, h) ==
  LET sectors == Chain(img, buildFAT(img, h), h.firstDir)
  IN  FlattenSeq([k \in DOMAIN sectors |-> img[sectors[k]].entries])

\* The mini stream, from the root entry.
MiniData(img, h) ==
  LET root == Entries(img, h)[1]
  IN  IF root.start \in {EndOfChain, FreeSect} \/ root.size = 0 THEN << >>
      ELSE Truncated(Data(img, Chain(img, buildFAT(img, h), root.start)), root.size)

MiniFAT(img, h) ==
  LET sectors == Chain(img, buildFAT(img, h), h.firstMiniFat)
  IN  [n \in 0 .. Len(sectors) * FatEntries - 1 |->
         img[sectors[n \div FatEntries + 1]].words[(n % FatEntries) + 1]]

readMiniChain(miniData, miniFAT, start, size) ==
  LET whole   == {m \in DOMAIN miniFAT : (m + 1) * MiniSize <= Len(miniData)}
      visited == Walked([m \in whole |-> miniFAT[m]], start)
  IN  Truncated(FlattenSeq([k \in DOMAIN visited |->
                  SubSeq(miniData, visited[k] * MiniSize + 1, (visited[k] + 1) * MiniSize)]),
                size)

\* The content walkDir stores for a stream entry.
Content(img, h, e) ==
  LET miniData == MiniData(img, h)
  IN  CASE e.size = 0 -> << >>
        [] e.size > 0 /\ e.size < h.miniCutoff /\ miniData # << >> ->
             readMiniChain(miniData, MiniFAT(img, h), e.start, e.size)
        [] OTHER ->
             IF e.start \in {EndOfChain, FreeSect} THEN << >>
             ELSE Truncated(Data(img, Chain(img, buildFAT(img, h), e.start)), e.size)
=============================================================================
