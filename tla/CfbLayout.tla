----------------------------- MODULE CfbLayout -----------------------------
(***************************************************************************)
(* The sector layout of a written compound file (assemble, chainRun,       *)
(* writeHeader and writeDirectory in src/cfb/writer.go), one step for each *)
(* stream placed, for each turn of the FAT loop and for each run chained.  *)
(*                                                                         *)
(* nodes[n] is the size of the stream that the n-th directory entry after  *)
(* the root stands for, or Storage.  Sectors are numbered from 0.          *)
(***************************************************************************)
EXTENDS Integers, Sequences, FiniteSetsExt

CONSTANTS
  SectorSize,    \* 512 bytes in the code
  MiniSize,      \* 64 bytes
  FatEntries,    \* 128 words in a sector
  DirEntries,    \* 4 directory entries in a sector
  Cutoff,        \* 4096 bytes
  MaxFat,        \* 109 FAT sectors fit the header's DIFAT
  MaxNodes,      \* bound: entries after the root
  MaxSize        \* bound: bytes in a stream

ASSUME CfbLayoutAssumption ==
  /\ {SectorSize, MiniSize, DirEntries, Cutoff} \subseteq Nat \ {0}
  /\ FatEntries \in Nat \ {0, 1}
  /\ MaxFat \in Nat /\ MaxNodes \in Nat /\ MaxSize \in Nat

VARIABLES
  nodes,         \* input: the directory entries after the root
  pc,
  todo,          \* the nodes the current loop has still to visit
  sector,        \* the next free sector
  start,         \* startSector of the placed streams
  miniStream,    \* the bytes of the mini stream container
  miniFat,       \* the words of the mini FAT
  container, miniFatRun, dirRun, fatRun,   \* runs [start, count]
  fat

vars == << nodes, pc, todo, sector, start, miniStream, miniFat,
           container, miniFatRun, dirRun, fatRun, fat >>

Storage    == -1
EndOfChain == -2   \* 0xFFFFFFFE
FreeSect   == -1   \* 0xFFFFFFFF
FatSect    == -3   \* 0xFFFFFFFD

CeilDiv(a, b) == (a + b - 1) \div b

Streams == {n \in DOMAIN nodes : nodes[n] # Storage}
\* Mutant of Large: a stream of exactly the cutoff goes to the mini stream.
LargeAboveCutoff == {n \in Streams : nodes[n] > Cutoff}
Large   == {n \in Streams : nodes[n] >= Cutoff}
Mini    == Streams \ Large

Run(first, count) == [start |-> first, count |-> count]
\* Mutant of NoRun: the free marker for a chain that does not exist.
NoRunFree == Run(FreeSect, 0)
NoRun == Run(EndOfChain, 0)
\* Mutant of In: one sector too many.
InInclusive(s, run) == run.start <= s /\ s <= run.start + run.count
In(s, run) == run.start <= s /\ s < run.start + run.count

LargeRun(n) == Run(start[n], CeilDiv(nodes[n], SectorSize))

\* Byte k of the n-th node's stream, and the zero a make([]byte) leaves.
Bytes(n) == [k \in 1 .. nodes[n] |-> << n, k >>]
Zero == << 0, 0 >>

Padded(bytes, unit) ==
  [k \in 1 .. CeilDiv(Len(bytes), unit) * unit |->
     IF k <= Len(bytes) THEN bytes[k] ELSE Zero]

-----------------------------------------------------------------------------
(***************************************************************************)
(* Pass 1: large streams, mini stream, its container, mini FAT, directory. *)
(***************************************************************************)

PlaceLarge ==
  /\ pc = "large"
  /\ todo # {}
  /\ LET n == Min(todo)
     IN  /\ start' = [start EXCEPT ![n] = sector]
         /\ sector' = sector + CeilDiv(nodes[n], SectorSize)
         /\ todo' = todo \ {n}
  /\ UNCHANGED << nodes, pc, miniStream, miniFat, container, miniFatRun, dirRun, fatRun, fat >>

LargeDone ==
  /\ pc = "large"
  /\ todo = {}
  /\ pc' = "mini"
  /\ todo' = Mini
  /\ UNCHANGED << nodes, sector, start, miniStream, miniFat,
                  container, miniFatRun, dirRun, fatRun, fat >>

\* Mutant of PlaceMini: an empty stream is skipped without being passed.
PlaceMiniStuck ==
  /\ pc = "mini"
  /\ todo # {}
  /\ LET n     == Min(todo)
         first == Len(miniFat)
         count == CeilDiv(nodes[n], MiniSize)
     IN  /\ todo' = IF nodes[n] = 0 THEN todo ELSE todo \ {n}
         /\ start' = [start EXCEPT ![n] = IF nodes[n] = 0 THEN EndOfChain ELSE first]
         /\ miniStream' = miniStream \o Padded(Bytes(n), MiniSize)
         /\ miniFat' = miniFat \o [j \in 1 .. count |->
                                     IF j = count THEN EndOfChain ELSE first + j]
  /\ UNCHANGED << nodes, pc, sector, container, miniFatRun, dirRun, fatRun, fat >>

\* An empty stream takes no mini sector and no chain.
PlaceMini ==
  /\ pc = "mini"
  /\ todo # {}
  /\ LET n     == Min(todo)
         first == Len(miniFat)
         count == CeilDiv(nodes[n], MiniSize)
     IN  /\ todo' = todo \ {n}
         /\ start' = [start EXCEPT ![n] = IF nodes[n] = 0 THEN EndOfChain ELSE first]
         /\ miniStream' = miniStream \o Padded(Bytes(n), MiniSize)
         /\ miniFat' = miniFat \o [j \in 1 .. count |->
                                     IF j = count THEN EndOfChain ELSE first + j]
  /\ UNCHANGED << nodes, pc, sector, container, miniFatRun, dirRun, fatRun, fat >>

PlaceContainer ==
  /\ pc = "mini"
  /\ todo = {}
  /\ LET count == CeilDiv(Len(miniStream), SectorSize)
     IN  /\ container' = IF miniStream = << >> THEN NoRun ELSE Run(sector, count)
         /\ sector' = sector + count
  /\ pc' = "minifat"
  /\ UNCHANGED << nodes, todo, start, miniStream, miniFat, miniFatRun, dirRun, fatRun, fat >>

\* Mutant of PlaceMiniFat: its sectors are not counted.
PlaceMiniFatUncounted ==
  /\ pc = "minifat"
  /\ miniFatRun' = IF miniFat = << >> THEN NoRun
                   ELSE Run(sector, CeilDiv(Len(miniFat), FatEntries))
  /\ pc' = "directory"
  /\ UNCHANGED << nodes, todo, sector, start, miniStream, miniFat, container, dirRun, fatRun, fat >>

PlaceMiniFat ==
  /\ pc = "minifat"
  /\ LET count == CeilDiv(Len(miniFat), FatEntries)
     IN  /\ miniFatRun' = IF miniFat = << >> THEN NoRun ELSE Run(sector, count)
         /\ sector' = sector + count
  /\ pc' = "directory"
  /\ UNCHANGED << nodes, todo, start, miniStream, miniFat, container, dirRun, fatRun, fat >>

PlaceDirectory ==
  /\ pc = "directory"
  /\ LET count == CeilDiv(Len(nodes) + 1, DirEntries)
     IN  /\ dirRun' = Run(sector, count)
         /\ sector' = sector + count
         /\ fatRun' = Run(sector + count, 1)
  /\ pc' = "converge"
  /\ UNCHANGED << nodes, todo, start, miniStream, miniFat, container, miniFatRun, fat >>

-----------------------------------------------------------------------------
(***************************************************************************)
(* The FAT must describe every sector, its own included.                   *)
(***************************************************************************)

\* Mutant of TooSmall: the FAT forgets its own sectors.
TooSmallForOthers == FatEntries * fatRun.count < sector
TooSmall == FatEntries * fatRun.count < sector + fatRun.count

GrowFat ==
  /\ pc = "converge"
  /\ TooSmall
  /\ fatRun' = [fatRun EXCEPT !.count = @ + 1]
  /\ UNCHANGED << nodes, pc, todo, sector, start, miniStream, miniFat,
                  container, miniFatRun, dirRun, fat >>

\* Mutant of FatTooLarge: the last DIFAT entry is not used.
FatTooLargeAtLimit ==
  /\ pc = "converge"
  /\ ~TooSmall
  /\ fatRun.count >= MaxFat
  /\ pc' = "error"
  /\ UNCHANGED << nodes, todo, sector, start, miniStream, miniFat,
                  container, miniFatRun, dirRun, fatRun, fat >>

FatTooLarge ==
  /\ pc = "converge"
  /\ ~TooSmall
  /\ fatRun.count > MaxFat
  /\ pc' = "error"
  /\ UNCHANGED << nodes, todo, sector, start, miniStream, miniFat,
                  container, miniFatRun, dirRun, fatRun, fat >>

PlaceFat ==
  /\ pc = "converge"
  /\ ~TooSmall
  /\ fatRun.count <= MaxFat
  /\ sector' = sector + fatRun.count
  /\ fat' = [s \in 0 .. FatEntries * fatRun.count - 1 |-> FreeSect]
  /\ todo' = Large
  /\ pc' = "chain"
  /\ UNCHANGED << nodes, start, miniStream, miniFat, container, miniFatRun, dirRun, fatRun >>

-----------------------------------------------------------------------------
(***************************************************************************)
(* Pass 2: fill the FAT.                                                   *)
(***************************************************************************)

\* chainRun: each sector of the run points to the next, the last one ends.
Chained(f, run) ==
  [s \in DOMAIN f |->
     IF ~In(s, run) THEN f[s]
     ELSE IF s = run.start + run.count - 1 THEN EndOfChain ELSE s + 1]

ChainLarge ==
  /\ pc = "chain"
  /\ todo # {}
  /\ fat' = Chained(fat, LargeRun(Min(todo)))
  /\ todo' = todo \ {Min(todo)}
  /\ UNCHANGED << nodes, pc, sector, start, miniStream, miniFat,
                  container, miniFatRun, dirRun, fatRun >>

ChainRest ==
  /\ pc = "chain"
  /\ todo = {}
  /\ LET chained == Chained(Chained(Chained(fat, container), miniFatRun), dirRun)
     IN  fat' = [s \in DOMAIN fat |-> IF In(s, fatRun) THEN FatSect ELSE chained[s]]
  /\ pc' = "done"
  /\ UNCHANGED << nodes, todo, sector, start, miniStream, miniFat,
                  container, miniFatRun, dirRun, fatRun >>

-----------------------------------------------------------------------------
(***************************************************************************)
(* The bytes written: the header, and the contents of every sector in the  *)
(* order in which assemble copies them (a later copy overwrites).          *)
(***************************************************************************)

Header ==
  [firstDir     |-> dirRun.start,
   miniCutoff   |-> Cutoff,
   firstMiniFat |-> miniFatRun.start,
   firstDifat   |-> EndOfChain,
   difat        |-> [i \in 1 .. MaxFat |->
                       IF i <= fatRun.count THEN fatRun.start + i - 1 ELSE FreeSect]]

\* The i-th of the parts of size unit of a padded sequence.
Part(s, unit, i) == SubSeq(s, i * unit + 1, (i + 1) * unit)

Entry(n) ==
  CASE n = 0 -> [start |-> container.start, size |-> Len(miniStream)]
    [] n \in Streams -> [start |-> start[n], size |-> nodes[n]]
    [] OTHER -> [start |-> 0, size |-> 0]

Sector(s) ==
  IF In(s, fatRun)
    THEN [words |-> [k \in 1 .. FatEntries |-> fat[(s - fatRun.start) * FatEntries + k - 1]]]
  ELSE IF In(s, dirRun)
    THEN [entries |-> [k \in 1 .. DirEntries |-> Entry((s - dirRun.start) * DirEntries + k - 1)]]
  ELSE IF In(s, miniFatRun)
    THEN [words |-> Part([k \in 1 .. miniFatRun.count * FatEntries |->
                            IF k <= Len(miniFat) THEN miniFat[k] ELSE FreeSect],
                         FatEntries, s - miniFatRun.start)]
  ELSE IF In(s, container)
    THEN [data |-> Part(Padded(miniStream, SectorSize), SectorSize, s - container.start)]
  ELSE LET n == CHOOSE m \in Large : In(s, LargeRun(m))
       IN  [data |-> Part(Padded(Bytes(n), SectorSize), SectorSize, s - start[n])]

Image == [s \in 0 .. sector - 1 |-> Sector(s)]

-----------------------------------------------------------------------------
Inputs == UNION {[1 .. m -> {Storage} \cup 0 .. MaxSize] : m \in 0 .. MaxNodes}

Init ==
  /\ nodes \in Inputs
  /\ pc = "large"
  /\ todo = Large
  /\ sector = 0
  /\ start = [n \in DOMAIN nodes |-> 0]
  /\ miniStream = << >>
  /\ miniFat = << >>
  /\ container = NoRun /\ miniFatRun = NoRun /\ dirRun = NoRun /\ fatRun = NoRun
  /\ fat = << >>

Next ==
  \/ PlaceLarge \/ LargeDone \/ PlaceMini \/ PlaceContainer \/ PlaceMiniFat
  \/ PlaceDirectory \/ GrowFat \/ FatTooLarge \/ PlaceFat \/ ChainLarge \/ ChainRest

Spec == Init /\ [][Next]_vars

\* assemble is one sequential function: it runs until it returns.
FairSpec == Spec /\ WF_vars(Next)

-----------------------------------------------------------------------------
(***************************************************************************)
(* Properties.                                                             *)
(***************************************************************************)

Pcs == {"large", "mini", "minifat", "directory", "converge", "chain", "done", "error"}

IsRun(r) == r.start \in Nat \cup {EndOfChain} /\ r.count \in Nat

TypeOK ==
  /\ nodes \in Inputs
  /\ pc \in Pcs
  /\ todo \subseteq DOMAIN nodes
  /\ sector \in Nat
  /\ start \in [DOMAIN nodes -> Nat \cup {EndOfChain}]
  /\ IsRun(container) /\ IsRun(miniFatRun) /\ IsRun(dirRun) /\ IsRun(fatRun)

\* The runs that hold sectors at this point of the layout.
PlacedLarge == IF pc = "large" THEN Large \ todo ELSE Large
FixedRuns == << container, miniFatRun, dirRun >>

\* No sector is given out twice: whatever the streams, the runs of the large
\* streams, the mini stream container, the mini FAT and the directory never
\* share a sector, and none reaches past the next free one.
NoSectorShared ==
  /\ \A m, n \in PlacedLarge : m < n => start[m] + LargeRun(m).count <= start[n]
  /\ \A n \in PlacedLarge :
       /\ start[n] + LargeRun(n).count <= sector
       /\ \A k \in 1 .. 3 : FixedRuns[k].count > 0 =>
            start[n] + LargeRun(n).count <= FixedRuns[k].start
  /\ \A k \in 1 .. 3 : FixedRuns[k].count > 0 =>
       /\ FixedRuns[k].start + FixedRuns[k].count <= sector
       /\ \A j \in k + 1 .. 3 : FixedRuns[j].count > 0 =>
            FixedRuns[k].start + FixedRuns[k].count <= FixedRuns[j].start

\* The FAT has the fewest sectors that can describe every sector of the file,
\* its own included: neither one too few at the boundary nor one to spare.
Describes(count, others) == FatEntries * count >= others + count

FatMinimal ==
  pc \in {"chain", "done"} =>
    /\ sector = fatRun.start + fatRun.count
    /\ Describes(fatRun.count, fatRun.start)
    /\ \A fewer \in 1 .. fatRun.count - 1 : ~Describes(fewer, fatRun.start)

\* The layout gives up only when no FAT that the header can list would do.
FailsOnlyBeyondDifat ==
  pc = "error" => \A count \in 1 .. MaxFat : ~Describes(count, sector)

\* In a finished FAT the sectors of the file are chained or FAT sectors, and
\* the entries past the end of the file are free.
FatCoversFile ==
  pc = "done" => \A s \in DOMAIN fat : (fat[s] = FreeSect) <=> s >= sector

\* The FAT loop stops: every layout comes to an end.
Finishes == <>(pc \in {"done", "error"})
=============================================================================
