-------------------------- MODULE CfbLayoutProofs --------------------------
(***************************************************************************)
(* Theorems about CfbLayout, and that what CfbReader reads from its        *)
(* sectors are the streams, for every sector, mini sector, FAT and         *)
(* directory entry size, every cutoff and DIFAT limit, and every list of   *)
(* streams.                                                                *)
(***************************************************************************)
EXTENDS CfbRoundTrip, SequenceTheorems, FiniteSetTheorems, WellFoundedInduction, TLAPS

\* What the code's slices of bytes and words are.
Containers == miniStream \in Seq(Nat \X Nat) /\ miniFat \in Seq(Int)

\* The large streams are placed in the order of their numbers.
InOrder ==
  /\ pc = "large" => todo \subseteq Large /\ \A m \in Large \ todo, n \in todo : m < n
  /\ pc = "mini"  => todo \subseteq Mini

\* A run that no step has placed yet has no sectors.
Unplaced ==
  /\ pc \in {"large", "mini"} => container = NoRun
  /\ pc \in {"large", "mini", "minifat"} => miniFatRun = NoRun
  /\ pc \in {"large", "mini", "minifat", "directory"} => dirRun = NoRun

\* A run lies between two sectors, if it has any sector at all.
Between(run, lo, hi) == run.count > 0 => lo <= run.start /\ run.start + run.count <= hi
Before(run, other) ==
  run.count > 0 /\ other.count > 0 => run.start + run.count <= other.start

\* NoSectorShared, run by run.
Apart ==
  /\ \A m, n \in PlacedLarge : m < n => start[m] + LargeRun(m).count <= start[n]
  /\ \A n \in PlacedLarge :
       /\ start[n] + LargeRun(n).count <= sector
       /\ Between(container, start[n] + LargeRun(n).count, sector)
       /\ Between(miniFatRun, start[n] + LargeRun(n).count, sector)
       /\ Between(dirRun, start[n] + LargeRun(n).count, sector)
  /\ Between(container, container.start, sector)
  /\ Between(miniFatRun, miniFatRun.start, sector)
  /\ Between(dirRun, dirRun.start, sector)
  /\ Before(container, miniFatRun) /\ Before(container, dirRun) /\ Before(miniFatRun, dirRun)

\* No smaller FAT than the present one would do for the sectors below it.
Converging ==
  /\ pc \in {"converge", "error"} => fatRun.start = sector
  /\ pc = "error" => fatRun.count > MaxFat
  /\ pc \in {"chain", "done"} => /\ sector = fatRun.start + fatRun.count
                                 /\ Describes(fatRun.count, fatRun.start)
  /\ pc \in {"converge", "error", "chain", "done"} =>
       \A fewer \in 1 .. fatRun.count - 1 : ~Describes(fewer, fatRun.start)

LayoutInv == TypeOK /\ Containers /\ InOrder /\ Unplaced /\ Apart /\ Converging

-----------------------------------------------------------------------------
\* A non-empty set of numbers has a least element, so Min is defined on it.
LEMMA MinOfSet ==
  ASSUME NEW T \in SUBSET Nat, T # {}
  PROVE  Min(T) \in T /\ \A y \in T : Min(T) <= y
<1> DEFINE R == OpToRel(<, Nat)
<1>1. IsWellFoundedOn(R, Nat)
  BY NatLessThanWellFounded
<1>2. \E x \in T : \A y \in T : ~(<< y, x >> \in R)
  <2> HIDE DEF R
  <2> QED
    BY <1>1, WFMin
<1>3. \A x, y \in Nat : x < y => << x, y >> \in R
  BY DEF OpToRel
<1> HIDE DEF R
<1>4. PICK x \in T : \A y \in T : ~(y < x)
  BY <1>2, <1>3
<1>5. \A y \in T : x <= y
  BY <1>4
<1> QED
  BY <1>4, <1>5 DEF Min

\* A number of units is a number.
LEMMA CeilDivIsNat ==
  ASSUME NEW a \in Nat, NEW b \in Nat \ {0}
  PROVE  CeilDiv(a, b) \in Nat
PROOF BY DEF CeilDiv

\* The sizes of streams are numbers, and so are their numbers of sectors.
LEMMA Sizes ==
  ASSUME TypeOK
  PROVE  /\ DOMAIN nodes \subseteq Nat /\ Len(nodes) \in Nat
         /\ Large \subseteq DOMAIN nodes /\ Mini \subseteq DOMAIN nodes
         /\ \A n \in Large \cup Mini :
              /\ nodes[n] \in Nat
              /\ CeilDiv(nodes[n], SectorSize) \in Nat
              /\ CeilDiv(nodes[n], MiniSize) \in Nat
<1>1. PICK m \in 0 .. MaxNodes : nodes \in [1 .. m -> {Storage} \cup 0 .. MaxSize]
  BY DEF TypeOK, Inputs
<1>2. m \in Nat /\ Len(nodes) = m /\ DOMAIN nodes = 1 .. m
  BY <1>1, CfbLayoutAssumption DEF CfbLayoutAssumption
<1>3. \A n \in Large \cup Mini : n \in DOMAIN nodes /\ nodes[n] \in Nat
  BY <1>1, <1>2, CfbLayoutAssumption DEF CfbLayoutAssumption, Large, Mini, Streams
<1>4. SectorSize \in Nat \ {0} /\ MiniSize \in Nat \ {0}
  BY CfbLayoutAssumption DEF CfbLayoutAssumption
<1>5. \A n \in Large \cup Mini :
        CeilDiv(nodes[n], SectorSize) \in Nat /\ CeilDiv(nodes[n], MiniSize) \in Nat
  BY <1>3, <1>4, CeilDivIsNat
<1> QED
  BY <1>2, <1>3, <1>5 DEF Large, Mini, Streams

\* Apart is NoSectorShared with its quantifiers over the three runs unfolded.
LEMMA ApartIsShared ==
  ASSUME TypeOK, Apart
  PROVE  NoSectorShared
<1>1. /\ FixedRuns[1] = container /\ FixedRuns[2] = miniFatRun /\ FixedRuns[3] = dirRun
  BY DEF FixedRuns
<1>2. 1 .. 3 = {1, 2, 3} /\ 1 + 1 .. 3 = {2, 3} /\ 2 + 1 .. 3 = {3} /\ 3 + 1 .. 3 = {}
  OBVIOUS
<1>3. \A n \in PlacedLarge : \A k \in 1 .. 3 : FixedRuns[k].count > 0 =>
        start[n] + LargeRun(n).count <= FixedRuns[k].start
  BY <1>1, <1>2 DEF Apart, Between
<1>4. \A k \in 1 .. 3 : FixedRuns[k].count > 0 => FixedRuns[k].start + FixedRuns[k].count <= sector
  BY <1>1, <1>2 DEF Apart, Between
<1>5. \A k \in 1 .. 3 : \A j \in k + 1 .. 3 :
        FixedRuns[k].count > 0 /\ FixedRuns[j].count > 0 =>
          FixedRuns[k].start + FixedRuns[k].count <= FixedRuns[j].start
  BY <1>1, <1>2 DEF Apart, Before
<1> QED
  BY <1>3, <1>4, <1>5 DEF Apart, NoSectorShared

-----------------------------------------------------------------------------
\* Placing a large stream moves it from todo to the placed ones, behind them.
LEMMA PlaceLargeKeeps ==
  ASSUME LayoutInv, PlaceLarge
  PROVE  LayoutInv'
<1>1. PICK n \in Large : /\ n = Min(todo) /\ n \in todo /\ todo \subseteq Large
                         /\ \A y \in todo : n <= y
  BY Sizes, MinOfSet DEF LayoutInv, InOrder, PlaceLarge
<1> DEFINE count == CeilDiv(nodes[n], SectorSize)
<1>2. count \in Nat /\ n \in DOMAIN nodes /\ sector \in Nat /\ DOMAIN nodes \subseteq Nat
  BY <1>1, Sizes DEF LayoutInv, TypeOK
<1>3. /\ start' = [start EXCEPT ![n] = sector] /\ sector' = sector + count
      /\ todo' = todo \ {n} /\ pc = "large"
      /\ UNCHANGED << nodes, pc, miniStream, miniFat, container, miniFatRun, dirRun, fatRun, fat >>
  BY <1>1 DEF PlaceLarge
<1> HIDE DEF count
<1>4. TypeOK'
  BY <1>1, <1>2, <1>3 DEF LayoutInv, TypeOK, IsRun
<1>5. Large' = Large /\ Mini' = Mini
  BY <1>3 DEF Large, Mini, Streams
<1>6. InOrder'
  BY <1>1, <1>2, <1>3, <1>5 DEF LayoutInv, TypeOK, InOrder
<1>7. Apart'
  <2>1. /\ PlacedLarge = Large \ todo /\ PlacedLarge' = PlacedLarge \cup {n}
        /\ n \notin PlacedLarge
    BY <1>1, <1>3, <1>5 DEF PlacedLarge
  <2>2. /\ start'[n] = sector /\ LargeRun(n)'.count = count
        /\ \A m \in PlacedLarge :
             /\ start'[m] = start[m] /\ LargeRun(m)'.count = LargeRun(m).count
             /\ start[m] + LargeRun(m).count <= sector
             /\ m < n /\ m \in Nat
             /\ start[m] \in Int /\ LargeRun(m).count \in Nat
    <3>1. Large \subseteq DOMAIN nodes /\ \A m \in Large : CeilDiv(nodes[m], SectorSize) \in Nat
      BY Sizes DEF LayoutInv
    <3>2. \A m \in Large : start[m] \in Int
      BY <3>1 DEF LayoutInv, TypeOK, EndOfChain
    <3>3. \A m \in Large : LargeRun(m).count = CeilDiv(nodes[m], SectorSize)
      BY DEF LargeRun, Run
    <3>4. \A m \in Large : LargeRun(m)'.count = CeilDiv(nodes[m], SectorSize)
      BY <1>3 DEF LargeRun, Run
    <3>5. \A m \in Large : m \in DOMAIN start /\ m \in Nat
      BY <1>2, <3>1 DEF LayoutInv, TypeOK
    <3>6. \A m \in PlacedLarge : m < n /\ m # n /\ start[m] + LargeRun(m).count <= sector
      BY <1>1, <1>3, <2>1 DEF LayoutInv, InOrder, Apart
    <3>7. start'[n] = sector /\ \A m \in PlacedLarge : start'[m] = start[m]
      BY <1>1, <1>3, <2>1, <3>5, <3>6
    <3> QED
      BY <1>1, <2>1, <3>1, <3>2, <3>3, <3>4, <3>5, <3>6, <3>7 DEF count
  <2>3. container.count = 0 /\ miniFatRun.count = 0 /\ dirRun.count = 0
    BY <1>3 DEF LayoutInv, Unplaced, NoRun, Run
  <2>4. \A m, k \in PlacedLarge' : m < k => start'[m] + LargeRun(m)'.count <= start'[k]
    BY <1>2, <2>1, <2>2 DEF LayoutInv, Apart
  <2>5. \A m \in PlacedLarge' : start'[m] + LargeRun(m)'.count <= sector'
    BY <1>2, <1>3, <2>1, <2>2
  <2> QED
    BY <1>3, <2>3, <2>4, <2>5 DEF Apart, Between, Before
<1>8. Containers' /\ Unplaced' /\ Converging'
  BY <1>3 DEF LayoutInv, Containers, Unplaced, Converging
<1> QED
  BY <1>4, <1>6, <1>7, <1>8 DEF LayoutInv

\* A step that leaves the large streams where they are leaves their runs alone.
LEMMA LargeStay ==
  ASSUME TypeOK, nodes' = nodes, PlacedLarge' = PlacedLarge,
         \A n \in Large : start'[n] = start[n]
  PROVE  \A n \in PlacedLarge :
           /\ start'[n] = start[n] /\ LargeRun(n)'.count = LargeRun(n).count
           /\ start[n] \in Int /\ LargeRun(n).count \in Nat
<1>1. PlacedLarge \subseteq Large
  BY DEF PlacedLarge
<1>2. \A n \in Large : /\ LargeRun(n).count = CeilDiv(nodes[n], SectorSize)
                       /\ LargeRun(n)'.count = CeilDiv(nodes[n], SectorSize)
  BY DEF LargeRun, Run
<1>3. \A n \in Large : start[n] \in Int /\ CeilDiv(nodes[n], SectorSize) \in Nat
  BY Sizes DEF TypeOK, EndOfChain
<1> QED
  BY <1>1, <1>2, <1>3

\* Once all are placed, the large streams stay so.
LEMMA AllPlaced ==
  ASSUME nodes' = nodes,
         \/ pc # "large" /\ pc' # "large"
         \/ todo = {} /\ pc' # "large"
  PROVE  PlacedLarge' = PlacedLarge /\ Large' = Large /\ Mini' = Mini
<1>1. Large' = Large /\ Mini' = Mini
  BY DEF Large, Mini, Streams
<1> QED
  BY <1>1 DEF PlacedLarge

\* The pass over the small streams starts with the large ones in place.
LEMMA LargeDoneKeeps ==
  ASSUME LayoutInv, LargeDone
  PROVE  LayoutInv'
<1>1. /\ pc = "large" /\ todo = {} /\ pc' = "mini" /\ todo' = Mini
      /\ UNCHANGED << nodes, sector, start, miniStream, miniFat,
                      container, miniFatRun, dirRun, fatRun, fat >>
  BY DEF LargeDone
<1>2. PlacedLarge' = PlacedLarge /\ Large' = Large /\ Mini' = Mini
  BY <1>1, AllPlaced
<1>3. \A n \in PlacedLarge : start'[n] = start[n] /\ LargeRun(n)'.count = LargeRun(n).count
  BY <1>1, <1>2, LargeStay DEF LayoutInv
<1>4. TypeOK'
  BY <1>1, Sizes DEF LayoutInv, TypeOK, IsRun, Pcs
<1>5. Apart'
  BY <1>1, <1>2, <1>3 DEF LayoutInv, Apart, Between, Before
<1>6. Containers' /\ InOrder' /\ Unplaced' /\ Converging'
  BY <1>1, <1>2 DEF LayoutInv, Containers, InOrder, Unplaced, Converging
<1> QED
  BY <1>4, <1>5, <1>6 DEF LayoutInv

\* Padding and chaining yield bytes and words.
LEMMA MiniParts ==
  ASSUME NEW n \in Nat, nodes[n] \in Nat, NEW first \in Nat
  PROVE  /\ Padded(Bytes(n), MiniSize) \in Seq(Nat \X Nat)
         /\ [j \in 1 .. CeilDiv(nodes[n], MiniSize) |->
               IF j = CeilDiv(nodes[n], MiniSize) THEN EndOfChain ELSE first + j] \in Seq(Int)
<1> DEFINE count == CeilDiv(nodes[n], MiniSize)
<1>1. MiniSize \in Nat \ {0}
  BY CfbLayoutAssumption DEF CfbLayoutAssumption
<1>2. count \in Nat
  BY <1>1, CeilDivIsNat
<1>3. Bytes(n) \in [1 .. nodes[n] -> Nat \X Nat] /\ Len(Bytes(n)) = nodes[n]
  BY DEF Bytes
<1>4. Zero \in Nat \X Nat
  BY DEF Zero
<1>5. count * MiniSize \in Nat
  BY <1>1, <1>2
<1>6. Padded(Bytes(n), MiniSize) \in [1 .. count * MiniSize -> Nat \X Nat]
  BY <1>3, <1>4 DEF Padded
<1> HIDE DEF count
<1>7. [j \in 1 .. count |-> IF j = count THEN EndOfChain ELSE first + j] \in [1 .. count -> Int]
  BY <1>2 DEF EndOfChain
<1>8. \A k \in Nat : \A S : [1 .. k -> S] \subseteq Seq(S)
  BY SeqDef
<1> QED
  BY <1>2, <1>5, <1>6, <1>7, <1>8 DEF count

\* Placing a small stream touches the start of that stream only.
LEMMA PlaceMiniKeeps ==
  ASSUME LayoutInv, PlaceMini
  PROVE  LayoutInv'
<1>1. PICK n \in Mini : n = Min(todo) /\ n \in todo
  BY Sizes, MinOfSet DEF LayoutInv, InOrder, PlaceMini
<1> DEFINE first == Len(miniFat)
           count == CeilDiv(nodes[n], MiniSize)
           links == [j \in 1 .. count |-> IF j = count THEN EndOfChain ELSE first + j]
<1>2. /\ pc = "mini" /\ todo' = todo \ {n}
      /\ start' = [start EXCEPT ![n] = IF nodes[n] = 0 THEN EndOfChain ELSE first]
      /\ miniStream' = miniStream \o Padded(Bytes(n), MiniSize)
      /\ miniFat' = miniFat \o links
      /\ UNCHANGED << nodes, pc, sector, container, miniFatRun, dirRun, fatRun, fat >>
  BY <1>1 DEF PlaceMini
<1>3. n \in Nat /\ nodes[n] \in Nat /\ first \in Nat /\ n \notin Large
  BY <1>1, Sizes, LenProperties DEF LayoutInv, Containers, Mini
<1>4. Padded(Bytes(n), MiniSize) \in Seq(Nat \X Nat) /\ links \in Seq(Int)
  BY <1>3, MiniParts
<1> HIDE DEF first, count, links
<1>5. Containers'
  BY <1>2, <1>4, ConcatProperties DEF LayoutInv, Containers
<1>6. PlacedLarge' = PlacedLarge /\ Large' = Large /\ Mini' = Mini
  BY <1>2, AllPlaced
<1>7. \A m \in Large : start'[m] = start[m]
  <2>1. Large \subseteq DOMAIN start
    BY Sizes DEF LayoutInv, TypeOK
  <2> QED
    BY <1>2, <1>3, <2>1
<1>8. \A m \in PlacedLarge : start'[m] = start[m] /\ LargeRun(m)'.count = LargeRun(m).count
  BY <1>2, <1>6, <1>7, LargeStay DEF LayoutInv
<1>9. TypeOK'
  BY <1>2, <1>3 DEF LayoutInv, TypeOK, IsRun
<1>10. Apart'
  BY <1>2, <1>6, <1>8 DEF LayoutInv, Apart, Between, Before
<1>11. InOrder' /\ Unplaced' /\ Converging'
  BY <1>2, <1>6 DEF LayoutInv, InOrder, Unplaced, Converging
<1> QED
  BY <1>5, <1>9, <1>10, <1>11 DEF LayoutInv

\* A run placed at the next free sector lies behind everything placed before.
LEMMA FixedRunKeeps ==
  ASSUME LayoutInv, NEW count \in Nat, NEW run,
         run = NoRun \/ run = Run(sector, count),
         pc # "large", pc' # "large",
         sector' = sector + count,
         UNCHANGED << nodes, start >>,
         \/ container' = run /\ miniFatRun' = NoRun /\ dirRun' = NoRun
         \/ miniFatRun' = run /\ dirRun' = NoRun /\ UNCHANGED container
         \/ dirRun' = run /\ UNCHANGED << container, miniFatRun >>
  PROVE  Apart' /\ IsRun(run)
<1>1. PlacedLarge' = PlacedLarge
  BY AllPlaced
<1>2. \A n \in PlacedLarge :
        /\ start'[n] = start[n] /\ LargeRun(n)'.count = LargeRun(n).count
        /\ start[n] \in Int /\ LargeRun(n).count \in Nat
  BY <1>1, LargeStay DEF LayoutInv
<1>3. /\ run.count \in Nat /\ run.start \in Int /\ run.count <= count
      /\ run.count > 0 => run.start = sector
      /\ NoRun.count = 0 /\ sector \in Nat /\ IsRun(run)
      /\ \A r \in {container, miniFatRun} : r.start \in Int /\ r.count \in Nat
  BY DEF LayoutInv, TypeOK, IsRun, NoRun, Run, EndOfChain
<1>4. \A m, n \in PlacedLarge : m < n => start[m] + LargeRun(m).count <= start[n]
  BY DEF LayoutInv, Apart
<1>5. CASE container' = run /\ miniFatRun' = NoRun /\ dirRun' = NoRun
  BY <1>1, <1>2, <1>3, <1>4, <1>5 DEF LayoutInv, Apart, Between, Before
<1>6. CASE miniFatRun' = run /\ dirRun' = NoRun /\ UNCHANGED container
  BY <1>1, <1>2, <1>3, <1>4, <1>6 DEF LayoutInv, Apart, Between, Before
<1>7. CASE dirRun' = run /\ UNCHANGED << container, miniFatRun >>
  BY <1>1, <1>2, <1>3, <1>4, <1>7 DEF LayoutInv, Apart, Between, Before
<1> QED
  BY <1>3, <1>5, <1>6, <1>7

\* The container of the mini stream goes behind the large streams.
LEMMA PlaceContainerKeeps ==
  ASSUME LayoutInv, PlaceContainer
  PROVE  LayoutInv'
<1>1. PICK count : count = CeilDiv(Len(miniStream), SectorSize)
  OBVIOUS
<1>2. PICK run : run = IF miniStream = << >> THEN NoRun ELSE Run(sector, count)
  OBVIOUS
<1>3. /\ pc = "mini" /\ todo = {} /\ pc' = "minifat"
      /\ container' = run /\ sector' = sector + count
      /\ UNCHANGED << nodes, todo, start, miniStream, miniFat, miniFatRun, dirRun, fatRun, fat >>
  BY <1>1, <1>2 DEF PlaceContainer
<1>4. count \in Nat
  BY <1>1, CeilDivIsNat, LenProperties, CfbLayoutAssumption
     DEF LayoutInv, Containers, CfbLayoutAssumption
<1>5. miniFatRun' = NoRun /\ dirRun' = NoRun
  BY <1>3 DEF LayoutInv, Unplaced
<1>6. Apart' /\ IsRun(run)
  BY <1>2, <1>3, <1>4, <1>5, FixedRunKeeps
<1>7. TypeOK'
  BY <1>3, <1>4, <1>6 DEF LayoutInv, TypeOK, IsRun, Pcs
<1>8. Containers' /\ InOrder' /\ Unplaced' /\ Converging'
  BY <1>3, <1>5 DEF LayoutInv, Containers, InOrder, Unplaced, Converging
<1> QED
  BY <1>6, <1>7, <1>8 DEF LayoutInv

\* The mini FAT goes behind the container of the mini stream ...
LEMMA PlaceMiniFatKeeps ==
  ASSUME LayoutInv, PlaceMiniFat
  PROVE  LayoutInv'
<1>1. PICK count : count = CeilDiv(Len(miniFat), FatEntries)
  OBVIOUS
<1>2. PICK run : run = IF miniFat = << >> THEN NoRun ELSE Run(sector, count)
  OBVIOUS
<1>3. /\ pc = "minifat" /\ pc' = "directory"
      /\ miniFatRun' = run /\ sector' = sector + count
      /\ UNCHANGED << nodes, todo, start, miniStream, miniFat, container, dirRun, fatRun, fat >>
  BY <1>1, <1>2 DEF PlaceMiniFat
<1>4. count \in Nat
  BY <1>1, CeilDivIsNat, LenProperties, CfbLayoutAssumption
     DEF LayoutInv, Containers, CfbLayoutAssumption
<1>5. dirRun' = NoRun
  BY <1>3 DEF LayoutInv, Unplaced
<1>6. Apart' /\ IsRun(run)
  BY <1>2, <1>3, <1>4, <1>5, FixedRunKeeps
<1>7. TypeOK'
  BY <1>3, <1>4, <1>6 DEF LayoutInv, TypeOK, IsRun, Pcs
<1>8. Containers' /\ InOrder' /\ Unplaced' /\ Converging'
  BY <1>3, <1>5 DEF LayoutInv, Containers, InOrder, Unplaced, Converging
<1> QED
  BY <1>6, <1>7, <1>8 DEF LayoutInv

\* ... and the directory behind the mini FAT; the FAT loop starts behind it.
LEMMA PlaceDirectoryKeeps ==
  ASSUME LayoutInv, PlaceDirectory
  PROVE  LayoutInv'
<1>1. PICK count : count = CeilDiv(Len(nodes) + 1, DirEntries)
  OBVIOUS
<1>2. PICK run : run = Run(sector, count)
  OBVIOUS
<1>3. /\ pc = "directory" /\ pc' = "converge"
      /\ dirRun' = run /\ sector' = sector + count /\ fatRun' = Run(sector + count, 1)
      /\ UNCHANGED << nodes, todo, start, miniStream, miniFat, container, miniFatRun, fat >>
  BY <1>1, <1>2 DEF PlaceDirectory
<1>4. count \in Nat
  BY <1>1, CeilDivIsNat, Sizes, CfbLayoutAssumption DEF LayoutInv, CfbLayoutAssumption
<1>5. Apart' /\ IsRun(run)
  BY <1>2, <1>3, <1>4, FixedRunKeeps
<1>6. IsRun(fatRun')
  BY <1>3, <1>4 DEF LayoutInv, TypeOK, IsRun, Run
<1>7. TypeOK'
  BY <1>3, <1>4, <1>5, <1>6 DEF LayoutInv, TypeOK, IsRun, Pcs
<1>8. Converging'
  BY <1>3 DEF Converging, Run
<1>9. Containers' /\ InOrder' /\ Unplaced'
  BY <1>3 DEF LayoutInv, Containers, InOrder, Unplaced
<1> QED
  BY <1>5, <1>7, <1>8, <1>9 DEF LayoutInv

\* Steps of the FAT loop and of the second pass place no run of Apart.
LEMMA ApartKept ==
  ASSUME LayoutInv, pc # "large", pc' # "large",
         UNCHANGED << nodes, start, container, miniFatRun, dirRun >>,
         sector' \in Nat, sector <= sector'
  PROVE  Apart'
<1>1. PlacedLarge' = PlacedLarge
  BY AllPlaced
<1>2. \A n \in PlacedLarge :
        /\ start'[n] = start[n] /\ LargeRun(n)'.count = LargeRun(n).count
        /\ start[n] \in Int /\ LargeRun(n).count \in Nat
  BY <1>1, LargeStay DEF LayoutInv
<1>3. \A r \in {container, miniFatRun, dirRun} : r.start \in Int /\ r.count \in Nat
  BY DEF LayoutInv, TypeOK, IsRun, EndOfChain
<1>4. sector \in Nat
  BY DEF LayoutInv, TypeOK
<1>5. \A m, n \in PlacedLarge : m < n => start[m] + LargeRun(m).count <= start[n]
  BY DEF LayoutInv, Apart
<1> QED
  BY <1>1, <1>2, <1>3, <1>4, <1>5 DEF LayoutInv, Apart, Between, Before

\* The loop adds a sector only when the FAT is too small for what it describes.
LEMMA GrowFatKeeps ==
  ASSUME LayoutInv, GrowFat
  PROVE  LayoutInv'
<1>1. /\ pc = "converge" /\ TooSmall
      /\ fatRun' = [fatRun EXCEPT !.count = @ + 1]
      /\ UNCHANGED << nodes, pc, todo, sector, start, miniStream, miniFat,
                      container, miniFatRun, dirRun, fat >>
  BY DEF GrowFat
<1>2. fatRun.start = sector /\ fatRun.count \in Nat /\ sector \in Nat
  BY <1>1 DEF LayoutInv, TypeOK, IsRun, Converging
<1>3. ~Describes(fatRun.count, sector)
  <2>1. FatEntries * fatRun.count \in Nat
    BY <1>2, CfbLayoutAssumption DEF CfbLayoutAssumption
  <2> QED
    BY <1>1, <1>2, <2>1 DEF TooSmall, Describes
<1>4. fatRun'.start = fatRun.start /\ fatRun'.count = fatRun.count + 1 /\ IsRun(fatRun')
  BY <1>1, <1>2 DEF LayoutInv, TypeOK, IsRun
<1>5. Converging'
  <2>1. \A fewer \in 1 .. fatRun.count - 1 : ~Describes(fewer, sector)
    BY <1>1, <1>2 DEF LayoutInv, Converging
  <2>2. \A fewer \in 1 .. fatRun.count : ~Describes(fewer, sector)
    BY <1>2, <1>3, <2>1
  <2>3. \A fewer \in 1 .. fatRun'.count - 1 : ~Describes(fewer, fatRun'.start)
    BY <1>2, <1>4, <2>2
  <2> QED
    BY <1>1, <1>2, <1>4, <2>3 DEF Converging, Describes
<1>6. Apart'
  BY <1>1, <1>2, ApartKept
<1>7. TypeOK' /\ Containers' /\ InOrder' /\ Unplaced'
  BY <1>1, <1>4 DEF LayoutInv, TypeOK, Containers, InOrder, Unplaced, IsRun
<1> QED
  BY <1>5, <1>6, <1>7 DEF LayoutInv

\* The FAT the loop ends with describes every sector, and takes the next ones.
LEMMA PlaceFatKeeps ==
  ASSUME LayoutInv, PlaceFat
  PROVE  LayoutInv'
<1>1. /\ pc = "converge" /\ pc' = "chain" /\ ~TooSmall
      /\ sector' = sector + fatRun.count /\ todo' = Large
      /\ UNCHANGED << nodes, start, miniStream, miniFat, container, miniFatRun, dirRun, fatRun >>
  BY DEF PlaceFat
<1>2. fatRun.start = sector /\ fatRun.count \in Nat /\ sector \in Nat
  BY <1>1 DEF LayoutInv, TypeOK, IsRun, Converging
<1>3. Describes(fatRun.count, fatRun.start)
  <2>1. FatEntries * fatRun.count \in Nat
    BY <1>2, CfbLayoutAssumption DEF CfbLayoutAssumption
  <2> QED
    BY <1>1, <1>2, <2>1 DEF TooSmall, Describes
<1>4. Converging'
  BY <1>1, <1>2, <1>3 DEF LayoutInv, Converging, Describes
<1>5. Apart'
  BY <1>1, <1>2, ApartKept
<1>6. TypeOK' /\ Containers' /\ InOrder' /\ Unplaced'
  BY <1>1, <1>2, Sizes DEF LayoutInv, TypeOK, Containers, InOrder, Unplaced, IsRun, Pcs
<1> QED
  BY <1>4, <1>5, <1>6 DEF LayoutInv

\* The other steps change the FAT words and what is left to do.
LEMMA RestKeeps ==
  ASSUME LayoutInv, FatTooLarge \/ ChainLarge \/ ChainRest
  PROVE  LayoutInv'
<1>1. /\ UNCHANGED << nodes, sector, start, miniStream, miniFat,
                      container, miniFatRun, dirRun, fatRun >>
      /\ todo' \subseteq todo
      /\ \/ pc = "converge" /\ pc' = "error" /\ fatRun.count > MaxFat
         \/ pc = "chain" /\ pc' \in {"chain", "done"}
  BY DEF FatTooLarge, ChainLarge, ChainRest
<1>2. Apart'
  BY <1>1, ApartKept DEF LayoutInv, TypeOK
<1>3. TypeOK' /\ Containers' /\ InOrder' /\ Unplaced'
  BY <1>1 DEF LayoutInv, TypeOK, Containers, InOrder, Unplaced, IsRun, Pcs
<1>4. Converging'
  BY <1>1 DEF LayoutInv, Converging, Describes
<1> QED
  BY <1>2, <1>3, <1>4 DEF LayoutInv

\* In every state of the layout the runs placed so far are apart, and the FAT
\* loop has not passed a size that would do.
THEOREM LayoutInvariant == Spec => []LayoutInv
<1>1. Init => LayoutInv
  <2> SUFFICES ASSUME Init
               PROVE  LayoutInv
    OBVIOUS
  <2>1. PICK m \in 0 .. MaxNodes : nodes \in [1 .. m -> {Storage} \cup 0 .. MaxSize]
    BY DEF Init, Inputs
  <2>2. TypeOK
    BY <2>1 DEF Init, TypeOK, Pcs, IsRun, NoRun, Run, EndOfChain, Large, Streams
  <2>3. Containers
    BY EmptySeq DEF Init, Containers
  <2>4. InOrder /\ Unplaced /\ Apart /\ Converging
    BY DEF Init, InOrder, Unplaced, Apart, Converging, PlacedLarge, Between, Before, NoRun, Run
  <2> QED
    BY <2>2, <2>3, <2>4 DEF LayoutInv
<1>2. LayoutInv /\ [Next]_vars => LayoutInv'
  <2> SUFFICES ASSUME LayoutInv, [Next]_vars
               PROVE  LayoutInv'
    OBVIOUS
  <2>1. CASE PlaceLarge
    BY <2>1, PlaceLargeKeeps
  <2>2. CASE LargeDone
    BY <2>2, LargeDoneKeeps
  <2>3. CASE PlaceMini
    BY <2>3, PlaceMiniKeeps
  <2>4. CASE PlaceContainer
    BY <2>4, PlaceContainerKeeps
  <2>5. CASE PlaceMiniFat
    BY <2>5, PlaceMiniFatKeeps
  <2>6. CASE PlaceDirectory
    BY <2>6, PlaceDirectoryKeeps
  <2>7. CASE GrowFat
    BY <2>7, GrowFatKeeps
  <2>8. CASE PlaceFat
    BY <2>8, PlaceFatKeeps
  <2>9. CASE FatTooLarge \/ ChainLarge \/ ChainRest
    BY <2>9, RestKeeps
  <2>10. CASE UNCHANGED vars
    BY <2>10 DEF vars, LayoutInv, TypeOK, Containers, InOrder, Unplaced, Apart, Converging,
                 PlacedLarge, Large, Mini, Streams, LargeRun, Between, Before, IsRun, Describes
  <2> QED
    BY <2>1, <2>2, <2>3, <2>4, <2>5, <2>6, <2>7, <2>8, <2>9, <2>10 DEF Next
<1> QED
  BY <1>1, <1>2, PTL DEF Spec

\* The variables keep their types.
THEOREM TypeCorrect == Spec => []TypeOK
<1>1. LayoutInv => TypeOK
  BY DEF LayoutInv
<1> QED
  BY <1>1, LayoutInvariant, PTL

\* No sector is given out twice, whatever the streams and the sizes.
THEOREM SectorsApart == Spec => []NoSectorShared
<1>1. LayoutInv => NoSectorShared
  BY ApartIsShared DEF LayoutInv
<1> QED
  BY <1>1, LayoutInvariant, PTL

\* The FAT has exactly as many sectors as it takes to describe the file.
THEOREM FatIsMinimal == Spec => []FatMinimal
<1>1. LayoutInv => FatMinimal
  BY DEF LayoutInv, Converging, FatMinimal
<1> QED
  BY <1>1, LayoutInvariant, PTL

\* assemble gives up only when no FAT that the header can list would do.
THEOREM FailsOnlyBeyond == Spec => []FailsOnlyBeyondDifat
<1>1. LayoutInv => FailsOnlyBeyondDifat
  <2> SUFFICES ASSUME LayoutInv, pc = "error", NEW count \in 1 .. MaxFat
               PROVE  ~Describes(count, sector)
    BY DEF FailsOnlyBeyondDifat
  <2>1. fatRun.start = sector /\ fatRun.count \in Nat /\ MaxFat \in Nat /\ fatRun.count > MaxFat
    BY CfbLayoutAssumption DEF LayoutInv, TypeOK, IsRun, Converging, CfbLayoutAssumption
  <2>2. count \in 1 .. fatRun.count - 1
    BY <2>1
  <2> QED
    BY <2>1, <2>2 DEF LayoutInv, Converging
<1> QED
  BY <1>1, LayoutInvariant, PTL

-----------------------------------------------------------------------------
(***************************************************************************)
(* The finished FAT leaves no sector of the file free and none beyond it   *)
(* taken.                                                                  *)
(***************************************************************************)

\* A run that is placed has the sector.
Owned(s) ==
  \/ \E n \in PlacedLarge : In(s, LargeRun(n))
  \/ In(s, container) \/ In(s, miniFatRun) \/ In(s, dirRun)
  \/ pc \in {"chain", "done"} /\ In(s, fatRun)

\* There is no gap between the runs.
NoGap == \A s \in 0 .. sector - 1 : Owned(s)

\* The words that are filled are those of the runs chained so far.
Filled ==
  /\ pc = "chain" =>
       /\ todo \subseteq Large
       /\ DOMAIN fat \subseteq Nat
       /\ \A s \in DOMAIN fat :
            fat[s] = FreeSect <=> \A n \in Large \ todo : ~In(s, LargeRun(n))
  /\ pc = "done" =>
       /\ DOMAIN fat \subseteq Nat
       /\ \A s \in DOMAIN fat : fat[s] = FreeSect <=> ~Owned(s)

CoverInv == NoGap /\ Filled

-----------------------------------------------------------------------------
\* Nothing takes no sectors.
LEMMA CeilDivOfNothing == ASSUME NEW b \in Nat \ {0} PROVE CeilDiv(0, b) = 0
<1>1. (b - 1) \div b = 0
  OBVIOUS
<1> QED
  BY <1>1 DEF CeilDiv

\* What a large stream owns, it owns after any step that leaves it in place.
LEMMA LargeOwned ==
  ASSUME LayoutInv, nodes' = nodes, PlacedLarge \subseteq PlacedLarge',
         \A n \in PlacedLarge : start'[n] = start[n]
  PROVE  \A s : (\E n \in PlacedLarge : In(s, LargeRun(n)))
                   => \E n \in PlacedLarge' : In(s, LargeRun(n)')
<1>1. \A n \in PlacedLarge : LargeRun(n)' = LargeRun(n)
  BY DEF LargeRun
<1>2. \A s : \A n \in PlacedLarge : In(s, LargeRun(n)) => In(s, LargeRun(n)')
  BY <1>1
<1> QED
  BY <1>2

\* The steps that place no sectors.
LEMMA NoGapStays ==
  ASSUME LayoutInv, NoGap, nodes' = nodes, PlacedLarge \subseteq PlacedLarge',
         \A n \in PlacedLarge : start'[n] = start[n],
         UNCHANGED << sector, container, miniFatRun, dirRun >>,
         pc \in {"chain", "done"} => pc' \in {"chain", "done"} /\ fatRun' = fatRun
  PROVE  NoGap'
<1> SUFFICES ASSUME NEW s \in 0 .. sector - 1
             PROVE  Owned(s)'
  BY DEF NoGap
<1>1. Owned(s)
  BY DEF NoGap
<1>2. CASE \E n \in PlacedLarge : In(s, LargeRun(n))
  BY <1>2, LargeOwned DEF Owned
<1>3. CASE In(s, container) \/ In(s, miniFatRun) \/ In(s, dirRun)
  BY <1>3 DEF Owned, In
<1>4. CASE pc \in {"chain", "done"} /\ In(s, fatRun)
  BY <1>4 DEF Owned, In
<1> QED
  BY <1>1, <1>2, <1>3, <1>4 DEF Owned

-----------------------------------------------------------------------------
\* A large stream takes the next free sectors.
LEMMA PlaceLargeCovers ==
  ASSUME LayoutInv, CoverInv, PlaceLarge
  PROVE  CoverInv'
<1>1. PICK n \in Large : n = Min(todo) /\ n \in todo
  BY Sizes, MinOfSet DEF LayoutInv, InOrder, PlaceLarge
<1> DEFINE count == CeilDiv(nodes[n], SectorSize)
<1>2. /\ start' = [start EXCEPT ![n] = sector] /\ sector' = sector + count
      /\ todo' = todo \ {n} /\ pc = "large" /\ pc' = "large"
      /\ UNCHANGED << nodes, container, miniFatRun, dirRun, fatRun >>
  BY <1>1 DEF PlaceLarge
<1>3. count \in Nat /\ sector \in Nat /\ DOMAIN start = DOMAIN nodes /\ Large \subseteq DOMAIN nodes
  BY Sizes DEF LayoutInv, TypeOK
<1> HIDE DEF count
<1>4. Large' = Large
  BY <1>2 DEF Large, Streams
<1>5. PlacedLarge' = PlacedLarge \cup {n} /\ n \notin PlacedLarge /\ PlacedLarge \subseteq Large
  BY <1>1, <1>2, <1>4 DEF PlacedLarge
<1>6. start'[n] = sector /\ \A m \in PlacedLarge : start'[m] = start[m]
  BY <1>1, <1>2, <1>3, <1>5
<1>7. LargeRun(n)' = Run(sector, count)
  BY <1>2, <1>6 DEF LargeRun, count
<1> SUFFICES ASSUME NEW s \in 0 .. sector' - 1
             PROVE  Owned(s)'
  BY <1>2 DEF CoverInv, NoGap, Filled
<1>8. CASE s < sector
  <2>1. Owned(s)
    BY <1>3, <1>8 DEF CoverInv, NoGap
  <2>2. CASE \E m \in PlacedLarge : In(s, LargeRun(m))
    BY <1>2, <1>5, <1>6, <2>2, LargeOwned DEF Owned
  <2>3. CASE In(s, container) \/ In(s, miniFatRun) \/ In(s, dirRun)
    BY <1>2, <2>3 DEF Owned, In
  <2> QED
    BY <1>2, <2>1, <2>2, <2>3 DEF Owned
<1>9. CASE s >= sector
  <2>1. In(s, LargeRun(n)')
    BY <1>2, <1>3, <1>7, <1>9 DEF In, Run
  <2> QED
    BY <1>5, <2>1 DEF Owned
<1> QED
  BY <1>2, <1>3, <1>8, <1>9

\* A run placed at the next free sector, or no run if it has no sectors.
LEMMA FixedRunCovers ==
  ASSUME LayoutInv, NoGap, NEW count \in Nat, NEW run,
         run = Run(sector, count) \/ (run = NoRun /\ count = 0),
         pc \notin {"large", "chain", "done"}, pc' # "large",
         sector' = sector + count,
         UNCHANGED << nodes, start >>,
         \/ /\ container = NoRun /\ miniFatRun = NoRun /\ dirRun = NoRun
            /\ container' = run /\ UNCHANGED << miniFatRun, dirRun >>
         \/ /\ miniFatRun = NoRun /\ dirRun = NoRun
            /\ miniFatRun' = run /\ UNCHANGED << container, dirRun >>
         \/ dirRun = NoRun /\ dirRun' = run /\ UNCHANGED << container, miniFatRun >>
  PROVE  NoGap'
<1> SUFFICES ASSUME NEW s \in 0 .. sector' - 1
             PROVE  Owned(s)'
  BY DEF NoGap
<1>1. PlacedLarge' = PlacedLarge
  BY AllPlaced
<1>2. sector \in Nat /\ s \in Nat
  BY DEF LayoutInv, TypeOK
<1>3. ~In(s, NoRun)
  BY <1>2 DEF In, NoRun, Run, EndOfChain
<1>4. CASE s < sector
  <2>1. Owned(s)
    BY <1>2, <1>4 DEF NoGap
  <2>2. CASE \E n \in PlacedLarge : In(s, LargeRun(n))
    BY <1>1, <2>2, LargeOwned DEF Owned
  <2>3. CASE In(s, container) \/ In(s, miniFatRun) \/ In(s, dirRun)
    BY <1>3, <2>3, Zenon DEF Owned
  <2> QED
    BY <2>1, <2>2, <2>3 DEF Owned
<1>5. CASE s >= sector
  <2>1. In(s, run)
    BY <1>2, <1>5 DEF In, Run
  <2> QED
    BY <2>1, Zenon DEF Owned
<1> QED
  BY <1>2, <1>4, <1>5

\* The mini stream, the mini FAT and the directory take the next free sectors.
LEMMA FixedRunsCover ==
  ASSUME LayoutInv, CoverInv, PlaceContainer \/ PlaceMiniFat \/ PlaceDirectory
  PROVE  CoverInv'
<1>1. SectorSize \in Nat \ {0} /\ FatEntries \in Nat \ {0} /\ DirEntries \in Nat \ {0}
  BY CfbLayoutAssumption DEF CfbLayoutAssumption
<1>2. Filled'
  BY DEF PlaceContainer, PlaceMiniFat, PlaceDirectory, Filled
<1>3. CASE PlaceContainer
  <2> DEFINE count == CeilDiv(Len(miniStream), SectorSize)
             run == IF miniStream = << >> THEN NoRun ELSE Run(sector, count)
  <2>1. /\ pc = "mini" /\ pc' = "minifat" /\ container' = run /\ sector' = sector + count
        /\ UNCHANGED << nodes, start, miniFatRun, dirRun >>
    BY <1>3 DEF PlaceContainer
  <2>2. count \in Nat
    BY <1>1, CeilDivIsNat, LenProperties DEF LayoutInv, Containers
  <2>3. run = Run(sector, count) \/ (run = NoRun /\ count = 0)
    BY <1>1, CeilDivOfNothing
  <2>4. container = NoRun /\ miniFatRun = NoRun /\ dirRun = NoRun
    BY <2>1 DEF LayoutInv, Unplaced
  <2> HIDE DEF count, run
  <2>5. NoGap'
    BY <2>1, <2>2, <2>3, <2>4, FixedRunCovers DEF CoverInv
  <2> QED
    BY <1>2, <2>5 DEF CoverInv
<1>4. CASE PlaceMiniFat
  <2> DEFINE count == CeilDiv(Len(miniFat), FatEntries)
             run == IF miniFat = << >> THEN NoRun ELSE Run(sector, count)
  <2>1. /\ pc = "minifat" /\ pc' = "directory" /\ miniFatRun' = run /\ sector' = sector + count
        /\ UNCHANGED << nodes, start, container, dirRun >>
    BY <1>4 DEF PlaceMiniFat
  <2>2. count \in Nat
    BY <1>1, CeilDivIsNat, LenProperties DEF LayoutInv, Containers
  <2>3. run = Run(sector, count) \/ (run = NoRun /\ count = 0)
    BY <1>1, CeilDivOfNothing
  <2>4. miniFatRun = NoRun /\ dirRun = NoRun
    BY <2>1 DEF LayoutInv, Unplaced
  <2> HIDE DEF count, run
  <2>5. NoGap'
    BY <2>1, <2>2, <2>3, <2>4, FixedRunCovers DEF CoverInv
  <2> QED
    BY <1>2, <2>5 DEF CoverInv
<1>5. CASE PlaceDirectory
  <2> DEFINE count == CeilDiv(Len(nodes) + 1, DirEntries)
             run == Run(sector, count)
  <2>1. /\ pc = "directory" /\ pc' = "converge" /\ dirRun' = run /\ sector' = sector + count
        /\ UNCHANGED << nodes, start, container, miniFatRun >>
    BY <1>5 DEF PlaceDirectory
  <2>2. count \in Nat
    BY <1>1, CeilDivIsNat, Sizes DEF LayoutInv
  <2>3. dirRun = NoRun
    BY <2>1 DEF LayoutInv, Unplaced
  <2> HIDE DEF count, run
  <2>4. NoGap'
    BY <2>1, <2>2, <2>3, FixedRunCovers DEF CoverInv, run
  <2> QED
    BY <1>2, <2>4 DEF CoverInv
<1> QED
  BY <1>3, <1>4, <1>5

-----------------------------------------------------------------------------
\* The FAT takes the last sectors of the file; no word of it is filled yet.
LEMMA PlaceFatCovers ==
  ASSUME LayoutInv, CoverInv, PlaceFat
  PROVE  CoverInv'
<1>1. /\ pc = "converge" /\ pc' = "chain" /\ todo' = Large
      /\ sector' = sector + fatRun.count
      /\ fat' = [s \in 0 .. FatEntries * fatRun.count - 1 |-> FreeSect]
      /\ UNCHANGED << nodes, start, container, miniFatRun, dirRun, fatRun >>
  BY DEF PlaceFat
<1>2. fatRun.start = sector /\ fatRun.count \in Nat /\ sector \in Nat
  BY <1>1 DEF LayoutInv, TypeOK, IsRun, Converging
<1>3. PlacedLarge' = PlacedLarge /\ Large' = Large
  BY <1>1, AllPlaced
<1>4. NoGap'
  <2> SUFFICES ASSUME NEW s \in 0 .. sector' - 1
               PROVE  Owned(s)'
    BY DEF NoGap
  <2>1. CASE s < sector
    <3>1. Owned(s)
      BY <1>2, <2>1 DEF CoverInv, NoGap
    <3>2. CASE \E n \in PlacedLarge : In(s, LargeRun(n))
      BY <1>1, <1>3, <3>2, LargeOwned DEF Owned
    <3>3. CASE In(s, container) \/ In(s, miniFatRun) \/ In(s, dirRun)
      BY <1>1, <3>3 DEF Owned, In
    <3> QED
      BY <1>1, <3>1, <3>2, <3>3 DEF Owned
  <2>2. CASE s >= sector
    BY <1>1, <1>2, <2>2 DEF Owned, In
  <2> QED
    BY <1>1, <1>2, <2>1, <2>2
<1>5. Filled'
  <2>1. DOMAIN fat' \subseteq Nat /\ \A s \in DOMAIN fat' : fat'[s] = FreeSect
    BY <1>1
  <2>2. todo' \subseteq Large' /\ Large' \ todo' = {}
    BY <1>1, <1>3
  <2> QED
    BY <1>1, <2>1, <2>2 DEF Filled
<1> QED
  BY <1>4, <1>5 DEF CoverInv

\* chainRun fills the words of its run and no others.
LEMMA ChainedFills ==
  ASSUME NEW f, DOMAIN f \subseteq Nat, NEW run, NEW s \in DOMAIN f
  PROVE  /\ s \in DOMAIN Chained(f, run) /\ DOMAIN Chained(f, run) = DOMAIN f
         /\ Chained(f, run)[s] = FreeSect <=> f[s] = FreeSect /\ ~In(s, run)
<1>1. s \in Nat
  OBVIOUS
<1>2. s + 1 # FreeSect /\ EndOfChain # FreeSect
  BY <1>1 DEF FreeSect, EndOfChain
<1> QED
  BY <1>2 DEF Chained

LEMMA ChainLargeCovers ==
  ASSUME LayoutInv, CoverInv, ChainLarge
  PROVE  CoverInv'
<1>1. todo \subseteq Large /\ todo # {} /\ pc = "chain" /\ pc' = "chain" /\ DOMAIN fat \subseteq Nat
  BY DEF ChainLarge, CoverInv, Filled
<1>2. PICK n \in Large : n = Min(todo) /\ n \in todo
  BY <1>1, Sizes, MinOfSet DEF LayoutInv
<1>3. /\ fat' = Chained(fat, LargeRun(n)) /\ todo' = todo \ {n}
      /\ UNCHANGED << nodes, sector, start, container, miniFatRun, dirRun, fatRun >>
  BY <1>2 DEF ChainLarge
<1>4. PlacedLarge' = PlacedLarge /\ Large' = Large
  BY <1>1, <1>3, AllPlaced
<1>5. NoGap'
  BY <1>1, <1>3, <1>4, NoGapStays DEF CoverInv
<1>6. \A m : LargeRun(m)' = LargeRun(m)
  BY <1>3 DEF LargeRun
<1>7. DOMAIN fat' = DOMAIN fat
  BY <1>3 DEF Chained
<1>8. \A s \in DOMAIN fat' :
        fat'[s] = FreeSect <=> \A m \in Large' \ todo' : ~In(s, LargeRun(m)')
  <2> SUFFICES ASSUME NEW s \in DOMAIN fat
               PROVE  fat'[s] = FreeSect <=> \A m \in Large \ todo' : ~In(s, LargeRun(m))
    BY <1>4, <1>6, <1>7
  <2>1. fat[s] = FreeSect <=> \A m \in Large \ todo : ~In(s, LargeRun(m))
    BY <1>1 DEF CoverInv, Filled
  <2>2. fat'[s] = FreeSect <=> fat[s] = FreeSect /\ ~In(s, LargeRun(n))
    BY <1>1, <1>3, ChainedFills
  <2>3. Large \ todo' = (Large \ todo) \cup {n}
    BY <1>2, <1>3
  <2> QED
    BY <2>1, <2>2, <2>3
<1>9. Filled'
  BY <1>1, <1>3, <1>4, <1>7, <1>8 DEF Filled
<1> QED
  BY <1>5, <1>9 DEF CoverInv

LEMMA ChainRestCovers ==
  ASSUME LayoutInv, CoverInv, ChainRest
  PROVE  CoverInv'
<1> DEFINE one   == Chained(fat, container)
           two   == Chained(one, miniFatRun)
           three == Chained(two, dirRun)
<1>1. /\ pc = "chain" /\ pc' = "done" /\ todo = {} /\ DOMAIN fat \subseteq Nat
      /\ fat' = [s \in DOMAIN fat |-> IF In(s, fatRun) THEN FatSect ELSE three[s]]
      /\ UNCHANGED << nodes, sector, start, container, miniFatRun, dirRun, fatRun >>
  BY DEF ChainRest, CoverInv, Filled
<1>2. PlacedLarge' = PlacedLarge /\ Large' = Large /\ PlacedLarge = Large
  BY <1>1, AllPlaced DEF PlacedLarge
<1>3. NoGap'
  BY <1>1, <1>2, NoGapStays DEF CoverInv
<1>4. \A m : LargeRun(m)' = LargeRun(m)
  BY <1>1 DEF LargeRun
<1>5. \A s \in DOMAIN fat : fat'[s] = FreeSect <=> ~Owned(s)'
  <2> SUFFICES ASSUME NEW s \in DOMAIN fat
               PROVE  fat'[s] = FreeSect <=> ~Owned(s)'
    OBVIOUS
  <2>1. DOMAIN one = DOMAIN fat /\ DOMAIN two = DOMAIN fat
    BY DEF Chained
  <2>2. one[s] = FreeSect <=> fat[s] = FreeSect /\ ~In(s, container)
    BY <1>1, ChainedFills
  <2> HIDE DEF one
  <2>3. two[s] = FreeSect <=> one[s] = FreeSect /\ ~In(s, miniFatRun)
    BY <1>1, <2>1, ChainedFills
  <2> HIDE DEF two
  <2>4. three[s] = FreeSect <=> two[s] = FreeSect /\ ~In(s, dirRun)
    BY <1>1, <2>1, ChainedFills
  <2> HIDE DEF three
  <2>5. fat'[s] = FreeSect <=> three[s] = FreeSect /\ ~In(s, fatRun)
    BY <1>1 DEF FatSect, FreeSect
  <2>6. fat[s] = FreeSect <=> \A n \in Large : ~In(s, LargeRun(n))
    BY <1>1 DEF CoverInv, Filled
  <2>7. Owned(s)' <=> \/ \E n \in Large : In(s, LargeRun(n))
                      \/ In(s, container) \/ In(s, miniFatRun) \/ In(s, dirRun)
                      \/ In(s, fatRun)
    BY <1>1, <1>2, <1>4 DEF Owned, In
  <2> QED
    BY <2>2, <2>3, <2>4, <2>5, <2>6, <2>7
<1>6. Filled'
  BY <1>1, <1>5 DEF Filled
<1> QED
  BY <1>3, <1>6 DEF CoverInv

\* The other steps place no run and fill no word.
LEMMA OthersCover ==
  ASSUME LayoutInv, CoverInv,
         LargeDone \/ PlaceMini \/ GrowFat \/ FatTooLarge \/ UNCHANGED vars
  PROVE  CoverInv'
<1>1. /\ UNCHANGED << nodes, sector, container, miniFatRun, dirRun, fat >>
      /\ UNCHANGED << pc, todo, start, fatRun >> \/ pc' \notin {"chain", "done"}
      /\ pc \in {"chain", "done"} => pc' \in {"chain", "done"} /\ fatRun' = fatRun
  BY DEF LargeDone, PlaceMini, GrowFat, FatTooLarge, vars
<1>2. PlacedLarge' = PlacedLarge /\ Large' = Large
  BY DEF LargeDone, PlaceMini, GrowFat, FatTooLarge, vars, PlacedLarge, Large, Streams
<1>3. \A n \in PlacedLarge : start'[n] = start[n]
  <2>1. CASE PlaceMini
    <3>1. PICK n \in Mini : n = Min(todo) /\ n \in todo
      BY <2>1, Sizes, MinOfSet DEF LayoutInv, InOrder, PlaceMini
    <3>2. \A m : m # n => start'[m] = start[m]
      BY <2>1, <3>1 DEF PlaceMini
    <3> QED
      BY <3>1, <3>2 DEF PlacedLarge, Mini
  <2> QED
    BY <2>1 DEF LargeDone, GrowFat, FatTooLarge, vars
<1>4. NoGap'
  BY <1>1, <1>2, <1>3, NoGapStays DEF CoverInv
<1>5. CASE UNCHANGED << pc, todo, start, fatRun >>
  <2>1. \A m : LargeRun(m)' = LargeRun(m)
    BY <1>1, <1>5 DEF LargeRun
  <2>2. \A s : Owned(s)' <=> Owned(s)
    BY <1>1, <1>2, <1>5, <2>1 DEF Owned, In
  <2>3. Filled'
    BY <1>1, <1>2, <1>5, <2>1, <2>2 DEF CoverInv, Filled
  <2> QED
    BY <1>4, <2>3 DEF CoverInv
<1>6. CASE pc' \notin {"chain", "done"}
  BY <1>4, <1>6 DEF CoverInv, Filled
<1> QED
  BY <1>1, <1>5, <1>6

-----------------------------------------------------------------------------
\* At every step of assemble the sectors given out so far all belong to a run,
\* and the FAT has a word for exactly the runs that were chained.
THEOREM CoverInvariant == Spec => []CoverInv
<1>1. Init => CoverInv
  BY DEF Init, CoverInv, NoGap, Filled
<1>2. LayoutInv /\ CoverInv /\ [Next]_vars => CoverInv'
  <2> SUFFICES ASSUME LayoutInv, CoverInv, [Next]_vars
               PROVE  CoverInv'
    OBVIOUS
  <2>1. CASE PlaceLarge
    BY <2>1, PlaceLargeCovers
  <2>2. CASE PlaceContainer \/ PlaceMiniFat \/ PlaceDirectory
    BY <2>2, FixedRunsCover
  <2>3. CASE PlaceFat
    BY <2>3, PlaceFatCovers
  <2>4. CASE ChainLarge
    BY <2>4, ChainLargeCovers
  <2>5. CASE ChainRest
    BY <2>5, ChainRestCovers
  <2>6. CASE LargeDone \/ PlaceMini \/ GrowFat \/ FatTooLarge \/ UNCHANGED vars
    BY <2>6, OthersCover
  <2> QED
    BY <2>1, <2>2, <2>3, <2>4, <2>5, <2>6 DEF Next
<1> QED
  BY <1>1, <1>2, LayoutInvariant, PTL DEF Spec

\* No sector of the file is free in its FAT and none beyond it is taken: a
\* writer that appends to the file neither loses nor overwrites anything.
THEOREM FatCovers == Spec => []FatCoversFile
<1>1. LayoutInv /\ CoverInv => FatCoversFile
  <2> SUFFICES ASSUME LayoutInv, CoverInv, pc = "done", NEW s \in DOMAIN fat
               PROVE  fat[s] = FreeSect <=> s >= sector
    BY DEF FatCoversFile
  <2>1. s \in Nat /\ sector \in Nat /\ (fat[s] = FreeSect <=> ~Owned(s))
    BY DEF CoverInv, Filled, LayoutInv, TypeOK
  <2>2. s < sector => Owned(s)
    BY <2>1 DEF CoverInv, NoGap
  <2>3. Owned(s) => s < sector
    <3>1. \A r \in {container, miniFatRun, dirRun, fatRun} : r.start \in Int /\ r.count \in Nat
      BY DEF LayoutInv, TypeOK, IsRun, EndOfChain
    <3>2. \A r \in {container, miniFatRun, dirRun} : In(s, r) => s < sector
      BY <2>1, <3>1 DEF LayoutInv, Apart, Between, In
    <3>3. In(s, fatRun) => s < sector
      BY <2>1, <3>1 DEF LayoutInv, Converging, In
    <3>4. \A n \in PlacedLarge : In(s, LargeRun(n)) => s < sector
      <4> SUFFICES ASSUME NEW n \in PlacedLarge, In(s, LargeRun(n))
                   PROVE  s < sector
        OBVIOUS
      <4>1. n \in Large /\ n \in DOMAIN nodes /\ CeilDiv(nodes[n], SectorSize) \in Nat
        BY Sizes DEF LayoutInv, PlacedLarge
      <4>2. start[n] \in Int /\ LargeRun(n).start = start[n] /\ LargeRun(n).count \in Nat
        BY <4>1 DEF LayoutInv, TypeOK, EndOfChain, LargeRun, Run
      <4>3. start[n] + LargeRun(n).count <= sector
        BY DEF LayoutInv, Apart
      <4> QED
        BY <2>1, <4>2, <4>3 DEF In
    <3> QED
      BY <3>2, <3>3, <3>4 DEF Owned
  <2> QED
    BY <2>1, <2>2, <2>3
<1> QED
  BY <1>1, CoverInvariant, LayoutInvariant, PTL

-----------------------------------------------------------------------------
(***************************************************************************)
(* What the reader walks.                                                  *)
(***************************************************************************)

\* Numbers are compared in the reader as in the writer.
LEMMA ReaderNumbers ==
  /\ \A S : Reader!Min(S) = Min(S)
  /\ \A S : Reader!Cardinality(S) = Cardinality(S)
<1>1. \A S : Reader!Min(S) = Min(S)
  BY DEF Reader!Min, Min
<1>2. \A S : Reader!Cardinality(S) = Cardinality(S)
  BY DEF Reader!Cardinality, Cardinality, Reader!IsFiniteSet, IsFiniteSet
<1> QED
  BY <1>1, <1>2

\* A set of numbers has one least element.
LEMMA MinIs ==
  ASSUME NEW T \in SUBSET Nat, NEW m \in T, \A y \in T : m <= y
  PROVE  Reader!Min(T) = m
<1>1. Min(T) \in T /\ \A y \in T : Min(T) <= y
  BY MinOfSet
<1>2. Min(T) \in Nat /\ m \in Nat /\ Min(T) <= m /\ m <= Min(T)
  BY <1>1
<1> QED
  BY <1>2, ReaderNumbers

\* The successors of count numbers from first on: each is followed by the next.
IsChain(succ, first, count) ==
  \A s \in first .. first + count - 1 :
    /\ s \in DOMAIN succ
    /\ succ[s] = IF s = first + count - 1 THEN EndOfChain ELSE s + 1

\* The reader walks a run from its first sector to its last, in order.
LEMMA WalkedRun ==
  ASSUME NEW succ, IsFiniteSet(DOMAIN succ), EndOfChain \notin DOMAIN succ,
         NEW first \in Nat, NEW count \in Nat \ {0}, IsChain(succ, first, count)
  PROVE  Reader!Walked(succ, first) = [i \in 1 .. count |-> first + i - 1]
<1> DEFINE c == Reader!Cardinality(DOMAIN succ)
           Next1(a) == IF a \in DOMAIN succ THEN succ[a] ELSE a
           Walk(f) == f = [n \in 0 .. c |-> IF n = 0 THEN first ELSE Next1(f[n - 1])]
           g == [n \in 0 .. c |-> IF n < count THEN first + n ELSE EndOfChain]
           at == CHOOSE f : Walk(f)
           stops == {n \in DOMAIN at : \/ at[n] \notin DOMAIN succ
                                       \/ \E m \in 0 .. n - 1 : at[m] = at[n]}
<1>1. c \in Nat /\ count <= c
  <2>1. first .. first + count - 1 \subseteq DOMAIN succ
    BY DEF IsChain
  <2>2. Cardinality(first .. first + count - 1) = count
    BY FS_Interval
  <2>3. Cardinality(DOMAIN succ) \in Nat /\ count <= Cardinality(DOMAIN succ)
    BY <2>1, <2>2, FS_Subset, FS_CardinalityType
  <2> QED
    BY <2>3, ReaderNumbers
<1>2. Reader!Walked(succ, first) = [i \in 1 .. Reader!Min(stops) |-> at[i - 1]]
  BY DEF Reader!Walked
<1> HIDE DEF c
<1>3. Walk(g)
  <2>1. \A n \in 0 .. c : g[n] = IF n = 0 THEN first ELSE Next1(g[n - 1])
    <3> SUFFICES ASSUME NEW n \in 0 .. c
                 PROVE  g[n] = IF n = 0 THEN first ELSE Next1(g[n - 1])
      OBVIOUS
    <3>1. CASE n = 0
      BY <3>1
    <3>2. CASE n > 0 /\ n <= count
      <4>1. n - 1 \in 0 .. c /\ n - 1 < count /\ g[n - 1] = first + n - 1
        BY <1>1, <3>2
      <4>2. /\ first + n - 1 \in DOMAIN succ
            /\ succ[first + n - 1] = IF n = count THEN EndOfChain ELSE first + n
        BY <3>2 DEF IsChain
      <4> QED
        BY <3>2, <4>1, <4>2
    <3>3. CASE n > count
      <4>1. n - 1 \in 0 .. c /\ ~(n - 1 < count) /\ ~(n < count) /\ n # 0
        BY <1>1, <3>3
      <4>2. g[n - 1] = EndOfChain /\ g[n] = EndOfChain
        BY <4>1
      <4> QED
        BY <4>1, <4>2
    <3> QED
      BY <1>1, <3>1, <3>2, <3>3
  <2> QED
    BY <2>1
<1>4. Walk(at)
  <2> HIDE DEF Walk, g
  <2> QED
    BY <1>3
<1>5. DOMAIN at = 0 .. c /\ \A n \in 0 .. c : at[n] = IF n = 0 THEN first ELSE Next1(at[n - 1])
  <2> HIDE DEF Next1, at
  <2> QED
    BY <1>4
<1>6. DOMAIN g = 0 .. c /\ \A n \in 0 .. c : g[n] = IF n = 0 THEN first ELSE Next1(g[n - 1])
  <2> HIDE DEF Next1, g
  <2> QED
    BY <1>3
<1>7. \A n \in 0 .. c : at[n] = g[n]
  <2> HIDE DEF at, g, Next1
  <2> DEFINE Bad == {n \in 0 .. c : at[n] # g[n]}
  <2> SUFFICES ASSUME Bad # {}
               PROVE  FALSE
    OBVIOUS
  <2>1. Bad \in SUBSET Nat
    OBVIOUS
  <2>2. PICK n \in Bad : \A y \in Bad : n <= y
    BY <2>1, MinOfSet
  <2>3. n \in 0 .. c /\ at[n] # g[n]
    BY <2>2
  <2>4. n # 0
    BY <1>5, <1>6, <2>3
  <2>5. n - 1 \in 0 .. c /\ n - 1 \notin Bad
    BY <1>1, <2>2, <2>3, <2>4
  <2>6. at[n - 1] = g[n - 1]
    BY <2>5
  <2> QED
    BY <1>5, <1>6, <2>3, <2>4, <2>6
<1>8. \A n \in 0 .. c : at[n] = IF n < count THEN first + n ELSE EndOfChain
  <2> HIDE DEF at
  <2> QED
    BY <1>7
<1> HIDE DEF at
<1>9. stops \in SUBSET Nat /\ count \in stops
  BY <1>1, <1>5, <1>8
<1>10. \A y \in stops : count <= y
  <2> SUFFICES ASSUME NEW y \in stops, y < count
               PROVE  FALSE
    BY <1>9
  <2>1. y \in 0 .. c /\ at[y] = first + y /\ first + y \in DOMAIN succ
    BY <1>1, <1>5, <1>8 DEF IsChain
  <2>2. PICK m \in 0 .. y - 1 : at[m] = at[y]
    BY <2>1
  <2>3. at[m] = first + m
    BY <1>1, <1>8, <2>1
  <2> QED
    BY <2>1, <2>2, <2>3
<1>11. Reader!Min(stops) = count
  <2> HIDE DEF stops
  <2> QED
    BY <1>9, <1>10, MinIs
<1> HIDE DEF stops
<1>12. \A i \in 1 .. count : at[i - 1] = first + i - 1
  BY <1>1, <1>8
<1> QED
  BY <1>2, <1>11, <1>12

\* The reader walks nowhere from a number that has no successor.
LEMMA WalkedNowhere ==
  ASSUME NEW succ, IsFiniteSet(DOMAIN succ), NEW first, first \notin DOMAIN succ
  PROVE  Reader!Walked(succ, first) = << >>
<1> DEFINE c == Reader!Cardinality(DOMAIN succ)
           Next1(a) == IF a \in DOMAIN succ THEN succ[a] ELSE a
           Walk(f) == f = [n \in 0 .. c |-> IF n = 0 THEN first ELSE Next1(f[n - 1])]
           g == [n \in 0 .. c |-> first]
           at == CHOOSE f : Walk(f)
           stops == {n \in DOMAIN at : \/ at[n] \notin DOMAIN succ
                                       \/ \E m \in 0 .. n - 1 : at[m] = at[n]}
<1>1. c \in Nat
  BY FS_CardinalityType, ReaderNumbers
<1>2. Reader!Walked(succ, first) = [i \in 1 .. Reader!Min(stops) |-> at[i - 1]]
  BY DEF Reader!Walked
<1> HIDE DEF c
<1>3. Walk(g)
  <2>1. \A n \in 0 .. c : n # 0 => n - 1 \in 0 .. c
    BY <1>1
  <2> QED
    BY <2>1
<1>4. Walk(at)
  <2> HIDE DEF Walk, g
  <2> QED
    BY <1>3
<1>5. DOMAIN at = 0 .. c /\ at[0] = first
  <2> HIDE DEF Next1, at
  <2> QED
    BY <1>1, <1>4
<1> HIDE DEF at
<1>6. stops \in SUBSET Nat /\ 0 \in stops /\ \A y \in stops : 0 <= y
  BY <1>1, <1>5
<1>7. Reader!Min(stops) = 0
  <2> HIDE DEF stops
  <2> QED
    BY <1>6, MinIs
<1> HIDE DEF stops
<1> QED
  BY <1>2, <1>7

-----------------------------------------------------------------------------
(***************************************************************************)
(* Units of bytes, words and entries.                                      *)
(***************************************************************************)

\* A quotient and its remainder within a number of units.
LEMMA Divided ==
  ASSUME NEW u \in Nat \ {0}, NEW count \in Nat, NEW n \in 0 .. count * u - 1
  PROVE  /\ n \div u \in 0 .. count - 1 /\ n % u \in 0 .. u - 1
         /\ n = (n \div u) * u + (n % u)
<1>1. n \in Nat /\ count * u \in Nat
  OBVIOUS
<1>2. n \div u \in Nat /\ n % u \in 0 .. u - 1 /\ n = u * (n \div u) + (n % u)
  BY <1>1
<1> DEFINE q == n \div u
           r == n % u
<1>3. q \in Nat /\ r \in 0 .. u - 1 /\ n = u * q + r
  BY <1>2
<1> HIDE DEF q, r
<1>4. u * q = q * u
  BY <1>3
<1>5. q < count
  <2> SUFFICES ASSUME q >= count
               PROVE  FALSE
    BY <1>3
  <2>1. u * q >= u * count /\ u * count = count * u
    BY <1>3
  <2> QED
    BY <1>1, <1>3, <2>1
<1> QED
  BY <1>3, <1>4, <1>5 DEF q, r

\* Enough units for all bytes, and none without a byte.
LEMMA CeilDivCovers ==
  ASSUME NEW a \in Nat, NEW b \in Nat \ {0}
  PROVE  /\ CeilDiv(a, b) \in Nat /\ CeilDiv(a, b) * b \in Nat /\ a <= CeilDiv(a, b) * b
         /\ a > 0 => CeilDiv(a, b) > 0
<1> DEFINE t == a + b - 1
           q == t \div b
           r == t % b
<1>1. t \in Nat
  OBVIOUS
<1> HIDE DEF t
<1>2. q \in Nat /\ r \in 0 .. b - 1 /\ t = b * q + r
  BY <1>1
<1>3. CeilDiv(a, b) = q
  BY DEF CeilDiv, t
<1> HIDE DEF q, r
<1>4. b * q = q * b /\ q * b \in Nat
  BY <1>2
<1>5. a <= q * b
  BY <1>2, <1>4 DEF t
<1>6. a > 0 => q > 0
  BY <1>2, <1>4, <1>5
<1> QED
  BY <1>2, <1>3, <1>4, <1>5, <1>6

\* Where the i-th of count units begins and ends.
LEMMA Units ==
  ASSUME NEW u \in Nat, NEW count \in Nat, NEW i \in 1 .. count
  PROVE  /\ (i - 1) * u \in Nat /\ i * u \in Nat /\ count * u \in Nat
         /\ (i - 1) * u + u = i * u /\ i * u <= count * u
<1>1. i * u \in Nat /\ count * u \in Nat /\ (i - 1) * u \in Nat
  OBVIOUS
<1>2. (i - 1) * u + u = i * u
  OBVIOUS
<1>3. i * u <= count * u
  <2>1. count * u = i * u + (count - i) * u
    OBVIOUS
  <2>2. (count - i) * u \in Nat
    OBVIOUS
  <2> QED
    BY <1>1, <2>1, <2>2
<1> QED
  BY <1>1, <1>2, <1>3

\* Put together in order, the parts of a sequence are the sequence.
LEMMA FlattenParts ==
  ASSUME NEW S, NEW whole \in Seq(S), NEW u \in Nat, NEW count \in Nat \ {0},
         Len(whole) = count * u,
         NEW parts, parts = [i \in 1 .. count |-> Part(whole, u, i - 1)]
  PROVE  Reader!FlattenSeq(parts) = whole
<1> DEFINE Flat(f) == f = [i \in 1 .. Len(parts) |-> IF i = 1 THEN parts[i] ELSE f[i - 1] \o parts[i]]
           g == [i \in 1 .. count |-> SubSeq(whole, 1, i * u)]
           flatten == CHOOSE f : Flat(f)
<1>1. Len(parts) = count
  OBVIOUS
<1>2. Reader!FlattenSeq(parts) = flatten[count]
  BY <1>1 DEF Reader!FlattenSeq
<1>3. \A i \in 1 .. count : parts[i] = SubSeq(whole, (i - 1) * u + 1, i * u)
  BY DEF Part
<1>4. \A i \in 1 .. count : g[i] = IF i = 1 THEN parts[i] ELSE g[i - 1] \o parts[i]
  <2> SUFFICES ASSUME NEW i \in 1 .. count
               PROVE  g[i] = IF i = 1 THEN parts[i] ELSE g[i - 1] \o parts[i]
    OBVIOUS
  <2>1. /\ (i - 1) * u \in Nat /\ i * u \in Nat /\ (i - 1) * u + u = i * u
        /\ i * u <= Len(whole) /\ Len(whole) \in Nat
    BY Units
  <2>2. CASE i = 1
    <3>1. (i - 1) * u + 1 = 1
      BY <2>2
    <3> QED
      BY <1>3, <2>2, <3>1
  <2>3. CASE i # 1
    <3>1. i - 1 \in 1 .. count /\ g[i - 1] = SubSeq(whole, 1, (i - 1) * u)
      BY <2>3
    <3>2. SubSeq(whole, 1, (i - 1) * u) \o SubSeq(whole, (i - 1) * u + 1, i * u)
            = SubSeq(whole, 1, i * u)
      <4>1. 1 \in 1 .. Len(whole) + 1
        BY <2>1
      <4>2. (i - 1) * u \in 1 - 1 .. Len(whole) /\ i * u \in (i - 1) * u .. Len(whole)
        BY <2>1
      <4> QED
        BY <4>1, <4>2, ConcatAdjacentSubSeq
    <3> QED
      BY <1>3, <2>3, <3>1, <3>2
  <2> QED
    BY <2>2, <2>3
<1>5. Flat(g)
  BY <1>1, <1>4
<1>6. Flat(flatten)
  <2> HIDE DEF Flat, g
  <2> QED
    BY <1>5
<1>7. \A i \in 1 .. count : flatten[i] = IF i = 1 THEN parts[i] ELSE flatten[i - 1] \o parts[i]
  <2> HIDE DEF flatten
  <2> QED
    BY <1>1, <1>6
<1> HIDE DEF flatten, g
<1>8. \A i \in 1 .. count : flatten[i] = g[i]
  <2> DEFINE Bad == {i \in 1 .. count : flatten[i] # g[i]}
  <2> SUFFICES ASSUME Bad # {}
               PROVE  FALSE
    OBVIOUS
  <2>1. Bad \in SUBSET Nat
    OBVIOUS
  <2>2. PICK i \in Bad : \A y \in Bad : i <= y
    BY <2>1, MinOfSet
  <2>3. i \in 1 .. count /\ flatten[i] # g[i]
    BY <2>2
  <2>4. i # 1
    BY <1>4, <1>7, <2>3
  <2>5. i - 1 \in 1 .. count /\ i - 1 \notin Bad
    BY <2>2, <2>3, <2>4
  <2>6. flatten[i - 1] = g[i - 1]
    BY <2>5
  <2> QED
    BY <1>4, <1>7, <2>3, <2>4, <2>6
<1>9. g[count] = SubSeq(whole, 1, Len(whole))
  BY DEF g
<1> QED
  BY <1>2, <1>8, <1>9, SubSeqFull

\* No parts make nothing.
LEMMA FlattenNothing == Reader!FlattenSeq(<< >>) = << >>
BY DEF Reader!FlattenSeq

\* When the file has every sector of a list, none is left out.
LEMMA InFileAll ==
  ASSUME NEW img, NEW nums \in Seq(Int), \A i \in 1 .. Len(nums) : nums[i] \in DOMAIN img
  PROVE  Reader!InFile(img, nums) = nums
<1> DEFINE n == Len(nums)
           Kept(f) == f = [i \in 0 .. n |->
                             IF i = 0 THEN << >>
                             ELSE IF nums[i] \in DOMAIN img THEN Append(f[i - 1], nums[i])
                             ELSE f[i - 1]]
           g == [i \in 0 .. n |-> SubSeq(nums, 1, i)]
           kept == CHOOSE f : Kept(f)
<1>1. Reader!InFile(img, nums) = kept[n] /\ n \in Nat
  BY LenProperties DEF Reader!InFile
<1>2. \A i \in 1 .. n : nums[i] \in DOMAIN img
  OBVIOUS
<1> HIDE DEF n
<1>3. g[0] = << >>
  <2>1. SubSeq(nums, 1, 0) = << >>
    BY SubSeqEmpty
  <2> QED
    BY <1>1, <2>1
<1>4. \A i \in 1 .. n : g[i] = Append(g[i - 1], nums[i])
  <2> SUFFICES ASSUME NEW i \in 1 .. n
               PROVE  SubSeq(nums, 1, i) = Append(SubSeq(nums, 1, i - 1), nums[i])
    <3>1. \A i \in 1 .. n : i - 1 \in 0 .. n /\ i \in 0 .. n
      BY <1>1
    <3> QED
      BY <3>1
  <2>1. 1 \in 1 .. Len(nums) /\ i \in 1 .. Len(nums)
    BY <1>1 DEF n
  <2>2. SubSeq(nums, 1, i) = SubSeq(nums, 1, i - 1) \o << nums[i] >>
    BY <2>1, SubSeqRecursiveSecond
  <2>3. SubSeq(nums, 1, i - 1) \in Seq(Int) /\ nums[i] \in Int
    <3>1. \A j \in 1 .. i - 1 : nums[j] \in Int
      BY <2>1, ElementOfSeq
    <3> QED
      BY <2>1, <3>1, ElementOfSeq, SubSeqProperties
  <2> QED
    BY <2>2, <2>3, AppendIsConcat
<1>5. Kept(g)
  <2>1. g = [i \in 0 .. n |-> g[i]]
    OBVIOUS
  <2>2. \A i \in 0 .. n : g[i] = IF i = 0 THEN << >>
                                 ELSE IF nums[i] \in DOMAIN img THEN Append(g[i - 1], nums[i])
                                 ELSE g[i - 1]
    <3> HIDE DEF g
    <3>1. \A i \in 0 .. n : i # 0 => i \in 1 .. n
      BY <1>1
    <3> QED
      BY <1>2, <1>3, <1>4, <3>1
  <2> HIDE DEF g
  <2> QED
    BY <2>1, <2>2
<1>6. Kept(kept)
  <2> HIDE DEF Kept, g
  <2> QED
    BY <1>5
<1>7. kept[0] = << >> /\ \A i \in 1 .. n : kept[i] = Append(kept[i - 1], nums[i])
  <2> HIDE DEF kept
  <2>1. \A i \in 0 .. n : kept[i] = IF i = 0 THEN << >>
                                    ELSE IF nums[i] \in DOMAIN img THEN Append(kept[i - 1], nums[i])
                                    ELSE kept[i - 1]
    BY <1>6, Zenon
  <2>2. 0 \in 0 .. n /\ \A i \in 1 .. n : i \in 0 .. n /\ i # 0
    BY <1>1
  <2> HIDE DEF Kept
  <2> QED
    BY <1>2, <2>1, <2>2
<1> HIDE DEF kept, g
<1>8. \A i \in 0 .. n : kept[i] = g[i]
  <2> DEFINE Bad == {i \in 0 .. n : kept[i] # g[i]}
  <2> SUFFICES ASSUME Bad # {}
               PROVE  FALSE
    OBVIOUS
  <2>1. Bad \in SUBSET Nat
    OBVIOUS
  <2>2. PICK i \in Bad : \A y \in Bad : i <= y
    BY <2>1, MinOfSet
  <2>3. i \in 0 .. n /\ kept[i] # g[i] /\ i # 0
    BY <1>3, <1>7, <2>2
  <2>4. i \in 1 .. n /\ i - 1 \in 0 .. n /\ i - 1 \notin Bad
    BY <1>1, <2>2, <2>3
  <2>5. kept[i - 1] = g[i - 1]
    BY <2>4
  <2> QED
    BY <1>4, <1>7, <2>3, <2>4, <2>5
<1>9. g[n] = SubSeq(nums, 1, Len(nums))
  BY <1>1 DEF g, n
<1> QED
  BY <1>1, <1>8, <1>9, SubSeqFull

\* Padding keeps the bytes and fills whole units.
LEMMA PaddedIs ==
  ASSUME NEW S, Zero \in S, NEW bytes \in Seq(S), NEW u \in Nat \ {0}
  PROVE  /\ Padded(bytes, u) \in Seq(S)
         /\ Len(Padded(bytes, u)) = CeilDiv(Len(bytes), u) * u
         /\ Reader!Truncated(Padded(bytes, u), Len(bytes)) = bytes
<1> DEFINE n == Len(bytes)
           m == CeilDiv(Len(bytes), u) * u
           p == Padded(bytes, u)
<1>1. n \in Nat /\ m \in Nat /\ n <= m
  BY CeilDivCovers, LenProperties
<1>2. p = [k \in 1 .. m |-> IF k <= n THEN bytes[k] ELSE Zero]
  BY DEF Padded
<1> HIDE DEF m, n, p
<1>3. \A k \in 1 .. n : bytes[k] \in S
  BY ElementOfSeq DEF n
<1>4. p \in [1 .. m -> S]
  BY <1>1, <1>2, <1>3
<1>5. p \in Seq(S) /\ Len(p) = m
  BY <1>1, <1>4, SeqDef
<1>6. SubSeq(p, 1, n) = bytes
  <2>1. \A k \in 1 .. n : p[k] \in S /\ p[k] = bytes[k]
    BY <1>1, <1>2, <1>3
  <2>2. /\ SubSeq(p, 1, n) \in Seq(S) /\ Len(SubSeq(p, 1, n)) = n
        /\ \A k \in 1 .. n : SubSeq(p, 1, n)[k] = p[k]
    BY <1>1, <2>1, SubSeqProperties
  <2> QED
    BY <2>1, <2>2, SeqEqual DEF n
<1>7. Reader!Truncated(p, n) = SubSeq(p, 1, n)
  BY <1>1, <1>5 DEF Reader!Truncated
<1> QED
  BY <1>5, <1>6, <1>7 DEF m, n, p

-----------------------------------------------------------------------------
(***************************************************************************)
(* What the writer leaves for the reader.                                  *)
(***************************************************************************)

\* What chainRun leaves at a sector of a run.
Link(s, run) == IF s = run.start + run.count - 1 THEN EndOfChain ELSE s + 1
LinkedIn(f, run) == \A s \in DOMAIN f : In(s, run) => f[s] = Link(s, run)

\* The FAT has a word for each sector, and the chained runs are chained.
Links ==
  /\ pc \in {"chain", "done"} => DOMAIN fat = 0 .. FatEntries * fatRun.count - 1
  /\ pc = "chain" => todo \subseteq Large /\ \A n \in Large \ todo : LinkedIn(fat, LargeRun(n))
  /\ pc = "done" => /\ \A n \in Large : LinkedIn(fat, LargeRun(n))
                    /\ LinkedIn(fat, container) /\ LinkedIn(fat, miniFatRun)
                    /\ LinkedIn(fat, dirRun)

\* The FAT lies behind everything else.
BelowFat ==
  pc \in {"converge", "chain", "done"} =>
    /\ \A n \in Large : start[n] + LargeRun(n).count <= fatRun.start
    /\ Between(container, container.start, fatRun.start)
    /\ Between(miniFatRun, miniFatRun.start, fatRun.start)
    /\ Between(dirRun, dirRun.start, fatRun.start)

\* A run has the sectors that its contents take, and starts nowhere without any.
RunFor(run, size, unit) ==
  /\ run.count = CeilDiv(size, unit)
  /\ IF size = 0 THEN run.start = EndOfChain ELSE run.start \in Nat

Lengths ==
  /\ pc \notin {"large", "mini"} => RunFor(container, Len(miniStream), SectorSize)
  /\ pc \notin {"large", "mini", "minifat"} => RunFor(miniFatRun, Len(miniFat), FatEntries)
  /\ pc \in {"converge", "chain", "done"} =>
       /\ RunFor(dirRun, Len(nodes) + 1, DirEntries)
       /\ fatRun.start \in Nat /\ fatRun.count > 0
  /\ pc \in {"chain", "done"} => fatRun.count <= MaxFat
  /\ \A n \in PlacedLarge : start[n] \in Nat

\* A small stream lies in the mini stream where its chain in the mini FAT says.
Stored(n) ==
  LET first == start[n]
      count == CeilDiv(nodes[n], MiniSize)
  IN  /\ first \in Nat /\ first + count <= Len(miniFat)
      /\ \A i \in 1 .. count :
           miniFat[first + i] = IF i = count THEN EndOfChain ELSE first + i
      /\ SubSeq(miniStream, first * MiniSize + 1, (first + count) * MiniSize)
           = Padded(Bytes(n), MiniSize)

PlacedMini == IF pc = "large" THEN {} ELSE IF pc = "mini" THEN Mini \ todo ELSE Mini

MiniInv ==
  /\ Len(miniStream) = Len(miniFat) * MiniSize
  /\ pc = "large" => miniStream = << >> /\ miniFat = << >>
  /\ \A n \in PlacedMini : nodes[n] > 0 => Stored(n)

ReadInv == Links /\ BelowFat /\ Lengths /\ MiniInv

Disjoint(run, other) == \A s \in Int : ~(In(s, run) /\ In(s, other))

\* The geometry, as CfbLayoutAssumption has it.
LEMMA SizesArePositive ==
  /\ SectorSize \in Nat \ {0} /\ MiniSize \in Nat \ {0} /\ DirEntries \in Nat \ {0}
  /\ FatEntries \in Nat \ {0} /\ Cutoff \in Nat \ {0} /\ MaxFat \in Nat
  BY CfbLayoutAssumption DEF CfbLayoutAssumption

\* What a stream holds, padded to mini sectors or to sectors.
LEMMA StreamBytes ==
  ASSUME NEW n \in Nat, nodes[n] \in Nat, NEW u \in Nat \ {0}
  PROVE  /\ Bytes(n) \in Seq(Nat \X Nat) /\ Len(Bytes(n)) = nodes[n]
         /\ Padded(Bytes(n), u) \in Seq(Nat \X Nat)
         /\ Len(Padded(Bytes(n), u)) = CeilDiv(nodes[n], u) * u
         /\ Reader!Truncated(Padded(Bytes(n), u), nodes[n]) = Bytes(n)
<1>1. Bytes(n) \in [1 .. nodes[n] -> Nat \X Nat]
  BY DEF Bytes
<1>2. Bytes(n) \in Seq(Nat \X Nat) /\ Len(Bytes(n)) = nodes[n]
  BY <1>1, SeqDef
<1>3. Zero \in Nat \X Nat
  BY DEF Zero
<1> QED
  BY <1>2, <1>3, PaddedIs

\* The runs that chainRun gets do not meet.
LEMMA RunsDisjoint ==
  ASSUME LayoutInv, BelowFat, pc \in {"chain", "done"}
  PROVE  /\ \A m, n \in Large : m # n => Disjoint(LargeRun(m), LargeRun(n))
         /\ \A n \in Large : /\ Disjoint(LargeRun(n), container)
                             /\ Disjoint(LargeRun(n), miniFatRun)
                             /\ Disjoint(LargeRun(n), dirRun)
                             /\ Disjoint(LargeRun(n), fatRun)
         /\ Disjoint(container, miniFatRun) /\ Disjoint(container, dirRun)
         /\ Disjoint(container, fatRun)
         /\ Disjoint(miniFatRun, dirRun) /\ Disjoint(miniFatRun, fatRun)
         /\ Disjoint(dirRun, fatRun)
<1>1. PlacedLarge = Large
  BY DEF PlacedLarge
<1>2. \A r \in {container, miniFatRun, dirRun, fatRun} : r.start \in Int /\ r.count \in Nat
  BY DEF LayoutInv, TypeOK, IsRun, EndOfChain
<1>3. \A n \in Large : /\ n \in Nat /\ start[n] \in Int /\ LargeRun(n).count \in Nat
                       /\ LargeRun(n).start = start[n]
  <2>1. Large \subseteq DOMAIN nodes /\ DOMAIN nodes \subseteq Nat
        /\ \A n \in Large : CeilDiv(nodes[n], SectorSize) \in Nat
    BY Sizes DEF LayoutInv
  <2>2. \A n \in Large : start[n] \in Int
    BY <2>1 DEF LayoutInv, TypeOK, EndOfChain
  <2> QED
    BY <2>1, <2>2 DEF LargeRun, Run
<1>4. \A m, n \in Large : m # n => Disjoint(LargeRun(m), LargeRun(n))
  <2> SUFFICES ASSUME NEW m \in Large, NEW n \in Large, m # n
               PROVE  Disjoint(LargeRun(m), LargeRun(n))
    OBVIOUS
  <2>1. m < n \/ n < m
    BY <1>3
  <2>2. /\ m < n => start[m] + LargeRun(m).count <= start[n]
        /\ n < m => start[n] + LargeRun(n).count <= start[m]
    BY <1>1 DEF LayoutInv, Apart
  <2> QED
    BY <1>3, <2>1, <2>2 DEF Disjoint, In
<1>5. \A n \in Large : /\ Disjoint(LargeRun(n), container)
                       /\ Disjoint(LargeRun(n), miniFatRun)
                       /\ Disjoint(LargeRun(n), dirRun)
  <2> SUFFICES ASSUME NEW n \in Large, NEW r \in {container, miniFatRun, dirRun}
               PROVE  Disjoint(LargeRun(n), r)
    OBVIOUS
  <2>1. Between(r, start[n] + LargeRun(n).count, sector)
    BY <1>1 DEF LayoutInv, Apart
  <2> QED
    BY <1>2, <1>3, <2>1 DEF Disjoint, In, Between
<1>6. \A n \in Large : Disjoint(LargeRun(n), fatRun)
  <2> SUFFICES ASSUME NEW n \in Large
               PROVE  Disjoint(LargeRun(n), fatRun)
    OBVIOUS
  <2>1. start[n] + LargeRun(n).count <= fatRun.start
    BY DEF BelowFat
  <2> QED
    BY <1>2, <1>3, <2>1 DEF Disjoint, In
<1>7. Disjoint(container, miniFatRun) /\ Disjoint(container, dirRun) /\ Disjoint(miniFatRun, dirRun)
  <2>1. Before(container, miniFatRun) /\ Before(container, dirRun) /\ Before(miniFatRun, dirRun)
    BY DEF LayoutInv, Apart
  <2> QED
    BY <1>2, <2>1 DEF Before, Disjoint, In
<1>8. \A r \in {container, miniFatRun, dirRun} : Disjoint(r, fatRun)
  <2> SUFFICES ASSUME NEW r \in {container, miniFatRun, dirRun}
               PROVE  Disjoint(r, fatRun)
    OBVIOUS
  <2>1. Between(r, r.start, fatRun.start)
    BY DEF BelowFat
  <2> QED
    BY <1>2, <2>1 DEF Between, Disjoint, In
<1> QED
  BY <1>4, <1>5, <1>6, <1>7, <1>8

\* Chaining a run makes its chain and leaves the chains of the others.
LEMMA ChainedLinks ==
  ASSUME NEW f, DOMAIN f \subseteq Nat, NEW run
  PROVE  /\ DOMAIN Chained(f, run) = DOMAIN f
         /\ LinkedIn(Chained(f, run), run)
         /\ \A other : Disjoint(run, other) /\ LinkedIn(f, other) => LinkedIn(Chained(f, run), other)
<1>1. /\ DOMAIN Chained(f, run) = DOMAIN f
      /\ \A s \in DOMAIN f : /\ In(s, run) => Chained(f, run)[s] = Link(s, run)
                             /\ ~In(s, run) => Chained(f, run)[s] = f[s]
  BY DEF Chained, Link
<1>2. LinkedIn(Chained(f, run), run)
  BY <1>1 DEF LinkedIn
<1>3. ASSUME NEW other, Disjoint(run, other), LinkedIn(f, other)
      PROVE  LinkedIn(Chained(f, run), other)
  <2> SUFFICES ASSUME NEW s \in DOMAIN f, In(s, other)
               PROVE  Chained(f, run)[s] = Link(s, other)
    BY <1>1 DEF LinkedIn
  <2>1. ~In(s, run)
    BY <1>3 DEF Disjoint
  <2> QED
    BY <1>1, <1>3, <2>1 DEF LinkedIn
<1> QED
  BY <1>1, <1>2, <1>3

\* ChainLarge chains the least large stream and spoils no other.
LEMMA ChainLargeLinks ==
  ASSUME LayoutInv, BelowFat, Links, ChainLarge
  PROVE  Links'
<1>1. /\ todo \subseteq Large /\ todo # {} /\ pc = "chain" /\ pc' = "chain"
      /\ DOMAIN fat = 0 .. FatEntries * fatRun.count - 1
      /\ \A m \in Large \ todo : LinkedIn(fat, LargeRun(m))
  BY DEF ChainLarge, Links
<1>2. PICK n \in Large : n = Min(todo) /\ n \in todo
  BY <1>1, Sizes, MinOfSet DEF LayoutInv
<1>3. /\ fat' = Chained(fat, LargeRun(n)) /\ todo' = todo \ {n}
      /\ UNCHANGED << nodes, start, fatRun >>
  BY <1>2 DEF ChainLarge
<1>4. Large' = Large /\ \A m : LargeRun(m)' = LargeRun(m)
  BY <1>3 DEF Large, Streams, LargeRun
<1>5. DOMAIN fat \subseteq Nat
  BY <1>1
<1>6. DOMAIN fat' = DOMAIN fat /\ LinkedIn(fat', LargeRun(n))
  BY <1>3, <1>5, ChainedLinks
<1>7. \A m \in Large \ todo : LinkedIn(fat', LargeRun(m))
  <2> SUFFICES ASSUME NEW m \in Large \ todo
               PROVE  LinkedIn(fat', LargeRun(m))
    OBVIOUS
  <2>1. Disjoint(LargeRun(n), LargeRun(m))
    BY <1>1, <1>2, RunsDisjoint
  <2> QED
    BY <1>1, <1>3, <1>5, <2>1, ChainedLinks
<1>8. \A m \in Large' \ todo' : LinkedIn(fat', LargeRun(m)')
  <2> SUFFICES ASSUME NEW m \in Large, m = n \/ m \notin todo
               PROVE  LinkedIn(fat', LargeRun(m))
    BY <1>3, <1>4
  <2> QED
    BY <1>6, <1>7
<1>9. todo' \subseteq Large' /\ DOMAIN fat' = 0 .. FatEntries * fatRun'.count - 1
  BY <1>1, <1>3, <1>4, <1>6
<1>10. \A m \in Large' \ todo' : LinkedIn(fat, LargeRun(m))'
  BY <1>8 DEF LinkedIn, Link, In
<1> QED
  BY <1>1, <1>9, <1>10 DEF Links

\* ChainRest chains the other runs and spoils no stream.
LEMMA ChainRestLinks ==
  ASSUME LayoutInv, BelowFat, Links, ChainRest
  PROVE  Links'
<1> DEFINE one   == Chained(fat, container)
           two   == Chained(one, miniFatRun)
           three == Chained(two, dirRun)
<1>1. /\ pc = "chain" /\ pc' = "done" /\ todo = {}
      /\ DOMAIN fat = 0 .. FatEntries * fatRun.count - 1
      /\ \A m \in Large : LinkedIn(fat, LargeRun(m))
      /\ fat' = [s \in DOMAIN fat |-> IF In(s, fatRun) THEN FatSect ELSE three[s]]
      /\ UNCHANGED << nodes, start, container, miniFatRun, dirRun, fatRun >>
  BY DEF ChainRest, Links
<1>2. DOMAIN fat \subseteq Nat
  BY <1>1
<1>3. /\ DOMAIN one = DOMAIN fat /\ LinkedIn(one, container)
      /\ \A other : Disjoint(container, other) /\ LinkedIn(fat, other) => LinkedIn(one, other)
  BY <1>2, ChainedLinks
<1> HIDE DEF one
<1>4. /\ DOMAIN two = DOMAIN fat /\ LinkedIn(two, miniFatRun)
      /\ \A other : Disjoint(miniFatRun, other) /\ LinkedIn(one, other) => LinkedIn(two, other)
  BY <1>2, <1>3, ChainedLinks
<1> HIDE DEF two
<1>5. /\ DOMAIN three = DOMAIN fat /\ LinkedIn(three, dirRun)
      /\ \A other : Disjoint(dirRun, other) /\ LinkedIn(two, other) => LinkedIn(three, other)
  BY <1>2, <1>4, ChainedLinks
<1> HIDE DEF three
<1>6. \A run, other : Disjoint(run, other) => Disjoint(other, run)
  BY DEF Disjoint
<1> DEFINE Kept(run) == LinkedIn(three, run) /\ Disjoint(run, fatRun)
<1>7. \A n \in Large : Kept(LargeRun(n))
  <2> SUFFICES ASSUME NEW n \in Large
               PROVE  Kept(LargeRun(n))
    OBVIOUS
  <2>1. /\ Disjoint(container, LargeRun(n)) /\ Disjoint(miniFatRun, LargeRun(n))
        /\ Disjoint(dirRun, LargeRun(n)) /\ Disjoint(LargeRun(n), fatRun)
    BY <1>1, <1>6, RunsDisjoint
  <2> QED
    BY <1>1, <1>3, <1>4, <1>5, <2>1
<1>8. Kept(container) /\ Kept(miniFatRun) /\ Kept(dirRun)
  <2>1. /\ Disjoint(miniFatRun, container) /\ Disjoint(dirRun, container) /\ Disjoint(dirRun, miniFatRun)
        /\ Disjoint(container, fatRun) /\ Disjoint(miniFatRun, fatRun) /\ Disjoint(dirRun, fatRun)
    BY <1>1, <1>6, RunsDisjoint
  <2> QED
    BY <1>3, <1>4, <1>5, <2>1
<1>9. \A run : Kept(run) => LinkedIn(fat', run)
  <2> SUFFICES ASSUME NEW run, Kept(run), NEW s \in DOMAIN fat, In(s, run)
               PROVE  fat'[s] = Link(s, run)
    BY <1>1 DEF LinkedIn
  <2>1. ~In(s, fatRun)
    BY <1>2 DEF Disjoint
  <2>2. fat'[s] = three[s]
    BY <1>1, <2>1
  <2> QED
    BY <1>5, <2>2 DEF LinkedIn
<1> HIDE DEF Kept
<1>10. /\ \A n \in Large : LinkedIn(fat', LargeRun(n))
       /\ LinkedIn(fat', container) /\ LinkedIn(fat', miniFatRun) /\ LinkedIn(fat', dirRun)
  BY <1>7, <1>8, <1>9
<1>11. Large' = Large /\ \A m : LargeRun(m)' = LargeRun(m)
  BY <1>1 DEF Large, Streams, LargeRun
<1>12. /\ \A n \in Large' : LinkedIn(fat, LargeRun(n))'
       /\ LinkedIn(fat, container)' /\ LinkedIn(fat, miniFatRun)' /\ LinkedIn(fat, dirRun)'
  BY <1>1, <1>10, <1>11 DEF LinkedIn, Link, In
<1>13. DOMAIN fat' = 0 .. FatEntries * fatRun'.count - 1
  BY <1>1
<1> QED
  BY <1>1, <1>12, <1>13 DEF Links

-----------------------------------------------------------------------------
(***************************************************************************)
(* Every step keeps it.                                                    *)
(***************************************************************************)

\* Once the small streams are placed, they stay.
LEMMA StoredStays ==
  ASSUME MiniInv, PlacedMini' = PlacedMini, pc' # "large",
         UNCHANGED << nodes, start, miniStream, miniFat >>
  PROVE  MiniInv'
<1>1. \A n \in PlacedMini : Stored(n) => Stored(n)'
  BY DEF Stored, Padded, Bytes
<1> QED
  BY <1>1 DEF MiniInv

\* A small stream goes to the end of the mini stream, its chain to the end of
\* the mini FAT; what stood there before stays.
LEMMA PlaceMiniStores ==
  ASSUME LayoutInv, MiniInv, PlaceMini
  PROVE  MiniInv'
<1>1. PICK n \in Mini : n = Min(todo) /\ n \in todo
  BY Sizes, MinOfSet DEF LayoutInv, InOrder, PlaceMini
<1> DEFINE first == Len(miniFat)
           count == CeilDiv(nodes[n], MiniSize)
           links == [j \in 1 .. count |-> IF j = count THEN EndOfChain ELSE first + j]
           padded == Padded(Bytes(n), MiniSize)
<1>2. /\ pc = "mini" /\ pc' = "mini" /\ todo' = todo \ {n} /\ todo \subseteq Mini
      /\ start' = [start EXCEPT ![n] = IF nodes[n] = 0 THEN EndOfChain ELSE first]
      /\ miniStream' = miniStream \o padded
      /\ miniFat' = miniFat \o links
      /\ nodes' = nodes
  BY <1>1 DEF PlaceMini, LayoutInv, InOrder
<1>3. /\ n \in Nat /\ nodes[n] \in Nat /\ first \in Nat /\ n \in DOMAIN start
      /\ miniStream \in Seq(Nat \X Nat) /\ miniFat \in Seq(Int) /\ MiniSize \in Nat \ {0}
      /\ Mini \subseteq DOMAIN nodes /\ DOMAIN start = DOMAIN nodes
  BY <1>1, Sizes, LenProperties, SizesArePositive DEF LayoutInv, Containers, TypeOK
<1>4. /\ count \in Nat /\ (nodes[n] > 0 => count > 0)
      /\ padded \in Seq(Nat \X Nat) /\ Len(padded) = count * MiniSize
      /\ links \in Seq(Int) /\ Len(links) = count
  <2>1. count \in Nat /\ (nodes[n] > 0 => count > 0)
    BY <1>3, CeilDivCovers
  <2>2. padded \in Seq(Nat \X Nat) /\ Len(padded) = count * MiniSize
    BY <1>3, StreamBytes
  <2>3. links \in Seq(Int)
    BY <1>3, MiniParts
  <2> HIDE DEF count
  <2>4. Len(links) = count
    BY <2>1
  <2> QED
    BY <2>1, <2>2, <2>3, <2>4
<1>5. \A j \in 1 .. count : links[j] = IF j = count THEN EndOfChain ELSE first + j
  OBVIOUS
<1>6. Len(miniStream) = first * MiniSize
  BY DEF MiniInv
<1> HIDE DEF first, count, links, padded
<1>7. first * MiniSize \in Nat /\ count * MiniSize \in Nat
      /\ (first + count) * MiniSize = first * MiniSize + count * MiniSize
  BY <1>3, <1>4
<1>8. /\ Len(miniFat') = first + count
      /\ \A i \in 1 .. first + count :
           miniFat'[i] = IF i <= first THEN miniFat[i] ELSE links[i - first]
  BY <1>2, <1>3, <1>4, ConcatProperties DEF first
<1>9. Len(miniStream') = Len(miniFat') * MiniSize
  <2>1. Len(miniStream') = Len(miniStream) + Len(padded)
    BY <1>2, <1>3, <1>4, ConcatProperties
  <2> QED
    BY <1>4, <1>6, <1>7, <1>8, <2>1
<1>10. Mini' = Mini /\ PlacedMini' = PlacedMini \cup {n} /\ n \notin PlacedMini
       /\ PlacedMini \subseteq Mini
  <2>1. Mini' = Mini
    BY <1>2 DEF Mini, Streams, Large
  <2> QED
    BY <1>1, <1>2, <2>1 DEF PlacedMini
<1>11. ASSUME nodes[n] > 0 PROVE Stored(n)'
  <2>1. start'[n] = first /\ CeilDiv(nodes'[n], MiniSize) = count
    BY <1>2, <1>3, <1>11 DEF count
  <2>2. \A i \in 1 .. count : miniFat'[first + i] = IF i = count THEN EndOfChain ELSE first + i
    <3> SUFFICES ASSUME NEW i \in 1 .. count
                 PROVE  miniFat'[first + i] = links[i]
      BY <1>5
    <3> DEFINE k == first + i
    <3>1. k \in 1 .. first + count /\ ~(k <= first) /\ k - first = i
      BY <1>3, <1>4
    <3> HIDE DEF k
    <3>2. miniFat'[k] = links[k - first]
      BY <1>8, <3>1
    <3> QED
      BY <3>1, <3>2 DEF k
  <2>3. SubSeq(miniStream', first * MiniSize + 1, (first + count) * MiniSize) = padded
    <3> DEFINE lo == first * MiniSize + 1
               hi == (first + count) * MiniSize
    <3>1. count * MiniSize >= 1
      BY <1>3, <1>4, <1>7, <1>11
    <3>2. /\ lo \in Len(miniStream) + 1 .. Len(miniStream) + Len(padded)
          /\ hi \in Len(miniStream) + 1 .. Len(miniStream) + Len(padded)
          /\ lo - Len(miniStream) = 1 /\ hi - Len(miniStream) = Len(padded)
      <4> DEFINE l == first * MiniSize
                 c == count * MiniSize
      <4>1. l \in Nat /\ c \in Nat /\ c >= 1 /\ Len(miniStream) = l /\ Len(padded) = c
            /\ lo = l + 1 /\ hi = l + c
        BY <1>4, <1>6, <1>7, <3>1
      <4> HIDE DEF l, c, lo, hi
      <4> QED
        BY <4>1
    <3> HIDE DEF lo, hi
    <3>3. SubSeq(miniStream \o padded, lo, hi)
            = SubSeq(padded, lo - Len(miniStream), hi - Len(miniStream))
      <4>1. miniStream \in Seq(Nat \X Nat) /\ padded \in Seq(Nat \X Nat)
        BY <1>3, <1>4
      <4>2. /\ lo \in Len(miniStream) + 1 .. Len(miniStream) + Len(padded)
            /\ hi \in Len(miniStream) + 1 .. Len(miniStream) + Len(padded)
        BY <3>2
      <4> HIDE DEF padded
      <4> QED
        BY ONLY <4>1, <4>2, SubSeqOfConcat2, Zenon
    <3>4. SubSeq(miniStream', lo, hi) = SubSeq(padded, 1, Len(padded))
      BY <1>2, <3>2, <3>3, Zenon
    <3> QED
      BY <1>4, <3>4, SubSeqFull DEF lo, hi
  <2>4. padded = Padded(Bytes(n), MiniSize)'
    BY <1>2 DEF padded, Padded, Bytes
  <2> QED
    BY <1>3, <1>4, <1>8, <2>1, <2>2, <2>3, <2>4 DEF Stored
<1>12. ASSUME NEW m \in PlacedMini, nodes[m] > 0 PROVE Stored(m)'
  <2> DEFINE f == start[m]
             k == CeilDiv(nodes[m], MiniSize)
  <2>1. /\ f \in Nat /\ f + k <= first
        /\ \A i \in 1 .. k : miniFat[f + i] = IF i = k THEN EndOfChain ELSE f + i
        /\ SubSeq(miniStream, f * MiniSize + 1, (f + k) * MiniSize) = Padded(Bytes(m), MiniSize)
    BY <1>12 DEF MiniInv, Stored, first
  <2>2. m # n /\ m \in DOMAIN nodes /\ m \in Nat /\ nodes[m] \in Nat
    <3>1. m # n /\ m \in Mini
      BY <1>10
    <3> QED
      BY <3>1, Sizes DEF LayoutInv
  <2>3. start'[m] = f /\ CeilDiv(nodes'[m], MiniSize) = k
    BY <1>2, <1>3, <2>2
  <2>4. k \in Nat /\ k > 0
    BY <1>3, <1>12, <2>2, CeilDivCovers
  <2> HIDE DEF f, k
  <2>5. \A i \in 1 .. k : miniFat'[f + i] = IF i = k THEN EndOfChain ELSE f + i
    <3> SUFFICES ASSUME NEW i \in 1 .. k
                 PROVE  miniFat'[f + i] = miniFat[f + i]
      BY <2>1
    <3>1. f + i \in 1 .. first + count /\ f + i <= first
      BY <1>3, <1>4, <2>1, <2>4
    <3> QED
      BY <1>8, <3>1
  <2>6. SubSeq(miniStream', f * MiniSize + 1, (f + k) * MiniSize) = Padded(Bytes(m), MiniSize)
    <3>1. f * MiniSize \in Nat /\ (f + k) * MiniSize = f * MiniSize + k * MiniSize
          /\ k * MiniSize >= 1
      BY <1>3, <2>1, <2>4
    <3>2. (f + k) * MiniSize <= first * MiniSize
      <4>1. f + k \in 1 .. first
        BY <1>3, <2>1, <2>4
      <4> QED
        BY <1>3, <4>1, Units
    <3> DEFINE lo == f * MiniSize + 1
               hi == (f + k) * MiniSize
    <3>3. lo \in 1 .. Len(miniStream) /\ hi \in 1 .. Len(miniStream)
      <4> DEFINE x == f * MiniSize
                 y == k * MiniSize
                 z == first * MiniSize
      <4>1. x \in Nat /\ hi = x + y /\ y >= 1 /\ hi <= z /\ z \in Nat /\ Len(miniStream) = z
            /\ y \in Nat /\ lo = x + 1
        BY <1>3, <1>6, <1>7, <2>4, <3>1, <3>2
      <4> HIDE DEF x, y, z, lo, hi
      <4> QED
        BY <4>1
    <3> HIDE DEF lo, hi
    <3>4. SubSeq(miniStream', lo, hi) = SubSeq(miniStream, lo, hi)
      BY <1>2, <1>3, <1>4, <3>3, SubSeqOfConcat1
    <3> QED
      BY <2>1, <3>4 DEF lo, hi
  <2>7. Padded(Bytes(m), MiniSize) = Padded(Bytes(m), MiniSize)'
    BY <1>2 DEF Padded, Bytes
  <2>8. f + k <= Len(miniFat')
    BY <1>3, <1>4, <1>8, <2>1, <2>4
  <2> QED
    BY <2>1, <2>3, <2>5, <2>6, <2>7, <2>8 DEF Stored
<1>13. \A m \in PlacedMini' : nodes'[m] > 0 => Stored(m)'
  BY <1>2, <1>10, <1>11, <1>12
<1> QED
  BY <1>2, <1>9, <1>13 DEF MiniInv

\* Every step keeps the mini streams stored.
LEMMA MiniInvStep ==
  ASSUME LayoutInv, MiniInv, [Next]_vars
  PROVE  MiniInv'
<1>1. CASE PlaceMini
  BY <1>1, PlaceMiniStores
<1>2. CASE PlaceLarge \/ LargeDone
  <2>1. pc = "large" /\ UNCHANGED << nodes, miniStream, miniFat >>
        /\ (pc' = "large" \/ (pc' = "mini" /\ todo' = Mini))
    BY <1>2 DEF PlaceLarge, LargeDone
  <2>2. Mini' = Mini
    BY <2>1 DEF Mini, Streams, Large
  <2>3. PlacedMini' = {}
    BY <2>1, <2>2 DEF PlacedMini
  <2> QED
    BY <2>1, <2>3 DEF MiniInv
<1>3. CASE PlaceContainer \/ PlaceMiniFat \/ PlaceDirectory \/ GrowFat \/ FatTooLarge
             \/ PlaceFat \/ ChainLarge \/ ChainRest
  <2>1. /\ UNCHANGED << nodes, start, miniStream, miniFat >>
        /\ pc # "large" /\ pc' # "large" /\ pc' # "mini"
        /\ pc = "mini" => todo = {}
    BY <1>3 DEF PlaceContainer, PlaceMiniFat, PlaceDirectory, GrowFat, FatTooLarge, PlaceFat,
                ChainLarge, ChainRest
  <2>2. Mini' = Mini
    BY <2>1 DEF Mini, Streams, Large
  <2>3. PlacedMini' = PlacedMini
    BY <2>1, <2>2 DEF PlacedMini
  <2> QED
    BY <2>1, <2>3, StoredStays
<1>4. CASE UNCHANGED vars
  <2>1. UNCHANGED << nodes, start, miniStream, miniFat, pc, todo >>
    BY <1>4 DEF vars
  <2>2. PlacedMini' = PlacedMini
    BY <2>1 DEF PlacedMini, Mini, Streams, Large
  <2>3. CASE pc # "large"
    BY <2>1, <2>2, <2>3, StoredStays
  <2>4. CASE pc = "large"
    BY <2>1, <2>2, <2>4 DEF MiniInv, PlacedMini
  <2> QED
    BY <2>3, <2>4
<1> QED
  BY <1>1, <1>2, <1>3, <1>4 DEF Next

\* A run placed for size bytes or words.
LEMMA PlacedRun ==
  ASSUME NEW size \in Nat, NEW unit \in Nat \ {0}, sector \in Nat, NEW run,
         run = IF size = 0 THEN NoRun ELSE Run(sector, CeilDiv(size, unit))
  PROVE  RunFor(run, size, unit)
BY CeilDivOfNothing DEF RunFor, NoRun, Run

\* Every step gives a run the sectors of its contents.
LEMMA LengthsStep ==
  ASSUME LayoutInv, Lengths, [Next]_vars
  PROVE  Lengths'
<1> DEFINE LargeOK == \A n \in PlacedLarge : start[n] \in Nat
<1>1. /\ sector \in Nat /\ miniStream \in Seq(Nat \X Nat) /\ miniFat \in Seq(Int)
      /\ Len(miniStream) \in Nat /\ Len(miniFat) \in Nat /\ Len(nodes) \in Nat
      /\ (miniStream = << >> <=> Len(miniStream) = 0) /\ (miniFat = << >> <=> Len(miniFat) = 0)
      /\ DOMAIN start = DOMAIN nodes /\ Large \subseteq DOMAIN nodes
  BY Sizes, LenProperties, EmptySeq DEF LayoutInv, TypeOK, Containers
<1>2. LargeOK'
  <2>1. CASE PlaceLarge
    <3>1. PICK n \in Large : n = Min(todo) /\ n \in todo
      BY <2>1, Sizes, MinOfSet DEF LayoutInv, InOrder, PlaceLarge
    <3>2. /\ start' = [start EXCEPT ![n] = sector] /\ todo' = todo \ {n}
          /\ UNCHANGED << nodes, pc >>
      BY <2>1, <3>1 DEF PlaceLarge
    <3>3. PlacedLarge' \subseteq PlacedLarge \cup {n} /\ PlacedLarge' \subseteq Large
      BY <3>2 DEF PlacedLarge, Large, Streams
    <3> QED
      BY <1>1, <3>2, <3>3 DEF Lengths
  <2>2. CASE PlaceMini
    <3>1. PICK n \in Mini : n = Min(todo) /\ n \in todo
      BY <2>2, Sizes, MinOfSet DEF LayoutInv, InOrder, PlaceMini
    <3>2. pc = "mini" /\ pc' = "mini" /\ nodes' = nodes /\ \A m : m # n => start'[m] = start[m]
      BY <2>2, <3>1 DEF PlaceMini
    <3>3. PlacedLarge' = PlacedLarge /\ n \notin PlacedLarge
      BY <3>1, <3>2 DEF PlacedLarge, Large, Mini, Streams
    <3> QED
      BY <3>2, <3>3 DEF Lengths
  <2>3. CASE ~PlaceLarge /\ ~PlaceMini
    <3>1. UNCHANGED << nodes, start >> /\ (pc' = "large" => UNCHANGED << pc, todo >>)
          /\ (pc = "large" /\ pc' # "large" => todo = {})
      BY <2>3 DEF Next, LargeDone, PlaceContainer, PlaceMiniFat, PlaceDirectory, GrowFat,
                  FatTooLarge, PlaceFat, ChainLarge, ChainRest, vars
    <3>2. PlacedLarge' = PlacedLarge
      BY <3>1 DEF PlacedLarge, Large, Streams
    <3> QED
      BY <3>1, <3>2 DEF Lengths
  <2> QED
    BY <2>1, <2>2, <2>3
<1>3. CASE PlaceLarge \/ LargeDone \/ PlaceMini
  BY <1>2, <1>3 DEF PlaceLarge, LargeDone, PlaceMini, Lengths
<1>4. CASE PlaceContainer
  <2>1. /\ pc = "mini" /\ pc' = "minifat" /\ miniStream' = miniStream
        /\ container' = IF Len(miniStream) = 0 THEN NoRun
                        ELSE Run(sector, CeilDiv(Len(miniStream), SectorSize))
    BY <1>1, <1>4 DEF PlaceContainer
  <2>2. RunFor(container', Len(miniStream), SectorSize)
    BY <1>1, <2>1, PlacedRun, SizesArePositive
  <2> QED
    BY <1>2, <2>1, <2>2 DEF Lengths, RunFor
<1>5. CASE PlaceMiniFat
  <2>1. /\ pc = "minifat" /\ pc' = "directory" /\ UNCHANGED << miniStream, miniFat, container >>
        /\ miniFatRun' = IF Len(miniFat) = 0 THEN NoRun
                         ELSE Run(sector, CeilDiv(Len(miniFat), FatEntries))
    BY <1>1, <1>5 DEF PlaceMiniFat
  <2>2. RunFor(miniFatRun', Len(miniFat), FatEntries)
    BY <1>1, <2>1, PlacedRun, SizesArePositive
  <2> QED
    BY <1>2, <2>1, <2>2 DEF Lengths, RunFor
<1>6. CASE PlaceDirectory
  <2>1. /\ pc = "directory" /\ pc' = "converge"
        /\ UNCHANGED << nodes, miniStream, miniFat, container, miniFatRun >>
        /\ dirRun' = Run(sector, CeilDiv(Len(nodes) + 1, DirEntries))
        /\ fatRun' = Run(sector + CeilDiv(Len(nodes) + 1, DirEntries), 1)
    BY <1>6 DEF PlaceDirectory
  <2>2. CeilDiv(Len(nodes) + 1, DirEntries) \in Nat
    BY <1>1, CeilDivIsNat, SizesArePositive
  <2>3. RunFor(dirRun', Len(nodes) + 1, DirEntries) /\ fatRun'.start \in Nat /\ fatRun'.count > 0
    BY <1>1, <2>1, <2>2 DEF RunFor, Run
  <2> QED
    BY <1>2, <2>1, <2>3 DEF Lengths, RunFor
<1>7. CASE GrowFat
  <2>1. /\ pc = "converge" /\ pc' = pc
        /\ UNCHANGED << nodes, miniStream, miniFat, container, miniFatRun, dirRun >>
        /\ fatRun' = [fatRun EXCEPT !.count = @ + 1]
    BY <1>7 DEF GrowFat
  <2>2. fatRun'.start = fatRun.start \/ fatRun'.start \in Nat
    BY <2>1
  <2>3. fatRun'.start \in Nat /\ fatRun'.count > 0
    <3>1. fatRun.count \in Nat /\ fatRun.count > 0 /\ fatRun.start \in Nat
      BY <2>1 DEF LayoutInv, TypeOK, IsRun, Lengths
    <3>2. fatRun'.count = fatRun.count + 1 \/ fatRun' = fatRun
      BY <2>1
    <3> QED
      BY <2>2, <3>1, <3>2
  <2> QED
    BY <1>2, <2>1, <2>3 DEF Lengths, RunFor
<1>8. CASE FatTooLarge \/ PlaceFat \/ ChainLarge \/ ChainRest \/ UNCHANGED vars
  <2>1. /\ UNCHANGED << nodes, miniStream, miniFat, container, miniFatRun, dirRun, fatRun >>
        /\ pc' \notin {"large", "mini", "minifat", "directory"} \/ pc' = pc
        /\ pc \notin {"large", "mini", "minifat", "directory"} \/ pc' = pc
        /\ pc' \in {"converge", "chain", "done"} => pc \in {"converge", "chain", "done"}
        /\ pc' \in {"chain", "done"} => pc \in {"chain", "done"} \/ fatRun.count <= MaxFat
    BY <1>8 DEF FatTooLarge, PlaceFat, ChainLarge, ChainRest, vars
  <2> QED
    BY <1>2, <2>1 DEF Lengths, RunFor
<1> QED
  BY <1>3, <1>4, <1>5, <1>6, <1>7, <1>8 DEF Next

\* Every step keeps the FAT behind the other runs.
LEMMA BelowFatStep ==
  ASSUME LayoutInv, LayoutInv', BelowFat, [Next]_vars
  PROVE  BelowFat'
<1>1. CASE pc' \notin {"converge", "chain", "done"}
  BY <1>1 DEF BelowFat
<1>2. CASE pc' = "converge"
  <2>1. fatRun'.start = sector' /\ PlacedLarge' = Large'
    BY <1>2 DEF LayoutInv, Converging, PlacedLarge
  <2>2. \A n \in Large' : start'[n] + LargeRun(n)'.count <= sector'
    BY <2>1 DEF LayoutInv, Apart
  <2>3. /\ Between(container', container'.start, sector')
        /\ Between(miniFatRun', miniFatRun'.start, sector')
        /\ Between(dirRun', dirRun'.start, sector')
    BY DEF LayoutInv, Apart, Between
  <2> QED
    BY <2>1, <2>2, <2>3 DEF BelowFat, Between
<1>3. CASE pc' \in {"chain", "done"}
  <2>1. /\ pc \in {"converge", "chain", "done"}
        /\ UNCHANGED << nodes, start, container, miniFatRun, dirRun, fatRun >>
    BY <1>3 DEF Next, PlaceLarge, LargeDone, PlaceMini, PlaceContainer, PlaceMiniFat,
                PlaceDirectory, GrowFat, FatTooLarge, PlaceFat, ChainLarge, ChainRest, vars
  <2>2. Large' = Large /\ \A n : LargeRun(n)' = LargeRun(n)
    BY <2>1 DEF Large, Streams, LargeRun
  <2> QED
    BY <2>1, <2>2 DEF BelowFat, Between
<1> QED
  BY <1>1, <1>2, <1>3

\* Every step keeps the chained runs chained.
LEMMA LinksStep ==
  ASSUME LayoutInv, BelowFat, Links, [Next]_vars
  PROVE  Links'
<1>1. CASE ChainLarge
  BY <1>1, ChainLargeLinks
<1>2. CASE ChainRest
  BY <1>2, ChainRestLinks
<1>3. CASE PlaceFat
  <2>1. /\ pc' = "chain" /\ todo' = Large /\ UNCHANGED << nodes, start, fatRun >>
        /\ DOMAIN fat' = 0 .. FatEntries * fatRun.count - 1
    BY <1>3 DEF PlaceFat
  <2>2. Large' = Large
    BY <2>1 DEF Large, Streams
  <2>3. Large' \ todo' = {}
    BY <2>1, <2>2
  <2> QED
    BY <2>1, <2>2, <2>3 DEF Links
<1>4. CASE UNCHANGED vars
  <2>1. UNCHANGED << nodes, start, pc, todo, container, miniFatRun, dirRun, fatRun, fat >>
    BY <1>4 DEF vars
  <2>2. Large' = Large /\ \A n : LargeRun(n)' = LargeRun(n)
    BY <2>1 DEF Large, Streams, LargeRun
  <2> QED
    BY <2>1, <2>2 DEF Links, LinkedIn, Link, In
<1>5. CASE PlaceLarge \/ LargeDone \/ PlaceMini \/ PlaceContainer \/ PlaceMiniFat \/ PlaceDirectory
             \/ GrowFat \/ FatTooLarge
  BY <1>5 DEF Links, PlaceLarge, LargeDone, PlaceMini, PlaceContainer, PlaceMiniFat,
              PlaceDirectory, GrowFat, FatTooLarge
<1> QED
  BY <1>1, <1>2, <1>3, <1>4, <1>5 DEF Next

\* The inductive invariant of the read back: what assemble has placed and
\* chained so far is what a reader will need.
THEOREM ReadInvariant == Spec => []ReadInv
<1>1. Init => ReadInv
  <2> SUFFICES ASSUME Init
               PROVE  ReadInv
    OBVIOUS
  <2>1. pc = "large" /\ todo = Large /\ miniStream = << >> /\ miniFat = << >>
    BY DEF Init
  <2>2. PlacedMini = {} /\ PlacedLarge = {}
    BY <2>1 DEF PlacedMini, PlacedLarge
  <2>3. Len(miniStream) = 0 /\ Len(miniFat) = 0
    BY <2>1
  <2> QED
    BY <2>1, <2>2, <2>3, SizesArePositive DEF ReadInv, Links, BelowFat, Lengths, MiniInv
<1>2. LayoutInv /\ LayoutInv' /\ ReadInv /\ [Next]_vars => ReadInv'
  BY LinksStep, BelowFatStep, LengthsStep, MiniInvStep DEF ReadInv
<1> QED
  BY <1>1, <1>2, LayoutInvariant, PTL DEF Spec

-----------------------------------------------------------------------------
(***************************************************************************)
(* The FAT is read back.                                                   *)
(***************************************************************************)

\* A finished layout, as the invariants describe it.
Finished == LayoutInv /\ ReadInv /\ pc = "done"

\* The numbers of a finished layout.
LEMMA FinishedIs ==
  ASSUME Finished
  PROVE  /\ \A r \in {container, miniFatRun, dirRun, fatRun} : r.start \in Int /\ r.count \in Nat
         /\ sector \in Nat /\ sector = fatRun.start + fatRun.count
         /\ fatRun.start \in Nat /\ fatRun.count > 0 /\ fatRun.count <= MaxFat
         /\ DOMAIN fat = 0 .. FatEntries * fatRun.count - 1 /\ sector <= FatEntries * fatRun.count
         /\ miniStream \in Seq(Nat \X Nat) /\ miniFat \in Seq(Int)
         /\ Len(nodes) \in Nat /\ Len(miniStream) \in Nat /\ Len(miniFat) \in Nat
         /\ DOMAIN Image = 0 .. sector - 1 /\ \A s \in 0 .. sector - 1 : Image[s] = Sector(s)
<1>1. \A r \in {container, miniFatRun, dirRun, fatRun} : r.start \in Int /\ r.count \in Nat
  BY DEF Finished, LayoutInv, TypeOK, IsRun, EndOfChain
<1>2. sector \in Nat /\ sector = fatRun.start + fatRun.count
      /\ FatEntries * fatRun.count >= fatRun.start + fatRun.count
  BY DEF Finished, LayoutInv, TypeOK, Converging, Describes
<1>3. fatRun.start \in Nat /\ fatRun.count > 0 /\ fatRun.count <= MaxFat
      /\ DOMAIN fat = 0 .. FatEntries * fatRun.count - 1
  BY DEF Finished, ReadInv, Lengths, Links
<1>4. miniStream \in Seq(Nat \X Nat) /\ miniFat \in Seq(Int)
      /\ Len(nodes) \in Nat /\ Len(miniStream) \in Nat /\ Len(miniFat) \in Nat
  BY Sizes, LenProperties DEF Finished, LayoutInv, Containers
<1>5. DOMAIN Image = 0 .. sector - 1 /\ \A s \in 0 .. sector - 1 : Image[s] = Sector(s)
  BY DEF Image
<1>6. sector <= FatEntries * fatRun.count
  BY <1>2
<1> QED
  BY <1>1, <1>2, <1>3, <1>4, <1>5, <1>6

\* The sector numbers of a run, as a sequence.
LEMMA RunNames ==
  ASSUME NEW first \in Int, NEW count \in Nat
  PROVE  /\ [i \in 1 .. count |-> first + i - 1] \in Seq(Int)
         /\ Len([i \in 1 .. count |-> first + i - 1]) = count
         /\ \A i \in 1 .. count : [j \in 1 .. count |-> first + j - 1][i] = first + i - 1
<1>1. [i \in 1 .. count |-> first + i - 1] \in [1 .. count -> Int]
  OBVIOUS
<1> QED
  BY <1>1, SeqDef

\* The header names the sectors of the FAT and nothing else.
LEMMA DifatNames ==
  ASSUME Finished
  PROVE  Reader!Terminated(Header.difat) = [i \in 1 .. fatRun.count |-> fatRun.start + i - 1]
<1> DEFINE words == Header.difat
           ends == {i \in DOMAIN words : words[i] \in {Reader!FreeSect, Reader!EndOfChain}}
           c == fatRun.count
           names == [i \in 1 .. c |-> fatRun.start + i - 1]
<1>1. c \in Nat /\ c <= MaxFat /\ MaxFat \in Nat /\ fatRun.start \in Nat
  BY FinishedIs, SizesArePositive
<1>2. words = [i \in 1 .. MaxFat |-> IF i <= c THEN fatRun.start + i - 1 ELSE FreeSect]
  BY DEF Header
<1>3. Reader!Terminated(words) = IF ends = {} THEN words ELSE SubSeq(words, 1, Reader!Min(ends) - 1)
  BY DEF Reader!Terminated
<1> HIDE DEF words, c
<1>4. ends = c + 1 .. MaxFat
  BY <1>1, <1>2 DEF Reader!FreeSect, Reader!EndOfChain, FreeSect
<1> HIDE DEF ends
<1>5. CASE c = MaxFat
  <2>1. ends = {}
    BY <1>1, <1>4, <1>5
  <2>2. words = names
    BY <1>2, <1>5
  <2> QED
    BY <1>3, <2>1, <2>2 DEF words, c
<1>6. CASE c # MaxFat
  <2>1. c + 1 \in ends /\ ends \in SUBSET Nat /\ \A y \in ends : c + 1 <= y
    BY <1>1, <1>4, <1>6
  <2>2. Reader!Min(ends) = c + 1 /\ ends # {}
    BY <2>1, MinIs
  <2>3. Reader!Terminated(words) = SubSeq(words, 1, c)
    BY <1>1, <1>3, <2>2
  <2>4. \A i \in 1 .. c : words[i] = names[i] /\ words[i] \in Int
    BY <1>1, <1>2
  <2>5. /\ SubSeq(words, 1, c) \in Seq(Int) /\ Len(SubSeq(words, 1, c)) = c
        /\ \A i \in 1 .. c : SubSeq(words, 1, c)[i] = words[i]
    BY <1>1, <2>4, SubSeqProperties
  <2>7. names \in Seq(Int) /\ Len(names) = c
    BY <1>1, RunNames
  <2> HIDE DEF names
  <2>8. SubSeq(words, 1, c) = names
    BY <2>4, <2>5, <2>7, SeqEqual
  <2> QED
    BY <2>3, <2>8 DEF words, c, names
<1> QED
  BY <1>5, <1>6

\* No DIFAT sectors are followed: the header names them all.
LEMMA FatSectorsAre ==
  ASSUME Finished
  PROVE  Reader!InFile(Image, Reader!FatSectors(Image, Header))
           = [i \in 1 .. fatRun.count |-> fatRun.start + i - 1]
<1> DEFINE names == [i \in 1 .. fatRun.count |-> fatRun.start + i - 1]
           succ == [s \in {t \in DOMAIN Image : "words" \in DOMAIN Image[t]} |->
                      Reader!Last(Image[s].words)]
<1>1. Header.firstDifat = EndOfChain
  BY DEF Header
<1>2. DOMAIN succ \subseteq 0 .. sector - 1
  BY FinishedIs
<1>3. Reader!DifatSectors(Image, Header) = Reader!Walked(succ, Header.firstDifat)
  BY DEF Reader!DifatSectors
<1> HIDE DEF succ
<1>4. IsFiniteSet(DOMAIN succ) /\ EndOfChain \notin DOMAIN succ
  <2>1. sector \in Nat
    BY FinishedIs
  <2>2. IsFiniteSet(0 .. sector - 1) /\ EndOfChain \notin 0 .. sector - 1
    BY <2>1, FS_Interval DEF EndOfChain
  <2> QED
    BY <1>2, <2>2, FS_Subset
<1>5. Reader!DifatSectors(Image, Header) = << >>
  BY <1>1, <1>3, <1>4, WalkedNowhere
<1>6. Reader!FlattenSeq([k \in DOMAIN Reader!DifatSectors(Image, Header) |->
                           Reader!Front(Image[Reader!DifatSectors(Image, Header)[k]].words)]) = << >>
  <2>1. \A f : DOMAIN << >> = {} /\ [k \in DOMAIN << >> |-> f[k]] = << >>
    OBVIOUS
  <2>2. [k \in DOMAIN Reader!DifatSectors(Image, Header) |->
           Reader!Front(Image[Reader!DifatSectors(Image, Header)[k]].words)] = << >>
    BY <1>5
  <2> QED
    BY <2>2, FlattenNothing
<1>7. Reader!Terminated(<< >>) = << >>
  BY DEF Reader!Terminated
<1>8. names \in Seq(Int) /\ Len(names) = fatRun.count
  <2>1. fatRun.start \in Int /\ fatRun.count \in Nat
    BY FinishedIs
  <2> QED
    BY <2>1, RunNames
<1>9. Reader!FatSectors(Image, Header) = names
  <2>1. Reader!FatSectors(Image, Header) = Reader!Terminated(Header.difat) \o << >>
    BY <1>6, <1>7 DEF Reader!FatSectors
  <2> QED
    BY <1>8, <2>1, DifatNames, ConcatEmptySeq
<1>10. \A i \in 1 .. fatRun.count : names[i] \in DOMAIN Image
  <2> DEFINE f == fatRun.start
             c == fatRun.count
  <2>1. f \in Nat /\ c \in Nat /\ DOMAIN Image = 0 .. f + c - 1
    BY FinishedIs
  <2>2. \A i \in 1 .. c : names[i] = f + i - 1
    OBVIOUS
  <2> HIDE DEF f, c, names
  <2>3. \A i \in 1 .. c : f + i - 1 \in 0 .. f + c - 1
    BY <2>1
  <2>4. \A i \in 1 .. c : names[i] \in DOMAIN Image
    BY <2>1, <2>2, <2>3
  <2> QED
    BY <2>4 DEF c
<1> HIDE DEF names
<1>11. Reader!InFile(Image, names) = names
  BY <1>8, <1>10, InFileAll
<1> QED
  BY <1>9, <1>11 DEF names

\* The reader has the FAT that the writer filled.
LEMMA FatIsRead ==
  ASSUME Finished
  PROVE  /\ DOMAIN Reader!buildFAT(Image, Header) = DOMAIN fat
         /\ \A n \in DOMAIN fat : Reader!buildFAT(Image, Header)[n] = fat[n]
<1> DEFINE names == [i \in 1 .. fatRun.count |-> fatRun.start + i - 1]
           c == fatRun.count
<1>1. /\ c \in Nat /\ FatEntries \in Nat \ {0} /\ fatRun.start \in Nat
      /\ DOMAIN fat = 0 .. c * FatEntries - 1 /\ sector = fatRun.start + c
  BY FinishedIs, SizesArePositive
<1>2. Len(names) = c
  BY <1>1
<1>3. Reader!buildFAT(Image, Header)
        = [n \in 0 .. c * FatEntries - 1 |->
             Image[names[n \div FatEntries + 1]].words[(n % FatEntries) + 1]]
  BY <1>2, FatSectorsAre DEF Reader!buildFAT
<1>4. \A n \in DOMAIN fat : Image[names[n \div FatEntries + 1]].words[(n % FatEntries) + 1] = fat[n]
  <2> SUFFICES ASSUME NEW n \in 0 .. c * FatEntries - 1
               PROVE  Image[names[n \div FatEntries + 1]].words[(n % FatEntries) + 1] = fat[n]
    BY <1>1
  <2> DEFINE q == n \div FatEntries
             r == n % FatEntries
  <2>1. q \in 0 .. c - 1 /\ r \in 0 .. FatEntries - 1 /\ n = q * FatEntries + r
    BY <1>1, Divided
  <2> HIDE DEF q, r
  <2>2. names[q + 1] = fatRun.start + q
    BY <1>1, <2>1
  <2>3. Image[fatRun.start + q]
          = [words |-> [k \in 1 .. FatEntries |-> fat[q * FatEntries + k - 1]]]
    <3> DEFINE s == fatRun.start + q
    <3>1. s \in 0 .. sector - 1 /\ In(s, fatRun) /\ s - fatRun.start = q
      BY <1>1, <2>1 DEF In
    <3> HIDE DEF s
    <3>2. Image[s] = Sector(s)
      BY <3>1, FinishedIs
    <3>3. Sector(s) = [words |-> [k \in 1 .. FatEntries |->
                                    fat[(s - fatRun.start) * FatEntries + k - 1]]]
      BY <3>1 DEF Sector
    <3> QED
      BY <3>1, <3>2, <3>3 DEF s
  <2>4. Image[names[q + 1]].words[r + 1] = fat[q * FatEntries + (r + 1) - 1]
    <3>1. r + 1 \in 1 .. FatEntries
      BY <1>1, <2>1
    <3> DEFINE k == r + 1
    <3> HIDE DEF k
    <3>2. [words |-> [j \in 1 .. FatEntries |-> fat[q * FatEntries + j - 1]]].words[k]
            = fat[q * FatEntries + k - 1]
      BY <3>1 DEF k
    <3> QED
      BY <2>2, <2>3, <3>2 DEF k
  <2>5. q * FatEntries + (r + 1) - 1 = n
    BY <1>1, <2>1
  <2> QED
    BY <2>4, <2>5 DEF q, r
<1> QED
  BY <1>1, <1>3, <1>4

\* The reader finds the sectors of a run, in order.
LEMMA RunIsWalked ==
  ASSUME Finished, NEW run, LinkedIn(fat, run), run.start \in Nat, run.count \in Nat \ {0},
         run.start + run.count <= sector
  PROVE  Reader!Chain(Image, Reader!buildFAT(Image, Header), run.start)
           = [i \in 1 .. run.count |-> run.start + i - 1]
<1> DEFINE read == Reader!buildFAT(Image, Header)
           succ == [s \in DOMAIN read \cap DOMAIN Image |-> read[s]]
<1>1. /\ DOMAIN read = DOMAIN fat /\ \A n \in DOMAIN fat : read[n] = fat[n]
      /\ DOMAIN Image = 0 .. sector - 1 /\ sector \in Nat
      /\ DOMAIN fat = 0 .. FatEntries * fatRun.count - 1
      /\ sector <= FatEntries * fatRun.count
  BY FatIsRead, FinishedIs
<1>2. Reader!Chain(Image, read, run.start) = Reader!Walked(succ, run.start)
  BY DEF Reader!Chain
<1> HIDE DEF read
<1>3. FatEntries * fatRun.count \in Nat
  <2>1. fatRun.count \in Nat
    BY FinishedIs
  <2> QED
    BY <2>1, SizesArePositive
<1>4. DOMAIN succ = 0 .. sector - 1 /\ \A s \in 0 .. sector - 1 : s \in DOMAIN fat /\ succ[s] = fat[s]
  <2>1. 0 .. sector - 1 \subseteq DOMAIN fat
    BY <1>1, <1>3
  <2> QED
    BY <1>1, <2>1
<1> HIDE DEF succ
<1>5. IsFiniteSet(DOMAIN succ) /\ EndOfChain \notin DOMAIN succ
  BY <1>1, <1>4, FS_Interval DEF EndOfChain
<1> DEFINE first == run.start
           count == run.count
<1>6. IsChain(succ, first, count)
  <2> SUFFICES ASSUME NEW s \in first .. first + count - 1
               PROVE  /\ s \in DOMAIN succ
                      /\ succ[s] = IF s = first + count - 1 THEN EndOfChain ELSE s + 1
    BY DEF IsChain
  <2>1. s \in 0 .. sector - 1 /\ In(s, run)
    BY <1>1 DEF In
  <2> QED
    BY <1>4, <2>1 DEF LinkedIn, Link
<1>7. first \in Nat /\ count \in Nat \ {0}
  OBVIOUS
<1> HIDE DEF first, count
<1>8. Reader!Walked(succ, first) = [i \in 1 .. count |-> first + i - 1]
  BY <1>5, <1>6, <1>7, WalkedRun
<1> QED
  BY <1>2, <1>8 DEF first, count, read

-----------------------------------------------------------------------------
(***************************************************************************)
(* Sectors, and the directory.                                             *)
(***************************************************************************)

\* The sectors of a run hold the parts of whole, in order.
Holds(run, whole, unit) ==
  \A s \in run.start .. run.start + run.count - 1 : Image[s] = [data |-> Part(whole, unit, s - run.start)]

\* The bytes of a chain are those that its sectors hold.
LEMMA RunIsRead ==
  ASSUME Finished, NEW run, NEW whole \in Seq(Nat \X Nat), LinkedIn(fat, run),
         run.start \in Nat, run.count \in Nat \ {0}, run.start + run.count <= sector,
         Len(whole) = run.count * SectorSize, Holds(run, whole, SectorSize)
  PROVE  Reader!Data(Image, Reader!Chain(Image, Reader!buildFAT(Image, Header), run.start)) = whole
<1> DEFINE sectors == Reader!Chain(Image, Reader!buildFAT(Image, Header), run.start)
           parts == [k \in DOMAIN sectors |-> Image[sectors[k]].data]
           first == run.start
           count == run.count
<1>1. sectors = [i \in 1 .. count |-> first + i - 1]
  BY RunIsWalked
<1>2. Reader!Data(Image, sectors) = Reader!FlattenSeq(parts)
  BY DEF Reader!Data
<1> HIDE DEF sectors
<1>3. first \in Nat /\ count \in Nat \ {0} /\ SectorSize \in Nat \ {0}
  BY SizesArePositive
<1>4. \A k \in 1 .. count : Image[first + k - 1].data = Part(whole, SectorSize, k - 1)
  <2> SUFFICES ASSUME NEW k \in 1 .. count
               PROVE  Image[first + k - 1].data = Part(whole, SectorSize, k - 1)
    OBVIOUS
  <2> DEFINE s == first + k - 1
  <2>1. s \in first .. first + count - 1 /\ s - first = k - 1
    BY <1>3
  <2> HIDE DEF s
  <2>2. Image[s] = [data |-> Part(whole, SectorSize, k - 1)]
    BY <2>1 DEF Holds
  <2> QED
    BY <2>2 DEF s
<1>5. parts = [k \in 1 .. count |-> Part(whole, SectorSize, k - 1)]
  BY <1>1, <1>4
<1> HIDE DEF parts, first, count
<1>6. Reader!FlattenSeq(parts) = whole
  BY <1>3, <1>5, FlattenParts DEF count
<1> QED
  BY <1>2, <1>6 DEF sectors

\* Where a run of the finished layout may lie.
LEMMA PlacedRuns ==
  ASSUME Finished
  PROVE  /\ \A r \in {container, miniFatRun, dirRun} :
              /\ LinkedIn(fat, r) /\ (r.count > 0 => r.start + r.count <= sector)
         /\ \A n \in Large :
              /\ LinkedIn(fat, LargeRun(n)) /\ LargeRun(n).start = start[n] /\ start[n] \in Nat
              /\ LargeRun(n).count = CeilDiv(nodes[n], SectorSize)
              /\ start[n] + LargeRun(n).count <= sector
<1>1. /\ \A r \in {container, miniFatRun, dirRun} : LinkedIn(fat, r)
      /\ \A n \in Large : LinkedIn(fat, LargeRun(n))
  BY DEF Finished, ReadInv, Links
<1>2. \A r \in {container, miniFatRun, dirRun} : r.count > 0 => r.start + r.count <= sector
  BY DEF Finished, LayoutInv, Apart, Between
<1>3. \A n \in Large : start[n] \in Nat /\ start[n] + LargeRun(n).count <= sector
  BY DEF Finished, LayoutInv, Apart, ReadInv, Lengths, PlacedLarge
<1>4. \A n \in Large : LargeRun(n).start = start[n] /\ LargeRun(n).count = CeilDiv(nodes[n], SectorSize)
  BY DEF LargeRun, Run
<1> QED
  BY <1>1, <1>2, <1>3, <1>4

\* A sector of one run of the finished layout is in no other.
LEMMA RunsApart ==
  ASSUME Finished, NEW s \in Int
  PROVE  /\ In(s, dirRun) => ~In(s, fatRun)
         /\ In(s, miniFatRun) => ~In(s, fatRun) /\ ~In(s, dirRun)
         /\ In(s, container) => ~In(s, fatRun) /\ ~In(s, dirRun) /\ ~In(s, miniFatRun)
         /\ \A n \in Large : In(s, LargeRun(n)) =>
              /\ ~In(s, fatRun) /\ ~In(s, dirRun) /\ ~In(s, miniFatRun) /\ ~In(s, container)
              /\ \A m \in Large : In(s, LargeRun(m)) => m = n
<1>1. LayoutInv /\ BelowFat /\ pc \in {"chain", "done"}
  BY DEF Finished, ReadInv
<1>2. \A run, other : Disjoint(run, other) => ~(In(s, run) /\ In(s, other))
  BY DEF Disjoint
<1> QED
  BY <1>1, <1>2, RunsDisjoint

\* The mini stream's sectors hold the mini stream.
LEMMA ContainerHolds ==
  ASSUME Finished, Len(miniStream) > 0
  PROVE  Holds(container, Padded(miniStream, SectorSize), SectorSize)
<1> SUFFICES ASSUME NEW s \in container.start .. container.start + container.count - 1
             PROVE  Image[s] = [data |-> Part(Padded(miniStream, SectorSize), SectorSize,
                                              s - container.start)]
  BY DEF Holds
<1>1. RunFor(container, Len(miniStream), SectorSize)
  BY DEF Finished, ReadInv, Lengths
<1>2. container.start \in Nat /\ container.count \in Nat
  <2>1. container.start \in Nat
    BY <1>1 DEF RunFor
  <2>2. container.count \in Nat
    BY FinishedIs
  <2> QED
    BY <2>1, <2>2
<1>3. s \in Nat /\ In(s, container) /\ container.count > 0
  BY <1>2 DEF In
<1>4. s \in 0 .. sector - 1
  <2>1. container.start + container.count <= sector /\ sector \in Nat
    BY <1>3, PlacedRuns, FinishedIs
  <2> QED
    BY <1>2, <2>1
<1>5. Image[s] = Sector(s)
  BY <1>4, FinishedIs
<1> QED
  BY <1>3, <1>5, RunsApart DEF Sector

\* The sectors of a large stream hold the stream.
LEMMA LargeHolds ==
  ASSUME Finished, NEW n \in Large
  PROVE  Holds(LargeRun(n), Padded(Bytes(n), SectorSize), SectorSize)
<1>1. /\ LargeRun(n).start = start[n] /\ start[n] \in Nat
      /\ start[n] + LargeRun(n).count <= sector /\ sector \in Nat
      /\ LargeRun(n).count \in Nat
  <2>1. CeilDiv(nodes[n], SectorSize) \in Nat /\ sector \in Nat
    BY Sizes, FinishedIs DEF Finished, LayoutInv
  <2> QED
    BY <2>1, PlacedRuns
<1> SUFFICES ASSUME NEW s \in start[n] .. start[n] + LargeRun(n).count - 1
             PROVE  Image[s] = [data |-> Part(Padded(Bytes(n), SectorSize), SectorSize, s - start[n])]
  BY <1>1 DEF Holds
<1>2. s \in Nat /\ In(s, LargeRun(n)) /\ s \in 0 .. sector - 1
  BY <1>1 DEF In
<1>3. /\ ~In(s, fatRun) /\ ~In(s, dirRun) /\ ~In(s, miniFatRun) /\ ~In(s, container)
      /\ \A m \in Large : In(s, LargeRun(m)) => m = n
  BY <1>2, RunsApart
<1>4. (CHOOSE m \in Large : In(s, LargeRun(m))) = n
  BY <1>2, <1>3
<1>5. Image[s] = Sector(s)
  BY <1>2, FinishedIs
<1> QED
  BY <1>3, <1>4, <1>5 DEF Sector

\* The entries are numbered from 1, after the root.
LEMMA Numbered ==
  ASSUME Finished
  PROVE  /\ DOMAIN nodes = 1 .. Len(nodes) /\ Len(nodes) \in Nat
         /\ Streams \subseteq 1 .. Len(nodes)
         /\ \A n \in Streams : n \in Nat /\ nodes[n] \in Nat /\ (n \in Large \/ n \in Mini)
<1>1. PICK m \in 0 .. MaxNodes : nodes \in [1 .. m -> {Storage} \cup 0 .. MaxSize]
  BY DEF Finished, LayoutInv, TypeOK, Inputs
<1>2. m \in Nat /\ Len(nodes) = m /\ DOMAIN nodes = 1 .. m
  BY <1>1, CfbLayoutAssumption DEF CfbLayoutAssumption
<1> QED
  BY <1>1, <1>2, CfbLayoutAssumption DEF CfbLayoutAssumption, Streams, Mini

\* Open has the directory that writeDirectory laid out, entry by entry.
LEMMA EntriesAreRead ==
  ASSUME Finished
  PROVE  LET read == Reader!Entries(Image, Header)
         IN  /\ Len(read) \in Nat /\ Len(read) >= Len(nodes) + 1
             /\ \A n \in 0 .. Len(nodes) : read[n + 1] = Entry(n)
<1> DEFINE count == dirRun.count
           first == dirRun.start
           size == count * DirEntries
           S == {Entry(n) : n \in Nat}
           whole == [k \in 1 .. size |-> Entry(k - 1)]
           sectors == Reader!Chain(Image, Reader!buildFAT(Image, Header), Header.firstDir)
           parts == [k \in DOMAIN sectors |-> Image[sectors[k]].entries]
<1>1. /\ count = CeilDiv(Len(nodes) + 1, DirEntries) /\ first \in Nat
      /\ Len(nodes) \in Nat /\ DirEntries \in Nat \ {0}
  BY FinishedIs, SizesArePositive DEF Finished, ReadInv, Lengths, RunFor
<1>2. count \in Nat \ {0} /\ size \in Nat /\ Len(nodes) + 1 <= size
  <2> DEFINE used == Len(nodes) + 1
  <2>1. used \in Nat /\ used > 0 /\ DirEntries \in Nat \ {0}
    BY <1>1
  <2>2. count = CeilDiv(used, DirEntries)
    BY <1>1
  <2> HIDE DEF used
  <2>3. /\ CeilDiv(used, DirEntries) \in Nat /\ CeilDiv(used, DirEntries) * DirEntries \in Nat
        /\ used <= CeilDiv(used, DirEntries) * DirEntries /\ CeilDiv(used, DirEntries) > 0
    BY <2>1, CeilDivCovers
  <2> HIDE DEF count
  <2>4. count \in Nat \ {0} /\ count * DirEntries \in Nat /\ used <= count * DirEntries
    BY <2>2, <2>3
  <2> QED
    BY <2>4 DEF used
<1>3. LinkedIn(fat, dirRun) /\ first + count <= sector /\ sector \in Nat
  <2>1. LinkedIn(fat, dirRun) /\ (dirRun.count > 0 => dirRun.start + dirRun.count <= sector)
    BY PlacedRuns
  <2>2. count > 0
    BY <1>2
  <2>3. sector \in Nat
    BY FinishedIs
  <2> QED
    BY <2>1, <2>2, <2>3
<1>4. Header.firstDir = first
  BY DEF Header
<1>5. sectors = [i \in 1 .. count |-> first + i - 1]
  BY <1>1, <1>2, <1>3, <1>4, RunIsWalked
<1>6. Reader!Entries(Image, Header) = Reader!FlattenSeq(parts)
  BY DEF Reader!Entries
<1> HIDE DEF sectors, size
<1>7. whole \in Seq(S) /\ Len(whole) = size
  <2>1. whole \in [1 .. size -> S]
    BY <1>2
  <2> QED
    BY <1>2, <2>1, SeqDef
<1>8. \A k \in 1 .. count : Image[first + k - 1].entries = Part(whole, DirEntries, k - 1)
  <2> SUFFICES ASSUME NEW k \in 1 .. count
               PROVE  Image[first + k - 1].entries = Part(whole, DirEntries, k - 1)
    OBVIOUS
  <2> DEFINE s == first + k - 1
             lo == (k - 1) * DirEntries
             hi == k * DirEntries
             part == [j \in 1 .. DirEntries |-> Entry(lo + j - 1)]
  <2>1. s \in 0 .. sector - 1 /\ In(s, dirRun) /\ s - first = k - 1
    BY <1>1, <1>2, <1>3 DEF In
  <2>2. ~In(s, fatRun)
    BY <2>1, RunsApart
  <2> HIDE DEF s
  <2>3. Sector(s) = [entries |-> [j \in 1 .. DirEntries |-> Entry((s - first) * DirEntries + j - 1)]]
    BY <2>1, <2>2 DEF Sector
  <2>4. Image[s].entries = part
    <3>1. Image[s] = Sector(s)
      BY <2>1, FinishedIs
    <3>2. (s - first) * DirEntries = lo
      BY <2>1
    <3> HIDE DEF lo
    <3> QED
      BY <2>3, <3>1, <3>2
  <2>5. lo \in Nat /\ hi \in Nat /\ lo + DirEntries = hi /\ hi <= size
    BY <1>1, <1>2, Units DEF size
  <2>6. Part(whole, DirEntries, k - 1) = SubSeq(whole, lo + 1, hi)
    <3> HIDE DEF whole
    <3>1. k - 1 + 1 = k
      OBVIOUS
    <3> QED
      BY <3>1 DEF Part
  <2> HIDE DEF lo, hi
  <2>7. \A j \in lo + 1 .. hi : whole[j] = Entry(j - 1) /\ whole[j] \in S
    <3> SUFFICES ASSUME NEW j \in lo + 1 .. hi
                 PROVE  whole[j] = Entry(j - 1) /\ Entry(j - 1) \in S
      OBVIOUS
    <3>1. j \in 1 .. size /\ j - 1 \in Nat
      BY <1>2, <2>5
    <3> QED
      BY <3>1
  <2>8. /\ SubSeq(whole, lo + 1, hi) \in Seq(S) /\ Len(SubSeq(whole, lo + 1, hi)) = DirEntries
        /\ \A j \in 1 .. DirEntries : SubSeq(whole, lo + 1, hi)[j] = whole[lo + j]
    <3> HIDE DEF whole, S
    <3>1. /\ SubSeq(whole, lo + 1, hi) \in Seq(S)
          /\ Len(SubSeq(whole, lo + 1, hi)) = IF lo + 1 <= hi THEN hi - (lo + 1) + 1 ELSE 0
          /\ \A j \in 1 .. hi - (lo + 1) + 1 : SubSeq(whole, lo + 1, hi)[j] = whole[(lo + 1) + j - 1]
      BY <2>5, <2>7, SubSeqProperties
    <3>2. hi - (lo + 1) + 1 = DirEntries /\ lo + 1 <= hi
      BY <1>1, <2>5
    <3>3. \A j \in 1 .. DirEntries : (lo + 1) + j - 1 = lo + j
      BY <2>5
    <3> QED
      BY <3>1, <3>2, <3>3
  <2>9. part \in Seq(S) /\ Len(part) = DirEntries
    <3>1. part \in [1 .. DirEntries -> S]
      BY <1>1, <2>5
    <3> QED
      BY <1>1, <3>1, SeqDef
  <2>10. \A j \in 1 .. DirEntries : part[j] = whole[lo + j]
    <3>1. \A j \in 1 .. DirEntries : part[j] = Entry((lo + j) - 1)
      <4>1. \A j \in 1 .. DirEntries : part[j] = Entry(lo + (j - 1))
        OBVIOUS
      <4>2. \A j \in 1 .. DirEntries : lo + (j - 1) = (lo + j) - 1
        BY <1>1, <2>5
      <4> HIDE DEF part
      <4> QED
        BY <4>1, <4>2
    <3>2. \A j \in 1 .. DirEntries : lo + j \in lo + 1 .. hi
      BY <1>1, <2>5
    <3> HIDE DEF part, whole, S
    <3>3. \A j \in 1 .. DirEntries : whole[lo + j] = Entry((lo + j) - 1)
      BY <2>7, <3>2
    <3> QED
      BY <3>1, <3>3
  <2> HIDE DEF part, whole, S
  <2>11. part = SubSeq(whole, lo + 1, hi)
    BY <2>8, <2>9, <2>10, SeqEqual
  <2> QED
    BY <2>4, <2>6, <2>11 DEF s
<1>9. parts = [k \in 1 .. count |-> Part(whole, DirEntries, k - 1)]
  BY <1>5, <1>8
<1> HIDE DEF parts, whole, S, count, first
<1>10. Reader!FlattenSeq(parts) = whole
  BY <1>1, <1>2, <1>7, <1>9, FlattenParts DEF size
<1>11. \A n \in 0 .. Len(nodes) : whole[n + 1] = Entry(n)
  BY <1>1, <1>2 DEF whole
<1> QED
  BY <1>1, <1>2, <1>6, <1>7, <1>10, <1>11

-----------------------------------------------------------------------------
(***************************************************************************)
(* The mini stream and its FAT.                                            *)
(***************************************************************************)

\* The mini stream is read back whole.
LEMMA MiniStreamIsRead ==
  ASSUME Finished
  PROVE  Reader!MiniData(Image, Header) = miniStream
<1> DEFINE read == Reader!Entries(Image, Header)
           bytes == Reader!Data(Image, Reader!Chain(Image, Reader!buildFAT(Image, Header), container.start))
<1>1. read[1] = [start |-> container.start, size |-> Len(miniStream)]
  <2>1. read[0 + 1] = Entry(0) /\ 0 + 1 = 1
    BY EntriesAreRead, FinishedIs
  <2>2. 0 \notin Streams
    BY Numbered
  <2>3. Entry(0) = [start |-> container.start, size |-> Len(miniStream)]
    BY <2>2 DEF Entry
  <2> QED
    BY <2>1, <2>3
<1>2. Reader!MiniData(Image, Header)
        = IF container.start \in {EndOfChain, FreeSect} \/ Len(miniStream) = 0 THEN << >>
          ELSE Reader!Truncated(bytes, Len(miniStream))
  BY <1>1 DEF Reader!MiniData, Reader!EndOfChain, Reader!FreeSect, EndOfChain, FreeSect
<1> HIDE DEF bytes, read
<1>3. miniStream \in Seq(Nat \X Nat) /\ Len(miniStream) \in Nat
  BY FinishedIs
<1>4. CASE Len(miniStream) = 0
  BY <1>2, <1>3, <1>4, EmptySeq
<1>5. CASE Len(miniStream) > 0
  <2> DEFINE whole == Padded(miniStream, SectorSize)
  <2>1. RunFor(container, Len(miniStream), SectorSize)
    BY DEF Finished, ReadInv, Lengths
  <2>2. /\ container.start \in Nat /\ container.count = CeilDiv(Len(miniStream), SectorSize)
        /\ container.count \in Nat \ {0}
    <3>1. CeilDiv(Len(miniStream), SectorSize) \in Nat \ {0}
      <4> DEFINE l == Len(miniStream)
      <4>1. l \in Nat /\ l > 0 /\ SectorSize \in Nat \ {0}
        BY <1>3, <1>5, SizesArePositive
      <4> HIDE DEF l
      <4>2. CeilDiv(l, SectorSize) \in Nat /\ CeilDiv(l, SectorSize) > 0
        BY <4>1, CeilDivCovers
      <4> QED
        BY <4>2 DEF l
    <3> QED
      BY <1>3, <1>5, <2>1, <3>1 DEF RunFor
  <2>3. LinkedIn(fat, container) /\ container.start + container.count <= sector
    BY <2>2, PlacedRuns
  <2>4. Zero \in Nat \X Nat
    BY DEF Zero
  <2>5. /\ whole \in Seq(Nat \X Nat) /\ Len(whole) = container.count * SectorSize
        /\ Reader!Truncated(whole, Len(miniStream)) = miniStream
    BY <1>3, <2>2, <2>4, PaddedIs, SizesArePositive
  <2>6. Holds(container, whole, SectorSize)
    BY <1>5, ContainerHolds
  <2> HIDE DEF whole
  <2>7. bytes = whole
    BY <2>2, <2>3, <2>5, <2>6, RunIsRead DEF bytes
  <2>8. ~(container.start \in {EndOfChain, FreeSect} \/ Len(miniStream) = 0)
    BY <1>5, <2>2 DEF EndOfChain, FreeSect
  <2> QED
    BY <1>2, <2>5, <2>7, <2>8
<1> QED
  BY <1>3, <1>4, <1>5

\* Open has the mini FAT: its words, and free ones up to the end of a sector.
LEMMA MiniFatIsRead ==
  ASSUME Finished, Len(miniFat) > 0
  PROVE  LET read == Reader!MiniFAT(Image, Header)
         IN  /\ \E m \in Nat : DOMAIN read = 0 .. m - 1 /\ Len(miniFat) <= m
             /\ \A n \in 0 .. Len(miniFat) - 1 : read[n] = miniFat[n + 1]
<1> DEFINE count == miniFatRun.count
           first == miniFatRun.start
           size == count * FatEntries
           words == [k \in 1 .. size |-> IF k <= Len(miniFat) THEN miniFat[k] ELSE FreeSect]
           sectors == Reader!Chain(Image, Reader!buildFAT(Image, Header), Header.firstMiniFat)
           read == Reader!MiniFAT(Image, Header)
<1>1. RunFor(miniFatRun, Len(miniFat), FatEntries)
  BY DEF Finished, ReadInv, Lengths
<1>2. /\ first \in Nat /\ count = CeilDiv(Len(miniFat), FatEntries) /\ count \in Nat \ {0}
      /\ size \in Nat /\ Len(miniFat) <= size /\ FatEntries \in Nat \ {0} /\ Len(miniFat) \in Nat
  <2>1. Len(miniFat) \in Nat /\ FatEntries \in Nat \ {0}
    BY FinishedIs, SizesArePositive
  <2> DEFINE c == CeilDiv(Len(miniFat), FatEntries)
  <2>2. c \in Nat \ {0} /\ c * FatEntries \in Nat /\ Len(miniFat) <= c * FatEntries
    <3> DEFINE l == Len(miniFat)
    <3>1. l \in Nat /\ l > 0 /\ FatEntries \in Nat \ {0}
      BY <2>1
    <3> HIDE DEF l
    <3>2. /\ CeilDiv(l, FatEntries) \in Nat /\ CeilDiv(l, FatEntries) > 0
          /\ CeilDiv(l, FatEntries) * FatEntries \in Nat /\ l <= CeilDiv(l, FatEntries) * FatEntries
      BY <3>1, CeilDivCovers
    <3> QED
      BY <3>2 DEF l
  <2>3. first \in Nat /\ count = c
    BY <1>1, <2>1 DEF RunFor
  <2> HIDE DEF c
  <2>4. size \in Nat /\ Len(miniFat) <= size
    BY <2>2, <2>3
  <2> QED
    BY <2>1, <2>2, <2>3, <2>4 DEF c
<1>3. LinkedIn(fat, miniFatRun) /\ first + count <= sector /\ sector \in Nat
  <2>1. LinkedIn(fat, miniFatRun) /\ (count > 0 => first + count <= sector)
    BY PlacedRuns
  <2>2. sector \in Nat
    BY FinishedIs
  <2> QED
    BY <1>2, <2>1, <2>2
<1>4. sectors = [i \in 1 .. count |-> first + i - 1]
  <2>1. Header.firstMiniFat = first
    BY DEF Header
  <2> QED
    BY <1>2, <1>3, <2>1, RunIsWalked
<1>5. read = [n \in 0 .. Len(sectors) * FatEntries - 1 |->
                Image[sectors[n \div FatEntries + 1]].words[(n % FatEntries) + 1]]
  BY DEF Reader!MiniFAT
<1>6. Len(sectors) = count
  BY <1>2, <1>4
<1> HIDE DEF read, sectors, size
<1>7. DOMAIN read = 0 .. size - 1
  BY <1>5, <1>6 DEF size
<1>8. \A n \in 0 .. Len(miniFat) - 1 : read[n] = miniFat[n + 1]
  <2> SUFFICES ASSUME NEW n \in 0 .. Len(miniFat) - 1
               PROVE  read[n] = miniFat[n + 1]
    OBVIOUS
  <2> DEFINE q == n \div FatEntries
             r == n % FatEntries
             s == first + q
             lo == q * FatEntries
  <2>1. n \in 0 .. size - 1
    BY <1>2
  <2>2. read[n] = Image[sectors[q + 1]].words[r + 1]
    BY <1>5, <1>6, <2>1 DEF size
  <2>3. q \in 0 .. count - 1 /\ r \in 0 .. FatEntries - 1 /\ n = lo + r
    BY <1>2, <2>1, Divided DEF size
  <2> HIDE DEF q, r
  <2>4. sectors[q + 1] = s
    BY <1>2, <1>4, <2>3
  <2>5. s \in 0 .. sector - 1 /\ In(s, miniFatRun) /\ s - first = q
    BY <1>2, <1>3, <2>3 DEF In
  <2>6. ~In(s, fatRun) /\ ~In(s, dirRun)
    BY <2>5, RunsApart
  <2> HIDE DEF s
  <2>7. Image[s] = [words |-> Part(words, FatEntries, q)]
    <3>1. Image[s] = Sector(s)
      BY <2>5, FinishedIs
    <3>2. Sector(s) = [words |-> Part(words, FatEntries, s - first)]
      BY <2>5, <2>6 DEF Sector, size
    <3> QED
      BY <2>5, <3>1, <3>2
  <2>8. /\ q + 1 \in 1 .. count /\ lo \in Nat /\ lo + FatEntries = (q + 1) * FatEntries
        /\ (q + 1) * FatEntries <= size
    <3> DEFINE i == q + 1
    <3>1. i \in 1 .. count /\ i - 1 = q
      BY <1>2, <2>3
    <3> HIDE DEF i
    <3>2. /\ (i - 1) * FatEntries \in Nat
          /\ (i - 1) * FatEntries + FatEntries = i * FatEntries
          /\ i * FatEntries <= size
      BY <1>2, <3>1, Units DEF size
    <3> QED
      BY <3>1, <3>2 DEF i
  <2> DEFINE hi == (q + 1) * FatEntries
  <2>9. Part(words, FatEntries, q) = SubSeq(words, lo + 1, hi)
    BY DEF Part
  <2> HIDE DEF lo, hi
  <2>10. \A k \in lo + 1 .. hi : words[k] \in Int
    <3> SUFFICES ASSUME NEW k \in lo + 1 .. hi
                 PROVE  words[k] \in Int
      OBVIOUS
    <3>1. k \in 1 .. size
      BY <1>2, <2>8 DEF hi
    <3>2. k <= Len(miniFat) => miniFat[k] \in Int
      BY <3>1, FinishedIs, ElementOfSeq
    <3> QED
      BY <3>1, <3>2 DEF FreeSect
  <2>11. SubSeq(words, lo + 1, hi)[r + 1] = words[n + 1]
    <3> HIDE DEF words
    <3> DEFINE k == r + 1
    <3>1. k \in 1 .. hi - (lo + 1) + 1 /\ (lo + 1) + k - 1 = n + 1
      BY <1>2, <2>3, <2>8 DEF hi
    <3> HIDE DEF k
    <3>2. lo + 1 \in Int /\ hi \in Int
      BY <1>2, <2>8 DEF hi
    <3>3. SubSeq(words, lo + 1, hi)[k] = words[(lo + 1) + k - 1]
      BY <2>10, <3>1, <3>2, SubSeqProperties
    <3> QED
      BY <3>1, <3>3 DEF k
  <2>12. words[n + 1] = miniFat[n + 1]
    BY <1>2
  <2>13. Image[s].words[r + 1] = words[n + 1]
    <3> HIDE DEF words
    <3>1. Image[s].words = SubSeq(words, lo + 1, hi)
      <4>1. Image[s].words = Part(words, FatEntries, q)
        BY <2>7
      <4> QED
        BY <2>9, <4>1, Zenon
    <3> QED
      BY <2>11, <3>1, Zenon
  <2> HIDE DEF words
  <2> QED
    BY <2>2, <2>4, <2>12, <2>13
<1> QED
  BY <1>2, <1>7, <1>8 DEF read

-----------------------------------------------------------------------------
(***************************************************************************)
(* The streams.                                                            *)
(***************************************************************************)

\* A unit of a run of units of s is a part of what the run holds.
UnitsOf(s, u, first, count) ==
  \A k \in 1 .. count :
    SubSeq(s, (first + k - 1) * u + 1, ((first + k - 1) + 1) * u)
      = Part(SubSeq(s, first * u + 1, (first + count) * u), u, k - 1)

\* The mini sectors of a stream are the parts of what it holds.
LEMMA UnitsOfRun ==
  ASSUME NEW S, NEW s \in Seq(S), NEW u \in Nat \ {0}, NEW first \in Nat, NEW count \in Nat \ {0},
         NEW all \in Nat, first + count <= all, Len(s) = all * u
  PROVE  UnitsOf(s, u, first, count)
<1> SUFFICES ASSUME NEW k \in 1 .. count, NEW m, m = first + k - 1
             PROVE  SubSeq(s, m * u + 1, (m + 1) * u)
                      = Part(SubSeq(s, first * u + 1, (first + count) * u), u, k - 1)
  BY DEF UnitsOf
<1> DEFINE a == first * u
           b == (first + count) * u
           c == (k - 1) * u
<1>1. c \in Nat /\ k * u = c + u /\ c + u <= count * u
  BY Units
<1>2. a \in Nat /\ b = a + count * u
  OBVIOUS
<1>3. b <= Len(s)
  <2> DEFINE i == first + count
  <2>1. i \in 1 .. all
    OBVIOUS
  <2> HIDE DEF i
  <2>2. i * u <= all * u
    BY <2>1, Units
  <2> QED
    BY <2>2 DEF i
<1>4. m * u = a + c /\ (m + 1) * u = a + c + u
  OBVIOUS
<1>5. Part(SubSeq(s, a + 1, b), u, k - 1) = SubSeq(SubSeq(s, a + 1, b), c + 1, c + u)
  <2>1. k - 1 + 1 = k
    OBVIOUS
  <2>2. \A t : Part(t, u, k - 1) = SubSeq(t, c + 1, (k - 1 + 1) * u)
    BY DEF Part
  <2> HIDE DEF a, b, c
  <2> QED
    BY <1>1, <2>1, <2>2
<1> HIDE DEF a, b, c
<1>6. SubSeq(SubSeq(s, a + 1, b), c + 1, c + u) = SubSeq(s, a + c + 1, a + c + u)
  <2> DEFINE i == a + 1
             f == c + 1
             l == c + u
  <2>1. i \in 1 .. Len(s) /\ b \in 1 .. Len(s) /\ f \in 1 .. b - i + 1 /\ l \in 1 .. b - i + 1
    BY <1>1, <1>2, <1>3, LenProperties
  <2>2. i + f - 1 = a + c + 1 /\ i + l - 1 = a + c + u
    BY <1>1, <1>2
  <2> HIDE DEF i, f, l
  <2>3. SubSeq(SubSeq(s, i, b), f, l) = SubSeq(s, i + f - 1, i + l - 1)
    BY <2>1, SubSeqOfSubSeq
  <2> QED
    BY <2>2, <2>3 DEF i, f, l
<1> QED
  BY <1>4, <1>5, <1>6 DEF a, b

\* Whatever has a byte takes a unit.
LEMMA CeilDivPositive ==
  ASSUME NEW a \in Nat \ {0}, NEW b \in Nat \ {0}
  PROVE  CeilDiv(a, b) \in Nat \ {0}
<1>1. CeilDiv(a, b) \in Nat /\ CeilDiv(a, b) > 0
  BY CeilDivCovers
<1> HIDE DEF CeilDiv
<1> QED
  BY <1>1

\* The directory entry of a stream.
LEMMA EntryOf ==
  ASSUME Finished, NEW n \in Streams
  PROVE  /\ n \in 0 .. Len(nodes) /\ n \in Nat /\ nodes[n] \in Nat /\ n \in Large \cup Mini
         /\ Entry(n).start = start[n] /\ Entry(n).size = nodes[n]
<1>1. n \in 0 .. Len(nodes) /\ n # 0 /\ n \in Nat /\ nodes[n] \in Nat /\ n \in Large \cup Mini
  BY Numbered
<1>2. Entry(n) = [start |-> start[n], size |-> nodes[n]]
  BY <1>1 DEF Entry
<1> QED
  BY <1>1, <1>2

\* A stream with sectors of its own is read back.
LEMMA LargeIsRead ==
  ASSUME Finished, NEW n \in Large
  PROVE  Reader!Content(Image, Header, Entry(n)) = Bytes(n)
<1> DEFINE run == LargeRun(n)
           e == Entry(n)
           whole == Padded(Bytes(n), SectorSize)
           sectors == Reader!Chain(Image, Reader!buildFAT(Image, Header), e.start)
<1>1. n \in Streams /\ nodes[n] \in Nat /\ nodes[n] >= Cutoff
  BY EntryOf DEF Large
<1>2. /\ n \in Nat /\ e.start = start[n] /\ e.size = nodes[n]
      /\ e.size > 0 /\ ~(e.size < Header.miniCutoff) /\ e.size # 0
  <2>1. Header.miniCutoff = Cutoff
    BY DEF Header
  <2>2. n \in Nat /\ e.start = start[n] /\ e.size = nodes[n]
    BY <1>1, EntryOf
  <2> QED
    BY <1>1, <2>1, <2>2, SizesArePositive
<1>3. /\ LinkedIn(fat, run) /\ run.start = start[n] /\ start[n] \in Nat
      /\ run.count = CeilDiv(nodes[n], SectorSize) /\ run.start + run.count <= sector
  BY PlacedRuns
<1>4. run.count \in Nat \ {0}
  <2>1. nodes[n] \in Nat \ {0}
    BY <1>1, <1>2
  <2>2. CeilDiv(nodes[n], SectorSize) \in Nat \ {0}
    BY <2>1, CeilDivPositive, SizesArePositive
  <2> QED
    BY <1>3, <2>2
<1>5. /\ whole \in Seq(Nat \X Nat) /\ Len(whole) = run.count * SectorSize
      /\ Reader!Truncated(whole, nodes[n]) = Bytes(n)
  BY <1>1, <1>2, <1>3, StreamBytes, SizesArePositive
<1>6. Holds(run, whole, SectorSize)
  BY LargeHolds
<1> HIDE DEF run, whole, e
<1>7. Reader!Data(Image, sectors) = whole
  BY <1>2, <1>3, <1>4, <1>5, <1>6, RunIsRead
<1>8. e.start \notin {Reader!EndOfChain, Reader!FreeSect}
  BY <1>2, <1>3 DEF Reader!EndOfChain, Reader!FreeSect
<1>9. Reader!Content(Image, Header, e)
        = IF e.start \in {Reader!EndOfChain, Reader!FreeSect} THEN << >>
          ELSE Reader!Truncated(Reader!Data(Image, sectors), e.size)
  BY <1>2 DEF Reader!Content
<1> QED
  BY <1>2, <1>5, <1>7, <1>8, <1>9 DEF e

\* The mini sectors of a small stream are walked in order.
LEMMA MiniIsWalked ==
  ASSUME Finished, NEW n \in Mini, nodes[n] > 0
  PROVE  LET read  == Reader!MiniFAT(Image, Header)
             whole == {k \in DOMAIN read : (k + 1) * MiniSize <= Len(miniStream)}
         IN  Reader!Walked([k \in whole |-> read[k]], start[n])
               = [i \in 1 .. CeilDiv(nodes[n], MiniSize) |-> start[n] + i - 1]
<1> DEFINE first == start[n]
           count == CeilDiv(nodes[n], MiniSize)
           read  == Reader!MiniFAT(Image, Header)
           all   == Len(miniFat)
           whole == {k \in DOMAIN read : (k + 1) * MiniSize <= Len(miniStream)}
           succ  == [k \in whole |-> read[k]]
<1>1. nodes[n] \in Nat /\ MiniSize \in Nat \ {0} /\ all \in Nat
  BY EntryOf, SizesArePositive, FinishedIs DEF Mini
<1>2. count \in Nat \ {0}
  BY <1>1, CeilDivPositive
<1>3. Stored(n) /\ Len(miniStream) = all * MiniSize
  BY DEF Finished, ReadInv, MiniInv, PlacedMini
<1>4. /\ first \in Nat /\ first + count <= all
      /\ \A i \in 1 .. count : miniFat[first + i] = IF i = count THEN EndOfChain ELSE first + i
  BY <1>3 DEF Stored
<1>5. PICK m \in Nat : DOMAIN read = 0 .. m - 1 /\ all <= m
  <2>1. Len(miniFat) > 0
    BY <1>1, <1>2, <1>4
  <2> QED
    BY <2>1, MiniFatIsRead
<1>6. \A k \in 0 .. all - 1 : read[k] = miniFat[k + 1]
  <2>1. Len(miniFat) > 0
    BY <1>1, <1>2, <1>4
  <2> QED
    BY <2>1, MiniFatIsRead
<1> HIDE DEF read, all, first, count
<1>7. whole \subseteq 0 .. m - 1
  BY <1>5
<1>8. \A k \in 0 .. all - 1 : k \in whole
  <2> SUFFICES ASSUME NEW k \in 0 .. all - 1
               PROVE  k \in DOMAIN read /\ (k + 1) * MiniSize <= Len(miniStream)
    OBVIOUS
  <2> DEFINE i == k + 1
  <2>1. i \in 1 .. all
    BY <1>1
  <2> HIDE DEF i
  <2>2. i * MiniSize <= all * MiniSize
    BY <1>1, <2>1, Units
  <2> QED
    BY <1>1, <1>3, <1>5, <2>2 DEF i
<1> HIDE DEF whole
<1>9. IsFiniteSet(DOMAIN succ) /\ EndOfChain \notin DOMAIN succ
  <2>1. IsFiniteSet(0 .. m - 1) /\ EndOfChain \notin 0 .. m - 1
    BY FS_Interval DEF EndOfChain
  <2> QED
    BY <1>7, <2>1, FS_Subset
<1>10. IsChain(succ, first, count)
  <2> SUFFICES ASSUME NEW s \in first .. first + count - 1
               PROVE  /\ s \in DOMAIN succ
                      /\ succ[s] = IF s = first + count - 1 THEN EndOfChain ELSE s + 1
    BY DEF IsChain
  <2> DEFINE i == s + 1 - first
  <2>1. i \in 1 .. count /\ first + i = s + 1 /\ s \in 0 .. all - 1
        /\ (i = count <=> s = first + count - 1)
    BY <1>1, <1>2, <1>4
  <2> HIDE DEF i
  <2>2. s \in whole /\ succ[s] = read[s]
    BY <1>8, <2>1
  <2>3. read[s] = miniFat[s + 1]
    BY <1>6, <2>1
  <2>4. miniFat[first + i] = IF i = count THEN EndOfChain ELSE first + i
    BY <1>4, <2>1
  <2> QED
    BY <2>1, <2>2, <2>3, <2>4
<1> HIDE DEF succ
<1>11. Reader!Walked(succ, first) = [i \in 1 .. count |-> first + i - 1]
  BY <1>2, <1>4, <1>9, <1>10, WalkedRun
<1> QED
  BY <1>11 DEF succ, whole, read, first, count

\* A stream of the mini stream is read back.
LEMMA SmallIsRead ==
  ASSUME Finished, NEW n \in Mini, nodes[n] > 0
  PROVE  Reader!Content(Image, Header, Entry(n)) = Bytes(n)
<1> DEFINE first == start[n]
           count == CeilDiv(nodes[n], MiniSize)
           e == Entry(n)
           all == Len(miniFat)
           read == Reader!MiniFAT(Image, Header)
           whole == {k \in DOMAIN read : (k + 1) * MiniSize <= Len(miniStream)}
           visited == Reader!Walked([k \in whole |-> read[k]], first)
           parts == [k \in DOMAIN visited |->
                       SubSeq(miniStream, visited[k] * MiniSize + 1, (visited[k] + 1) * MiniSize)]
           bytes == SubSeq(miniStream, first * MiniSize + 1, (first + count) * MiniSize)
<1>1. n \in Streams /\ nodes[n] \in Nat /\ nodes[n] < Cutoff /\ n \in Nat
  BY EntryOf, SizesArePositive DEF Mini, Large
<1>2. /\ e.start = first /\ e.size = nodes[n] /\ Header.miniCutoff = Cutoff
      /\ e.size # 0 /\ e.size > 0 /\ e.size < Header.miniCutoff
  <2>1. e.start = first /\ e.size = nodes[n]
    BY <1>1, EntryOf
  <2>2. Header.miniCutoff = Cutoff
    BY DEF Header
  <2> QED
    BY <1>1, <2>1, <2>2
<1>3. MiniSize \in Nat \ {0} /\ all \in Nat /\ miniStream \in Seq(Nat \X Nat)
  BY SizesArePositive, FinishedIs
<1>4. count \in Nat \ {0}
  BY <1>1, <1>2, <1>3, CeilDivPositive
<1>5. Stored(n) /\ Len(miniStream) = all * MiniSize
  BY DEF Finished, ReadInv, MiniInv, PlacedMini
<1>6. first \in Nat /\ first + count <= all /\ bytes = Padded(Bytes(n), MiniSize)
  BY <1>5 DEF Stored
<1>7. /\ bytes \in Seq(Nat \X Nat) /\ Len(bytes) = count * MiniSize
      /\ Reader!Truncated(bytes, nodes[n]) = Bytes(n)
  BY <1>1, <1>3, <1>6, StreamBytes
<1>8. miniStream # << >>
  <2>1. all * MiniSize > 0
    BY <1>3, <1>4, <1>6
  <2>2. Len(<< >>) = 0
    OBVIOUS
  <2> QED
    BY <1>5, <2>1, <2>2
<1>9. visited = [i \in 1 .. count |-> first + i - 1]
  BY MiniIsWalked
<1>10. Reader!MiniData(Image, Header) = miniStream
  BY MiniStreamIsRead
<1>11. Reader!readMiniChain(miniStream, read, first, nodes[n])
         = Reader!Truncated(Reader!FlattenSeq(parts), nodes[n])
  BY DEF Reader!readMiniChain
<1> HIDE DEF visited, read, e
<1>12. parts = [k \in 1 .. count |-> Part(bytes, MiniSize, k - 1)]
  <2>1. DOMAIN visited = 1 .. count
    BY <1>9
  <2>2. UnitsOf(miniStream, MiniSize, first, count)
    <3> HIDE DEF first, count, all
    <3>1. miniStream \in Seq(Nat \X Nat) /\ Len(miniStream) = all * MiniSize
          /\ all \in Nat /\ MiniSize \in Nat \ {0}
      BY <1>3, <1>5
    <3> QED
      BY <1>4, <1>6, <3>1, UnitsOfRun
  <2>3. \A k \in 1 .. count :
          SubSeq(miniStream, visited[k] * MiniSize + 1, (visited[k] + 1) * MiniSize)
            = Part(bytes, MiniSize, k - 1)
    <3> SUFFICES ASSUME NEW k \in 1 .. count
                 PROVE  SubSeq(miniStream, visited[k] * MiniSize + 1, (visited[k] + 1) * MiniSize)
                          = Part(bytes, MiniSize, k - 1)
      OBVIOUS
    <3>1. visited[k] = first + k - 1
      BY <1>9
    <3> DEFINE lo == (first + k - 1) * MiniSize + 1
               hi == ((first + k - 1) + 1) * MiniSize
    <3>2. SubSeq(miniStream, lo, hi) = Part(bytes, MiniSize, k - 1)
      BY <2>2 DEF UnitsOf
    <3>3. visited[k] * MiniSize + 1 = lo /\ (visited[k] + 1) * MiniSize = hi
      BY <3>1
    <3> HIDE DEF lo, hi, bytes, visited, count
    <3> QED
      BY <3>2, <3>3
  <2> HIDE DEF bytes, count
  <2> QED
    BY <2>1, <2>3
<1> HIDE DEF parts, bytes, count, first
<1>13. Reader!FlattenSeq(parts) = bytes
  BY <1>3, <1>4, <1>7, <1>12, FlattenParts
<1>14. Reader!Content(Image, Header, e) = Reader!readMiniChain(miniStream, read, e.start, e.size)
  BY <1>2, <1>8, <1>10 DEF Reader!Content, read
<1> QED
  BY <1>2, <1>7, <1>11, <1>13, <1>14 DEF e

\* An empty stream is read back.
LEMMA EmptyIsRead ==
  ASSUME Finished, NEW n \in Streams, nodes[n] = 0
  PROVE  Reader!Content(Image, Header, Entry(n)) = Bytes(n)
<1>1. Entry(n).size = 0 /\ n \in Nat /\ nodes[n] \in Nat
  BY EntryOf
<1>2. Reader!Content(Image, Header, Entry(n)) = << >>
  BY <1>1 DEF Reader!Content
<1>3. Bytes(n) \in Seq(Nat \X Nat) /\ Len(Bytes(n)) = 0
  BY <1>1, StreamBytes
<1> QED
  BY <1>2, <1>3, EmptySeq

\* Open reads back every stream of a finished layout.
LEMMA FinishedReadsBack ==
  ASSUME LayoutInv, ReadInv
  PROVE  ReadBack
<1> SUFFICES ASSUME pc = "done"
             PROVE  /\ Len(Reader!Entries(Image, Header)) >= Len(nodes) + 1
                    /\ \A n \in Streams :
                         Reader!Content(Image, Header, Reader!Entries(Image, Header)[n + 1]) = Bytes(n)
  BY DEF ReadBack
<1>1. Finished
  BY DEF Finished
<1>2. /\ Len(Reader!Entries(Image, Header)) >= Len(nodes) + 1
      /\ \A n \in 0 .. Len(nodes) : Reader!Entries(Image, Header)[n + 1] = Entry(n)
  BY <1>1, EntriesAreRead
<1>3. \A n \in Streams : Reader!Content(Image, Header, Entry(n)) = Bytes(n)
  <2> SUFFICES ASSUME NEW n \in Streams
               PROVE  Reader!Content(Image, Header, Entry(n)) = Bytes(n)
    OBVIOUS
  <2>1. nodes[n] \in Nat /\ n \in Large \cup Mini
    BY <1>1, EntryOf
  <2>2. CASE nodes[n] = 0
    BY <1>1, <2>2, EmptyIsRead
  <2>3. CASE nodes[n] # 0 /\ n \in Large
    BY <1>1, <2>3, LargeIsRead
  <2>4. CASE nodes[n] # 0 /\ n \in Mini
    <3>1. nodes[n] > 0
      BY <2>1, <2>4
    <3> QED
      BY <1>1, <2>4, <3>1, SmallIsRead
  <2> QED
    BY <2>1, <2>2, <2>3, <2>4
<1>4. \A n \in Streams : n \in 0 .. Len(nodes)
  BY <1>1, EntryOf
<1> QED
  BY <1>2, <1>3, <1>4

\* Every stream is read back with the bytes it was given.
THEOREM ReadsBack == Spec => []ReadBack
<1>1. LayoutInv /\ ReadInv => ReadBack
  BY FinishedReadsBack
<1> QED
  BY <1>1, LayoutInvariant, ReadInvariant, PTL
=============================================================================
