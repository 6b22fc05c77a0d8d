------------------------------ MODULE CfbOpen ------------------------------
(***************************************************************************)
(* Open on any file, whole or damaged, step by step (Open, buildFAT,       *)
(* readChain, readMiniChain and walkDir in src/cfb/reader.go).             *)
(*                                                                         *)
(* The loops over chains share one state: at is the number the loop is     *)
(* about to visit, out the numbers it has visited, which also is what the  *)
(* code keeps in its seen tables.  The recursion of walkDir is a stack of  *)
(* frames; a frame is about to visit its left subtree, its own entry or    *)
(* its right subtree.  Every sector has all three readings, so that a      *)
(* chain that strays still reads something.                                *)
(***************************************************************************)
EXTENDS CfbReader

VARIABLES
  file,       \* input: [valid, header, image]; valid if parseHeader accepts it
  phase,
  at, out,
  fatList,    \* fatSectorNums, as far as they are not yet in fatWords
  fatWords,   \* the FAT
  entries,    \* the directory array: entries[idx + 1]
  miniData,   \* the mini stream
  miniWords,  \* the mini FAT
  stack,      \* calls of walkDir: [idx, prefix, stage]
  visited,
  streams,    \* c.streams: path -> content
  order       \* c.order, each path with the entry it comes from: [idx, path]

chain  == << at, out >>
fatSt  == << fatList, fatWords >>
mini   == << miniData, miniWords >>
found  == << streams, order >>
openVars == << file, phase, chain, fatSt, entries, mini, stack, visited, found >>

Header == file.header
Image  == file.image

ASSUME CfbOpenAssumption == {FatEntries, DirEntries, MiniSize} \subseteq Nat \ {0}

\* What parsing makes of bytes: sectors numbered from 0, with words and entries
\* that hold numbers.
IsWords(words) == Len(words) \in Nat /\ words \in [1 .. Len(words) -> Int]

IsEntries(list) ==
  /\ list = [k \in 1 .. DirEntries |-> list[k]]
  /\ \A k \in 1 .. DirEntries : /\ {list[k].left, list[k].right, list[k].child} \subseteq Int
                               /\ list[k].size \in Nat

IsSector(s) ==
  /\ DOMAIN s = {"words", "entries", "data"}
  /\ IsWords(s.words) /\ Len(s.words) = FatEntries
  /\ IsEntries(s.entries)

IsFile(f) ==
  f.valid => /\ IsWords(f.header.difat)
             /\ IsFiniteSet(DOMAIN f.image)
             /\ DOMAIN f.image = 0 .. Cardinality(DOMAIN f.image) - 1
             /\ \A s \in DOMAIN f.image : IsSector(f.image[s])

-----------------------------------------------------------------------------
(***************************************************************************)
(* The header and the FAT.                                                 *)
(***************************************************************************)

BadHeader ==
  /\ phase = "header"
  /\ ~file.valid
  /\ phase' = "error"
  /\ UNCHANGED << file, chain, fatSt, entries, mini, stack, visited, found >>

ReadHeader ==
  /\ phase = "header"
  /\ file.valid
  /\ phase' = "difat"
  /\ fatList' = Terminated(Header.difat)
  /\ at' = Header.firstDifat
  /\ UNCHANGED << file, out, fatWords, entries, mini, stack, visited, found >>

\* The next sector of the DIFAT chain is there and was not met before.
DifatGoesOn == at \in DOMAIN Image /\ at \notin ToSet(out)

\* A terminator among the FAT sector numbers ends the chain, too.
FollowDifat ==
  /\ phase = "difat"
  /\ DifatGoesOn
  /\ LET listed == Front(Image[at].words)
         taken  == Terminated(listed)
     IN  /\ fatList' = fatList \o taken
         /\ at' = IF taken = listed THEN Last(Image[at].words) ELSE EndOfChain
  /\ out' = Append(out, at)
  /\ UNCHANGED << file, phase, fatWords, entries, mini, stack, visited, found >>

\* Mutant of EndDifat: a sector that the file does not have is waited for.
EndDifatWaiting ==
  /\ phase = "difat"
  /\ at \in {EndOfChain, FreeSect} \cup ToSet(out)
  /\ phase' = "fat"
  /\ UNCHANGED << file, chain, fatSt, entries, mini, stack, visited, found >>

EndDifat ==
  /\ phase = "difat"
  /\ ~DifatGoesOn
  /\ phase' = "fat"
  /\ UNCHANGED << file, chain, fatSt, entries, mini, stack, visited, found >>

\* Mutant of FatSectorWords: a sector the file lacks counts as zeros.
FatSectorWordsZero(s) ==
  IF s \in DOMAIN Image THEN Image[s].words ELSE [k \in 1 .. FatEntries |-> 0]

\* A FAT sector that the file does not have is left out.
FatSectorWords(s) == IF s \in DOMAIN Image THEN Image[s].words ELSE << >>

AppendFat ==
  /\ phase = "fat"
  /\ fatList # << >>
  /\ fatWords' = fatWords \o FatSectorWords(Head(fatList))
  /\ fatList' = Tail(fatList)
  /\ UNCHANGED << file, phase, chain, entries, mini, stack, visited, found >>

-----------------------------------------------------------------------------
(***************************************************************************)
(* Chains.  A phase of its own reads each: the directory, the mini stream  *)
(* container, the mini FAT and the content of a stream, which is a chain   *)
(* of mini sectors in phase "minicontent".                                 *)
(***************************************************************************)

Chains == {"directory", "container", "minifat", "content", "minicontent"}

StartChain(which, first) ==
  /\ phase' = which
  /\ at' = first
  /\ out' = << >>

Links == IF phase = "minicontent" THEN miniWords ELSE fatWords

Present(n) ==
  IF phase = "minicontent" THEN (n + 1) * MiniSize <= Len(miniData)
  ELSE n \in DOMAIN Image

\* Mutant of GoesOn: what was visited is not remembered.
GoesOnUnseen == at \in 0 .. Len(Links) - 1 /\ Present(at)
GoesOn == at \in 0 .. Len(Links) - 1 /\ at \notin ToSet(out) /\ Present(at)

FollowChain ==
  /\ phase \in Chains
  /\ GoesOn
  /\ out' = Append(out, at)
  /\ at' = Links[at + 1]
  /\ UNCHANGED << file, phase, fatSt, entries, mini, stack, visited, found >>

ChainEnds(which) == phase = which /\ ~GoesOn

StartDirectory ==
  /\ phase = "fat"
  /\ fatList = << >>
  /\ StartChain("directory", Header.firstDir)
  /\ UNCHANGED << file, fatSt, entries, mini, stack, visited, found >>

DirectoryRead == FlattenSeq([k \in DOMAIN out |-> Image[out[k]].entries])

HasRoot(directory) == directory # << >> /\ directory[1].type = "root"

NoDirectory ==
  /\ ChainEnds("directory")
  /\ ~HasRoot(DirectoryRead)
  /\ phase' = "error"
  /\ UNCHANGED << file, chain, fatSt, entries, mini, stack, visited, found >>

\* A root without a mini stream makes the container the empty chain.
ReadDirectory ==
  /\ ChainEnds("directory")
  /\ HasRoot(DirectoryRead)
  /\ entries' = DirectoryRead
  /\ LET root == DirectoryRead[1]
     IN  StartChain("container", IF root.size = 0 THEN EndOfChain ELSE root.start)
  /\ UNCHANGED << file, fatSt, mini, stack, visited, found >>

ReadContainer ==
  /\ ChainEnds("container")
  /\ miniData' = Truncated(Data(Image, out), entries[1].size)
  /\ StartChain("minifat", Header.firstMiniFat)
  /\ UNCHANGED << file, fatSt, entries, miniWords, stack, visited, found >>

-----------------------------------------------------------------------------
(***************************************************************************)
(* The walk of the directory.                                              *)
(***************************************************************************)

Frame(idx, prefix) == [idx |-> idx, prefix |-> prefix, stage |-> "left"]

Top == Last(stack)
Me  == entries[Top.idx + 1]
At(stage) == phase = "walk" /\ stack # << >> /\ Top.stage = stage
MovedTo(stage) == Append(Front(stack), [Top EXCEPT !.stage = stage])

ReadMiniFat ==
  /\ ChainEnds("minifat")
  /\ miniWords' = FlattenSeq([k \in DOMAIN out |-> Image[out[k]].words])
  /\ stack' = << Frame(entries[1].child, << >>) >>
  /\ phase' = "walk"
  /\ UNCHANGED << file, chain, fatSt, entries, miniData, visited, found >>

Visitable == Top.idx \in 0 .. Len(entries) - 1 /\ Top.idx \notin visited

\* Mutant of Visit: the entry is not marked.
VisitUnmarked ==
  /\ At("left")
  /\ Visitable
  /\ stack' = Append(MovedTo("self"), Frame(Me.left, Top.prefix))
  /\ UNCHANGED << file, phase, chain, fatSt, entries, mini, visited, found >>

Visit ==
  /\ At("left")
  /\ Visitable
  /\ visited' = visited \cup {Top.idx}
  /\ stack' = Append(MovedTo("self"), Frame(Me.left, Top.prefix))
  /\ UNCHANGED << file, phase, chain, fatSt, entries, mini, found >>

\* NOSTREAM, an index beyond the array or an entry met before.
Return ==
  /\ At("left")
  /\ ~Visitable
  /\ stack' = Front(stack)
  /\ UNCHANGED << file, phase, chain, fatSt, entries, mini, visited, found >>

EnterStorage ==
  /\ At("self")
  /\ Me.type = "storage"
  /\ stack' = Append(MovedTo("right"), Frame(Me.child, Append(Top.prefix, Me.name)))
  /\ UNCHANGED << file, phase, chain, fatSt, entries, mini, visited, found >>

PassOther ==
  /\ At("self")
  /\ Me.type \notin {"storage", "stream"}
  /\ stack' = MovedTo("right")
  /\ UNCHANGED << file, phase, chain, fatSt, entries, mini, visited, found >>

\* Mutant of InMiniStream: a stream of the cutoff size counts as small.
InMiniStreamToCutoff(e) == e.size <= Header.miniCutoff /\ miniData # << >>
InMiniStream(e) == e.size < Header.miniCutoff /\ miniData # << >>

\* An empty stream is the empty chain, whatever its start.
StartContent ==
  /\ At("self")
  /\ Me.type = "stream"
  /\ StartChain(IF InMiniStream(Me) THEN "minicontent" ELSE "content",
                IF Me.size = 0 THEN EndOfChain ELSE Me.start)
  /\ UNCHANGED << file, fatSt, entries, mini, stack, visited, found >>

MiniSectors(sectors) ==
  FlattenSeq([k \in DOMAIN sectors |->
    SubSeq(miniData, sectors[k] * MiniSize + 1, (sectors[k] + 1) * MiniSize)])

ContentRead ==
  Truncated(IF phase = "minicontent" THEN MiniSectors(out) ELSE Data(Image, out), Me.size)

StreamsWith(path) ==
  [p \in DOMAIN streams \cup {path} |-> IF p = path THEN ContentRead ELSE streams[p]]

\* Mutant of StoreContent: a chain that ends early is an error.
StoreContentStrict ==
  /\ ChainEnds("content") \/ ChainEnds("minicontent")
  /\ LET path == Append(Top.prefix, Me.name)
     IN  /\ streams' = StreamsWith(path)
         /\ order' = Append(order, [idx |-> Top.idx, path |-> path])
  /\ stack' = MovedTo("right")
  /\ phase' = IF Len(ContentRead) < Me.size THEN "error" ELSE "walk"
  /\ UNCHANGED << file, chain, fatSt, entries, mini, visited >>

\* A path that comes twice keeps its last content.
StoreContent ==
  /\ ChainEnds("content") \/ ChainEnds("minicontent")
  /\ LET path == Append(Top.prefix, Me.name)
     IN  /\ streams' = StreamsWith(path)
         /\ order' = Append(order, [idx |-> Top.idx, path |-> path])
  /\ stack' = MovedTo("right")
  /\ phase' = "walk"
  /\ UNCHANGED << file, chain, fatSt, entries, mini, visited >>

\* The last call of walkDir in its own body: the frame is no longer needed.
TurnRight ==
  /\ At("right")
  /\ stack' = Append(Front(stack), Frame(Me.right, Top.prefix))
  /\ UNCHANGED << file, phase, chain, fatSt, entries, mini, visited, found >>

Opened ==
  /\ phase = "walk"
  /\ stack = << >>
  /\ phase' = "done"
  /\ UNCHANGED << file, chain, fatSt, entries, mini, stack, visited, found >>

-----------------------------------------------------------------------------
Blank ==
  /\ at = EndOfChain
  /\ out = << >> /\ fatList = << >> /\ fatWords = << >> /\ entries = << >>
  /\ miniData = << >> /\ miniWords = << >>
  /\ stack = << >> /\ visited = {} /\ streams = << >> /\ order = << >>

Idle == phase = "idle" /\ Blank

\* Open is called on a file, of any bytes.
Call ==
  /\ phase = "idle"
  /\ phase' = "header"
  /\ UNCHANGED << chain, fatSt, entries, mini, stack, visited, found >>

OpenNext ==
  \/ BadHeader \/ ReadHeader \/ FollowDifat \/ EndDifat \/ AppendFat
  \/ FollowChain \/ StartDirectory \/ NoDirectory \/ ReadDirectory
  \/ ReadContainer \/ ReadMiniFat \/ Visit \/ Return \/ EnterStorage \/ PassOther
  \/ StartContent \/ StoreContent \/ TurnRight \/ Opened

OpenSpec == Idle /\ [][(Call /\ IsFile(file')) \/ OpenNext]_openVars

-----------------------------------------------------------------------------
(***************************************************************************)
(* Properties, on any file.                                                *)
(***************************************************************************)

Phases == Chains \cup {"idle", "header", "difat", "fat", "walk", "done", "error"}

IsSeq(s) == Len(s) \in Nat /\ s = [k \in 1 .. Len(s) |-> s[k]]

TypeOK ==
  /\ phase \in Phases
  /\ phase = "header" => IsFile(file)
  /\ IsSeq(out) /\ IsSeq(stack) /\ IsSeq(order)
  /\ visited \subseteq 0 .. Len(entries) - 1
  /\ \A k \in DOMAIN stack : /\ stack[k].stage \in {"left", "self", "right"}
                             /\ stack[k].stage # "left" => stack[k].idx \in visited
  /\ phase \in {"content", "minicontent"} =>
       stack # << >> /\ Top.stage = "self" /\ Me.type = "stream"
  /\ \A i \in DOMAIN order :
       order[i].idx \in visited /\ entries[order[i].idx + 1].type = "stream"

\* Whatever the file, no chain yields a sector twice or a sector the file does
\* not have, and no entry gives two streams: the output is bounded by the file
\* even when FAT, DIFAT, mini FAT or directory are cyclic.
NothingTwice ==
  /\ \A i, j \in DOMAIN out : out[i] = out[j] => i = j
  /\ phase \in Chains \ {"minicontent"} => ToSet(out) \subseteq DOMAIN Image
  /\ \A i, j \in DOMAIN order : order[i].idx = order[j].idx => i = j
=============================================================================
