# TLA+ models of ovba-writer

ovba-writer reads a `vbaProject.bin`, the container of the VBA code in an Office
document, into a `Project`, lets a caller edit it, and writes it back. This
directory models that library: state machines for its stateful parts, checked with
TLC on small instances, and theorems proved with TLAPS for every instance.
`PROJECT.json` lists the runs, which source lines each definition stands for, the
hazards, the disagreements found and the theorems.

## 1. The system

| Component | Source | State | Operations | Talks to |
|---|---|---|---|---|
| Read-modify-write | `vbaproject/read.go`, `write.go`, `model.go` | the `Project` in the caller's hands, the file outside | `Read`, field assignments, `Write` and its guards | everything below |
| PROJECT text | `ovba/parse.go` | none | `ParseProjectText` | Read, `checkModuleSet` |
| dir stream | `ovba/parse.go`, `project.go`, `record.go` | position, open module, two marks | `ParseDir`, `BuildProjectModules` | Read, Write |
| Codepages | `vbaproject/codepage.go` | none | `decodeMBCS`, `encodeMBCS` | Read, Write |
| MS-OVBA compression | `ovba/compress.go`, `decompress.go` | chunk, position, open flag byte | `Compress`, `Decompress` | Read, Write |
| Compound file writer | `cfb/writer.go` | registered streams, tree, sector layout, FAT | `AddStream`, `Bytes` | Write |
| Compound file reader | `cfb/reader.go` | chains, visited sets, the recursion of `walkDir` | `Open`, `Stream`, `Paths` | Read |
| Protection record | `ovba/encryption.go`, `read.go` | position and three bytes of cipher state | `DecryptData`, `isProtected` | Read |
| Source normalisation | `vbaproject/normalize.go` | none | `NormalizeModuleSource` | the caller |
| Fixed samples | `ovba/project.go` | none | `ProjectStream`, `DirStreamPlain` | tests |

Nothing in the library runs concurrently: there are no goroutines, no timers and no
network, and a call either returns a result or an error. What makes it hard is of
other kinds.

* **Sequences of calls over time.** A `Project` outlives the file it was read from. It
  is edited, refused, edited again, written twice, while the host application opens
  the file, compiles it and saves it with p-code caches in it.
* **Partial ownership.** `Write` rebuilds some streams, copies others, and preserves
  spans inside one (`dir`). A record counted twice grows the file at every save, a
  stream forgotten is lost for good.
* **Checks of sets against lists.** PROJECT, `dir` and the VBA storage each list the
  modules, and the guards compare them pairwise.
* **Unordered input.** `RawStreams` and `children` are Go maps and `sort.Slice` is not
  stable.
* **Boundaries.** The 4096-byte cutoff, 4096-byte chunks, the FAT that describes its
  own sectors, 109 DIFAT entries, token splits that move at powers of two.
* **Loops over foreign data.** Decoder, chains, records and the directory walk must end
  on any input, and damage to a file must not reach what it does not touch: the reader
  leaves out what is missing and gives no error.

What makes each component correct is listed with its module below.

## 2. The modules

### Read-modify-write

* `ProjectText`: PROJECT as a sequence of lines `[key, val]`. The parser does not know
  sections, so the model's lines do not either. The protection record is one of four
  sorts (absent, clear, locked, malformed).
* `DirStream`: `dir` as a sequence of records `[id, val]`. Byte spans become runs of
  records. `CountLimit` is the 16-bit wrap of the MODULES count; `AnyName` and `NoName` are
  the names, strings or bytes.
* `CfbPaths`: what the compound file writer refuses in a set of paths.
* `VbaProject`: the state machine. Variables: `bin` (the file, a function from paths to
  contents), `proj` (the caller's `*Project` or `NoProject`), `last` (the last call),
  `orig` (history: the first file). Actions: `Read`/`ReadFails`, `Write`/`WriteFails`
  with every guard of the code in their enabling condition, the caller's edits
  (`EditSource`, `EditStreamName`, `Rename`, `Retype`, `AddModule`, `RemoveModule`,
  `EditCodePage`, switched by the constant `Edits`), and `HostSave`, which is external.
  Three constants stand for what other modules compute: `Incompressible` and
  `DirCompresses` say what `Compress` refuses, of a source and of `dir`, and `FatSectors` how
  many FAT sectors a file takes, of which the header lists `MaxFatSectors`. Nothing is
  assumed of them.
  A string is the bytes of a Go string. A name in `dir` is in the codepage of the file, a
  path in UTF-8, so a stream whose name is not ASCII is found only where the bytes are
  the same.
  The codepages are the tables `Decoding` and `Encoding`; all that is assumed of them
  is that an encoding decodes to what was encoded. The reverse does not hold in
  Shift_JIS and is not assumed.
  `Coherent` says of a file that PROJECT, `dir` and streams agree; the code checks it
  only in Write.
* `SourceForms`: `NormalizeModuleSource`. A text is a sequence of lines, a line says
  which of the prefixes the code looks for it has. `toCRLF` drops the line ends.
* `VbaImport`: `VbaProject` with a caller who keeps sources in files. `Import` normalises
  a text with the module it replaces as `existing`, with or without passing it;
  `ImportFails` is the error, which leaves the Project alone.
  `Exported` says what a file is that `normalize.go` expects.
* `EditContract`: the abstract promise. A document is a list of named modules; open,
  edit one source, save all or nothing; payload and locked documents are untouched.
* `VbaContract`: `VbaImport` implements `EditContract`. The refinement mapping reads
  the file with `Decomposed`, which TLC would recompute at each use, so the module
  keeps it in an extra variable that restricts nothing. `HostEntriesAssumption` says how
  the host keeps the module entries of a file.

### Compound file

* `CfbTree`: what `buildTree` computes: the tree of a set of paths, the numbering, the
  halving into sibling trees. Names are sequences of code units with an `Upcase` table.
  `Sortings` allows every result an unstable sort may give.
* `CfbDirectory`: `AddStream`, then `Bytes` as a loop over the registrations
  (`Insert`, `Reject`) and the linking of the tree (`Link`).
* `CfbWalk`: `walkDir` of the reader, and (external) the search by name that other
  readers of the format use, both as recursive functions on the calls they make.
  Paths are sequences of names; the code joins them with slashes, which no name of a
  valid file contains.
  `CfbDirectoryReadback` states what both find, `CfbDirectoryShape` how flat the sibling
  trees are.
* `CfbLayout`: `assemble`, one step per stream placed, per turn of the FAT loop and per
  run chained. `Image` and `Header` are the sectors it writes. Bytes are labelled by
  the stream and the position they come from, so a misplaced byte is seen.
* `CfbReader`: `buildFAT`, `readChain`, `readMiniChain` and the choice of content, as
  operators on an image. `CfbRoundTrip` applies them to the layout's image.
* `CfbOpen`: `Open` on any value of `file`, one step per DIFAT sector, FAT sector, link of
  a chain and call or return of `walkDir`. `at` is the number the current loop is about to
  visit, `out` what it has visited (the `seen` tables); `stack` is the recursion of
  `walkDir`, a frame standing before its left subtree, its own entry or its right subtree.
  `CfbOpenResult` states what the loops compute, in terms of `CfbReader` and `CfbWalk`.
* `CfbFile` composes `CfbTree`, `CfbLayout` and `CfbOpen`: streams are registered,
  linked, laid out, and what comes out is opened, with (external) something that happens
  to the file in between: it is cut off, one number of it is changed, or another writer
  has listed its FAT sectors in a DIFAT chain. A sector has three readings, as words, as
  entries and as content, so that a chain that strays reads something.

### Bytes of the dir stream and of the protection record

* `RecordBytes`: the record encoders and `BuildProjectModules` to the byte. `Base` is the
  number of values of a byte.
* `DirBytes`: `walkRecords` and `ParseDir`, one step per record. A byte that is read is
  any byte; the ids and sizes come from the bytes as in the code.
* `DataEncryption`: `isProtected` and `DecryptData`, one step per byte; the encryption
  that the host applies is external. Exclusive or is the constant `XorByte`; an input says
  what it is an encryption of, if it is one (`made`).
* `ReadBytes` composes them as `Read` does, splices a new dir stream from what came out,
  as `Write` does, and reads it again. It takes `DirStream` for the abstraction:
  `ParsesAsDeclared` says that the loop over bytes computes what `DirStream`, and with it
  `VbaProject`, declares over records.

### Compression

* `CopyToken`: the split of a token and its packing.
* `OvbaCompression`: the encoder and the decoder, one step per token, with the geometry
  as constants (`ByteBits`, `TokenBits`, `MinBits`, `ChunkMax`; 8, 16, 4 and 4096 in
  the code). The decoder also starts on containers that no encoder wrote.

A definition named "Mutant of ..." is a faulty form of the one after it. It is in no
specification; a run in which it replaces that definition shows that the property
named in `PROJECT.json` notices the fault.

## 3. The runs

Passing:

| Run | Question | Instance and bounds |
|---|---|---|
| `source_edits` | Do any sequences of reads, source and codepage edits, writes and host saves keep file and Project in agreement? | 25 files: each codepage (one unsupported) with each byte string, a text with two encodings, an incompressible text, a form, references, a locked, a malformed and a missing protection record, a name that is not ASCII for a module and for a stream, a file without PROJECT, a `dir` that Compress refuses, and streams beside which an ASCII source just fits the FAT, and none does. No bound is needed: the state space is finite. |
| `structural_edits` | Is everything `Write` accepts after renames, retypes, additions, removals and stream moves a consistent file? | a form with its designer storage, a code stream of another name and a reference, at most 2 modules (`MaxModules`), names that exist, that collide with `dir`, that are empty, that are too long |
| `contract` | Is it, with sources imported from files, an implementation of `EditContract`, and do imports leave no trace of their history? | seven files whose sources are lines, with a document without a header, a locked, a malformed and an unsupported one; two to three texts for each module type, accepted and refused, LF and CRLF, with a second END, attributes of members in the code, indented attributes, blank lines at the seam |
| `cfb_directory` | Are exactly the conflicting path lists refused, and is everything else found again? | 6 names (case twins, one too long), depth 2 (`MaxDepth`), 5 segments in all (`MaxSegments`): up to 5 siblings, and nests of 2 |
| `cfb_layout` | Is the layout disjoint, minimal, complete and readable, and does it end? | up to 3 entries (`MaxNodes`) of 0..11 bytes (`MaxSize`) in a geometry of 4-byte sectors, 2-byte mini sectors, 3 words to a FAT sector, cutoff 6, 4 DIFAT entries |
| `cfb_file` | What does `Open` return from a whole file, and from a damaged one, and does it return? | seven listings of two and three streams, side by side and below a storage, empty to 11 bytes, in the geometry of `cfb_layout`; cut off before every sector; every value in every word of FAT and mini FAT, every link, start and size in every entry, in the header and in the DIFAT; FAT sectors listed from each one on in a DIFAT chain |
| `read_bytes` | Do the loops over bytes find the records, compute what `DirStream` says, splice stably and read the protection right, and do they return? | a byte of 16 values; a dir stream with references, `REFERENCECONTROL`, a different and an empty stream name, one without references, and one with a reference behind the modules too, whole; the first of them cut off at every byte, and with each byte changed to five values; protection records of every seed, two keys and seven states, data of three other lengths, records cut off, too long, or with each byte changed to every value |
| `ovba` | Is decompression the inverse of compression, on which inputs does it refuse, do both return? | inputs of 2 letters to length 9 with chunks of 8, and one-chunk containers of every header and up to 3 body cells |
| `ovba_wide` | The same inverse with three token splits | a word of up to 7 bytes, a gap of up to 3, the word again, in chunks of 16 |

The properties, by what they relate:

* `PassThrough`, `ProtectedKept`: the file now and the first file. Nothing that the
  writer does not own changes, and a locked file not at all, over any history.
* `RoundTrip`, `WriteIdempotent`: the file and the Project. They hold while the
  codepage of the Project is the one in the preserved span (`CodePageKept`); a caller
  who changes one without the other saves text that reads back differently, and the
  code does not notice.
  `RoundTrip` also asks that no stream name is empty (`StreamsNamed`): `Write` stores such
  a module under `VBA/` with an empty name, `Read` looks under the module name.
* `SelfConsistent`: PROJECT, `dir` and the VBA storage of one file.
* `ImportsForgetHistory`, `KeepsForm`: a source now, the texts of the files and the first
  source. After any sequence of imports, writes and host saves every source is the first
  one or what a single import into it gives.
* `SourceEditsSavable`: what the documentation promises of pure source edits, up to the
  limits it states (`WithinLimits`): protection, ASCII names, the codepage, data that
  Compress refuses, a FAT of 109 sectors. Beside these no check of `Write` refuses.
* `RejectsExactlyConflicts`, `WalkFindsAll`, `SearchFindsAll`, `Balanced`: registered
  paths, tree and linked entries. The search property leaves out siblings that differ
  in case only: both are linked, and neither is less than the other.
* `NoSectorShared`, `FatMinimal`, `FailsOnlyBeyondDifat`, `FatCoversFile`, `ReadBack`,
  `Finishes`: runs, FAT and contents.
* `ReadsWhatWasWritten`: what was registered and what `Open` returns, through directory
  and sectors together. `TruncationShortens`: a file that ends early is refused exactly
  when the way to the directory is cut, else each stream is a prefix of the one written.
  `DamageIsLocal`: one wrong number reaches only the streams whose own chain or entry it
  is in; a wrong link moves streams and never mixes their bytes. `OpenComputes`: on all
  these files the loops compute what the operators of `CfbReader` and `CfbWalk` say.
  `NothingTwice`, `OpenReturns`: cyclic chains and directories.
* `WalkFindsRecords`, `ParsesAsDeclared`: bytes and records. `SpliceStable`: the spans of
  the second Read are those of the first, byte for byte, on damaged streams too; from
  streams in order, whole or cut off, all else is too.
* `ProtectionRead`: what is accepted is an encryption of what is returned, and what is
  encrypted is accepted; locked exactly if one of the three bits was set.
* `Lossless`, `FailsOnlyIfLong`, `Returns`: data, container and output.

The geometries are small because the code is uniform in them: what matters is that a
stream can be empty, shorter than, equal to and longer than each unit, that the FAT
grows past one and past the last DIFAT entry, that a chunk fills up with matches, with
literals and with neither, and that the offset width changes inside a chunk. Each of
these happens in the instances.

Violations, each a statement of the repository that the code does not keep:

* `named_document` (`SourceEditsSavable`): a class called `Document` has a line
  `Document=25, 25, ...` in PROJECT's `[Workspace]`; the parser takes it for a module,
  and `Write` refuses a project whose module set nobody changed.
* `add_module` (`ModuleSetMatches`): a second module under a listed name is accepted,
  although the documentation says that adding is rejected.
* `ovba_boundary` (`RefusedOnlyIfTooLarge`): a chunk whose compressed form has exactly
  the size of a chunk is refused although it fits.

Seen while modelling and not made runs: `model.go` calls forms "detected but not
edited" while `Write` and DESIGN.md edit them; a module with an empty `StreamName` is
written to `VBA/` with an empty name and looked for by `Read` under its module name
(`StreamsNamed` above); siblings that differ in case only leave the tree unordered;
a file cut off behind its directory opens without an error and with short streams.

## 4. Fairness

`CfbLayout` and `OvbaCompression` state weak fairness of `Next`: each models one
sequential function that runs until it returns, with no caller in between. `CfbFile`
states it of `assemble` (`WriteStep`) and of `Open` (`OpenStep`), not of what happens to
the file between them; `ReadBytes` of `ParseDir` and `isProtected`, not of the caller who
writes. `VbaProject`, `VbaImport` and `CfbDirectory` are driven by a caller who may stop
at any time, and have none.

`CHECK_DEADLOCK FALSE` stands in the configurations of these functions only, which stop
when they have returned.

## 5. The proofs

`VbaProjectProofs` (extends `VbaProject`). `PassThrough` is not inductive: `Write` takes
the streams from the Project. The invariant `CarryInv` adds that the Project, once
there is one, carries the opaque streams, the PROJECT text and the protection verdict of
the first file. `Read` establishes it from the file (`ReadCarries`), the edits touch two
fields that are not among them (`EditKeepsCarries`), `Write` hands it back to the file
(`AssembledKeeps`: the writer's own paths begin with `VBA` or are PROJECT, so they never
shadow a carried one), and the host changes paths under VBA only (`HostKeeps`). From it
follow `PassThroughHolds` and `ProtectedKeptHolds`. Nothing is assumed of the files,
names, texts or codepages.

`DirStreamProofs` (extends `DirStream`) and the second part of `VbaProjectProofs` (which
extends it) prove the type invariant of `VbaProject`. The first has the lemmas about records: `Nth`,
`Min` and `Max` select positions that exist (`NthOfPositions` counts the positions up to
each one), entries and spans of a well-formed dir stream are well formed, and so is what
`BuildProjectModules` writes. The second takes them through `Read` (`ReadType`), the edits
(`EditKeepsType`), `Write` (`AssembledIsFile`) and the host (`HostIsFile`). `CarryInv` is
needed here too: it says that no carried stream stands at the path of `dir`. Assumed: the
first files are well formed (`InputsAssumption`), names are strings and codepages numbers
(`NamesAssumption`), and that the literals of the model are members of STRING
(`LiteralsAssumption`), which the provers do not know.

The third part of `VbaProjectProofs` proves `RoundTrip`, `WriteIdempotent` and
`SelfConsistent`. They speak of a file just written only, and follow from what `Write` and
`Read` are, but not for any Project: a span that held a `MODULENAME` or a second
`REFERENCENAME` would move the places where the next `Read` cuts. The invariant `SpanInv`
says that it does not (`Spanned`), because the first file had its records in order
(`Ordered`), and `Write`, the edits and the host keep that (`BuiltSpans`, `EditSpans`,
`HostOrdered`); and that after a `Write` the file is what the Project gives. The argument
on `dir` is in the second half of `DirStreamProofs`: the records of a built stream are the
info span, the references span, the count, and six for each module (`BuiltAt`), so the
positions of each id are known one by one (`NthListed`, `NthShifted`), the entries parsed
from it are the modules it was built from (`EntriesOf`) and the spans cut from it the ones
put in (`SplitDir`, `ReadSplit`). On the file: that `buildTree` did not refuse keeps the
paths of the modules, of the carried streams and of the writer's own streams apart
(`PathsApart`), so each path holds what was stored there (`AssembledAt`), and a source
comes back from its stream because decoding undoes encoding (`CodecAssumption`, what
`golang.org/x/text` owes for bytes it has produced). `WrittenReadsBack` puts the two together. `SelfConsistentHolds`
needs neither the codepage nor the names, but that no Project has `CountLimit` modules:
the count is kept modulo `CountLimit`, and beyond it the statement is false. Assumed
beside the above: the first files have finitely many streams and their dir records in the
order of [MS-OVBA] 2.3.4.2, which is that of any file an Office application saves
(`HostFilesAssumption`).

The fourth part proves `SourceEditsSavable`: what Read accepts and the caller changes in
its sources only, Write accepts within the limits the repository states (`WithinLimits`).
That is less than every file Read accepts: with more than 109 FAT sectors, listed in a
DIFAT chain, a file is read and refused unedited. Write compares the modules
with PROJECT and their paths with all others, so the invariant `SlotInv` says that names, streams and kinds of the
modules, in the Project (`Shape`) and as Read would find them in the file (`Slots`), are
those of the first file. `Write` keeps it because the kinds come from PROJECT and the
`VBFrame` streams, which pass through (`WrittenSlots`), the host because it moves offsets only
(`HostSlots`), and for the slots of such a file both checks succeed (`SlotsFit`,
`AddedOnce`). The theorem assumes that the first files are `Coherent`: the lines of PROJECT
and the entries of `dir` list the same names, streams have paths of their own, and the
paths are those of a tree. All instances of the runs are (`CoherentAssumption`), and
nothing in the code makes it so: Read takes the modules from `dir` and compares them with
nothing. A file as a host saves it need not be `Coherent`, because the code reads PROJECT
without regard to its sections: the run `named_document` has one, with a module whose
window line reads as a module line, and shows that the statement fails on it.

The fifth part (with it the module extends `VbaContract`) proves that
`VbaImport` implements `EditContract`. To the invariants above it adds `ContractInv`: the
codepage of the Project is the one its span states, no name is empty, and the spans are
those of the file as it is now, so that a `Write` changes no payload. A Read is `Open`
(`ReadMaps`, from `ReadShows`), an assignment or an import of one source is `EditOne`
(`SourceMaps`), a Write is `Save` (`WriteMaps`, from `WrittenReadsBack`), and the calls
that fail are stutters (`IdleStutters`). The longest part is the save of the host
(`HostInvisible`): it moves every source behind its p-code, and Read finds it again
because every module of the file states its offset (`Reoffset` in `DirStreamProofs`: a dir
stream whose offsets are replaced parses into the same modules with the new offsets).
A `Write` always builds such a file (`WrittenEntries`). Assumed: the caller edits
sources only (`Edits`), `NoProject` is no Project and no document (`ProjectsKnown`),
normalised texts are texts (`ImportsAssumption`), and the first files state an offset and a
name for every module and have sequences of cells in their VBA storage
(`HostEntriesAssumption`). For the first `dir` of a file without offsets the theorem would
be false: the host has no record in which to state where it puts the sources.

Its last part proves `ImportsForgetHistory` and `KeepsForm`, for a caller whose edits are
imports (`Edits` is empty; an edit may assign any text). Neither is inductive: a source is
normalised with the one that is there as existing, which an earlier import left. `HistoryInv` says
that each module in the Project or in the file comes of one of the same name in the first
file by at most one import (`Derives`). An import into such a source is one into the first
source (`ImportDerives`), because normalisation sees of a source its header only
(`HeaderDecides`), and a document or a form keeps the header it had (`HeaderKept`): behind
it stands code, which begins with no attribute (`HeaderJoin`). `KeepsForm` follows, type by
type (`ImportForm`); for a class, lines are injected, and the lines put together begin with
the first line of the first part (`FlattenHead`). Assumed beside what the refinement needs:
texts have lines and files are of the form that `normalize.go` states for what it does not
refuse, "pure code with zero attributes" for a document (`TextsAssumption`), and the
modules of a file have names of their own (`NamesApartAssumption`). A document file that
began with attribute lines would put them into the header of the next import: the code
does not look.

`CfbDirectoryProofs` (extends `CfbDirectoryReadback` and `CfbWalkProofs`). `RejectsExactlyConflicts` speaks of the
registered paths, `Fits` of the tree built so far. The invariant `DirInv` says what the
tree is: every node is a prefix of an entered registration (`NodesEntered`), every entered
registration is a leaf with storages only above it (`EnteredNodes`), every leaf is an
entered registration and no two are equal (`LeavesEntered`). A registration that fits
keeps this (`InsertKeeps`), one that does not clashes with an entered one
(`MisfitClashes`), and entered ones do not clash (`NoClash`), because a non-empty prefix of a path is
the path or a storage above it (`PrefixIsNode`). Assumed: `CfbDirectoryAssumption`.
`RejectsExactly` justifies that `VbaProject` uses `TreeRejects` for `buildTree`. What
`Bytes` calls next, `assemble`, refuses on its own (`FatTooLarge` in `CfbLayout`); `VbaProject`
has the FAT sectors it needs as the constant `FatSectors`, about which the proofs assume
nothing.

Its second part proves `WalkFindsAll` and `SearchFindsAll`. The invariant `LinkInv` is
short, the tree is finite and the entries are `Linked` from it with some two orders; the work is in what
the operators of `CfbTree` and `CfbWalk` compute, and each of their recursive functions
is shown first to be well-founded (`BelowExists`, `FindExists`, `SearchExists`, and in
`CfbWalkProofs`, which is about `walkDir` alone, `WalkExists`), so that it is what its recursion says. `assign` lists every node once
(`Numbered`, by induction on the depth left): the nodes below a node are its children and
those below each child, apart from each other (`UnderIs`). Halving an array of children
gives a middle and two parts of the same kind (`Halved`), however even or odd its length.
The walk from the root of a part adds to what was collected the entries of the part and
of all below it, and their streams, once each (`PartWalked`), by induction on the number of
nodes in the part (`PartsWalked`): the left part, the middle, below it the whole array of
its children, the right part. The guard against cycles never strikes on the way, because
none of these entries is seen yet (`Free`). The search for a name stays in the part that has it
(`PartSearched`), where `nameLess` orders siblings strictly as long as they differ in more
than case (`KidsInOrder`), although `link` sorts the children again and may see equal keys
in another order. Beside `CfbDirectoryAssumption` it is assumed (`CfbTreeAssumption`) that names are
sequences of code units whose upcased forms are numbers.

`CfbLayoutProofs` (extends `CfbRoundTrip`). `NoSectorShared` needs to know which runs are
still empty (`Unplaced`) and that the large streams are placed in order (`InOrder`);
`FatMinimal` and `FailsOnlyBeyondDifat` need that the loop has refused every smaller
count on its way (`Converging`). One lemma for each action, one (`FixedRunKeeps`) for the
three runs behind the streams. Assumed of the geometry: sizes are positive
(`CfbLayoutAssumption`); the proofs hold for the code's 512, 64, 128, 4, 4096 and 109.

Its second part proves `FatCoversFile`. `LayoutInv` keeps the
runs apart; the converse is `NoGap`, every sector below the next free one is in a placed
run, and `Filled`, a word of the FAT is free as long as no chained run has its sector.
The runs of streams are placed one by one (`LargeOwned`), the three behind them each where
the one before ends (`FixedRunCovers`), also when the mini stream is empty
(`CeilDivOfNothing`); a step of the chain fills the words of its run (`ChainedFills`).

Its third part proves `ReadBack` of `CfbRoundTrip`: whatever the streams and the geometry, `Open` reads from the sectors what `assemble` put
there. `LayoutInv` keeps the runs apart but does not say what is in them. `ReadInv` adds
that the words of a chained run lead from its first sector to its last (`Links`), that the
FAT lies behind all other runs, so that filling its own words spoils no chain
(`BelowFat`), that a run has the sectors its contents take (`Lengths`), and that a small
stream lies in the mini stream where its chain in the mini FAT says (`MiniInv`). The
other half is about the reader, at the end of a layout (`Finished`): the list of FAT
sectors ends where the header's does (`DifatNames`, `FatSectorsAre`), so the FAT is the
one written (`FatIsRead`); the walk along a chain visits a run in order (`WalkedRun`: the
recursive function is the one that counts up, and the first place where the walk stops is
the end of the run), so the parts of a padded stream are put together in order
(`FlattenParts`) and cut to its size (`PaddedIs`); the directory, the mini stream and the
mini FAT are read so (`EntriesAreRead`, `MiniStreamIsRead`, `MiniFatIsRead`), and then the
streams (`LargeIsRead`, `SmallIsRead`, `EmptyIsRead`). Assumed: `CfbLayoutAssumption`.

`OvbaCompressionProofs` (extends `OvbaCompression`). `TypeOK` needs one thing more: the
byte that `EncodeCopy` adds `2^bit` to is below `2^bit` (`FlagBits`), or it would not
stay a byte. For the encoder the lemmas say that the searched sets have a greatest element
(`MaxOf`, `MatchFits`), that a token has two bytes (`TwoBytes`, `Widths`), and what the
open flag byte is (`OpenedIs`). For the decoder, where the container is arbitrary, they
say that a copy which reads its own output is well defined (`CopiedIs`, by the least
position where it would not be), and that the guards keep every position in the container
and in the chunk. `FailsOnlyIfLong` follows from `OverheadInv`: with `f` flag bytes the
body is at most `f` longer than what it stands for, and `f` groups had `Group` tokens each
but for what the open one lacks. `TokenRoundTrip` is about the split of a token, which
moves at powers of two: the offset bits at a position hold every offset up to it
(`Widths`), and quotient and remainder are unique (`Division`).

Its last part proves `Lossless`, without an induction over the input: the encoder is
proved against what the decoder will do, step by step. `Passes(P, b, c)` says that `P` is a
set of points of the decoder (cells read, flag byte, bit, bytes put out) that has its
start in the body `b` and leads from each point to the next, each token giving the bytes
of the chunk `c`. `BodyInv` says that the body under construction has such a set, that it
leads to the end of the body with `pos` bytes put out, and that no bit of the open flag
byte beyond `bit` was used on the way (`Growing`): what `EncodeCopy` sets in it later
changes no earlier token (`FlagSet`, `OldCells`). A literal and a copy token add a point
(`TokenAdded`, `LiteralRead`, `CopyRead`; a match has the bytes it is searched for,
`MatchIs`, and the token says which, `TokenRoundTrip`). `LosslessInv` puts the chunks
together: `Chunks(Q, ...)` has the points between chunks in the container written so far,
`ChunkWritten` adds one, compressed or raw, `ChunkStays` keeps those before it. The decoder
is then `Between` two chunks or `Inside` one, at a point of its set; one lemma for each of
its steps, and three that say that it refuses nothing there (`NoBadSignature`,
`NoBadChunk`, `NoBadToken`). At the end of the container the bytes put out are all of the
data, because the last chunk ended there (`DecodeDoneReads`).

Assumed: the geometry, that inputs are bytes and
containers numbers (`InputsAssumption`), and four facts about powers of two up to
`2^TokenBits` (`PowersAssumption`: exponentiation is an induction over data, out of the
provers' reach; TLC evaluates them for the exponents of each run).

`CfbOpenProofs` (extends `CfbOpenResult` and `CfbWalkProofs`). The specification is
`OpenSpec`: the step that calls `Open` puts into `file` any value that parsing can give
(`IsFile`: if the header is accepted, sectors numbered from 0, each with its words and
entries, links and sizes of entries numbers), so nothing is assumed of what header, FAT
and directory say. Every step of `CfbFile` is a step of it or leaves its variables alone
(`WriteStep` leaves them, `Deliver` is a `Call`, which `TypeOK` checks to be of such a
file, `OpenStep` an `OpenNext`), so the theorems cover the run. `NothingTwice` is not inductive: an entry
might be listed once more when its frame comes to its turn. `IInv` says that the chain being read has visited
different, existing sectors (`ChainOK`), that nothing is known before its phase
(`Early`), that every frame past its left subtree stands on a visited entry (`FramesOK`),
that what is in the order is a visited stream entry (`OrderOK`), and that the entries
still to be emitted, the frames before their own entry, are on the stack once and not in
the order (`Apart`). `Visit` establishes the last, because an entry is only entered when
it was not visited before. One lemma per kind of step; a step on the stack has one of two shapes
(`IsDeeper`, `IsBeside`), for which `Apart` is proved once.

Its second part proves `OpenComputes`: the loops end with what the operators of
`CfbReader` and `CfbWalk` say. Those operators are closed forms (`Walked` chooses a
length, `FatSectors` and `InFile` fold over lists), the loops keep a number and a list; so each invariant
says that the loop has a beginning of the closed form. For a chain that is `ChainAt`: what
was visited is a walk along the successors without repetition (`IsTrail`), and `at` is where it leads.
The longest such walk is the chosen one (`WalkedTrail`), and a walk that cannot go on is the longest
(`TrailEnds`). The DIFAT loop also collects the numbers that each sector lists up to a
terminator (`DifatAt`); a terminator in the middle ends the chain early, and what later
sectors would list does not count in the closed form either (`DifatEnds`, by
`TerminatedBegins`). The FAT, the mini FAT, the directory and the data are sectors of one
length put together (`FlatBlocks`), so a word is found by quotient and remainder
(`WordsTable`). `Read` says what is known after each phase, `Reading` what the current
loop has. For `walkDir` the stack is related to the recursion by `LeadsTo`: from what was
collected so far, the frames, each finished on what the one above it returns
(`Finished`), lead to what the whole walk returns. Taking the top frame off and putting one on
(`PopLeads`, `PushLeads`) are all that the steps of the walk need, with what one call
returns (`WalkVisits`) and that it is of its type (`WalkSound`). `Stored` says of the streams that
of those with one path the last one has its content. Assumed: `CfbOpenAssumption`, that sectors have
words and entries and mini sectors bytes.

`ReadBytesProofs` (extends `ReadBytes`) proves `ProtectionRead` in both directions,
without an induction over the record. `EncInv` says that in the loop of `DecryptData` the
three bytes of the cipher are where the next byte needs them and that every byte
deciphered so far satisfies the equation of the format (`Deciphers`); one lemma per kind
of step. The rest is about bytes. `Encrypted` is a recursive function; that it exists
(`EncryptionExists`) and what it returns (`EncryptedIs`) is proved by the least place
where it would not, and in the same way that encrypting what was deciphered gives back
what was read (`Reencrypts`) and that deciphering an encryption gives back its clear bytes
(`Decrypts`). The length field is four digits: four bytes are the digits of their value
(`FourDigits`) and a number below `Base^4` is the value of its digits (`FourBack`).
From these, an encryption passes every check on the way (`MadeFits`, `MadeRead`).
Assumed: the base (`BaseAssumption`), that exclusive or on bytes commutes and undoes
itself (`XorAssumption`; TLC evaluates it for the instance, whose exclusive or is that of
the module `Bitwise`), and that an input which is called an encryption is one
(`RecordsAssumption`, evaluated for every input of the run).

Its second part proves `WalkFindsRecords`. `Upto` is the concatenation of the first parts
of a sequence of parts: it exists and grows by one part at a time (`Grows`, by the least
place again), and every part stands in the whole where those before it end (`InPlace`).
The bytes of a record give back its id, its size and its payload (`SizedBytes`,
`VersionBytes`), so the walk reads, where a record starts, that record (`RecordThere`), also
in a stream that is cut off, as far as its bytes go. `WalkInv` says that the walk stands
behind some record (`Behind`) and, at its end, that the next one is not there to its last
byte (`NoneAfter`). PROJECTVERSION makes the invariant longer: the code moves on by twelve bytes once
six are there, so a walk over a stream that is cut off in that record ends behind the
buffer, with every record before it. Assumed: the base, and that a stream which is called
whole or cut off is one (`StreamsAssumption`: ids of two bytes, sizes that fit in four,
ten bytes of PROJECTVERSION; evaluated for every input of the run).

Its third part proves `ParsesAsDeclared`: on any bytes, and after any splice, the loop with its open
module and its two marks computes what `DirStream` says in one piece. `Walk` is a
recursive function of the bytes; that it exists is proved once more by the least place
where it would not (`WalkExists`). Bytes are `Clean` when the walk ends exactly at
their end; a walk that enters clean bytes leaves them for what follows (`WalkConcat`), so
the walk over a span is that part of the walk over the whole (`Between`). `DirInv` says
that the records found are those of the walk over the bytes so far, each behind a clean
beginning (`StandsAt`), and that after `k - 1` turns of the loop its locals are what the
first `k - 1` records give: the last codepage (`LastVal`), the first reference and the
first count as marks (`MarkIs`), the different names in the order of their first
occurrence (`NamesAre`) and the modules but the last with the open one behind them
(`ModulesAre`). One record more is one step of each of them (`MarkMore`, `NamesMore`,
`ModulesMore`). At the end of the records these are the operators of `DirStream`, which
number positions and cut runs (`NamesDeclared`, `ModulesDeclared`, `SpansDeclared`). That
the second Read has bytes to read is `BuiltBytes`. Nothing is assumed but the base. For
this proof `DirStream` takes its names from a constant, `AnyName`: strings in `VbaProject`
(`StringsAssumption`), byte sequences here; `NoName` is the name of a module without one.

Its fourth part proves `SpliceStable`, what Write and a second Read make of the result of
the first. Walking is a relation here: bytes lead from the modules read so far, and the
open one, to those that follow (`Leads`), byte strings one behind the other lead one
behind the other, and what Write makes of a module leads to that module as saved
(`LeadsModule`, `LeadsBuilt`). A record at a place is the one the walk has found there,
by the number of records before it (`PlaceAt`), so a span that ended where a record
starts is followed, after the splice, by the record PROJECTMODULES that Write has put there. `Gives` says
what a finished Read returns as a function of its bytes and records; `SplicedAgain` is
the whole statement without a behaviour: given the result of one Read and that of a Read
of `BuiltDir` of it, the spans are equal (`SpansBack`), and in order so are the numbers,
the names (`ValuesBack`) and the modules but for what Write changes (`NoneOpened`).
`SpliceInv` then carries that through both Reads: during the walk `Rest`, what is found
and what is still to be walked make up the walk over the stream; in the loop the two
numbers of the project (`NumbersSeen`), which no other property needed; in the first Read
that the names of the open module and of those before it fit (`SizedEntry`), in the
second that its bytes are `BuiltDir` of a result the first gave. The property names two
preconditions, and both are needed: that PROJECTMODULES stands behind the first reference (else
`ParseDir` keeps no references and the span of the information reaches into the modules),
and for the metadata as a whole that the records are in the order of [MS-OVBA] 2.3.4.2
(`InOrder`: a second codepage, or a reference, behind the modules is read, and then is not part of any span
and lost on Write; a run has a stream with one). Assumed: the base, `StreamsAssumption`,
and `SizesAssumption`, that a dir stream is below 2 GB: from there on the size of a name
in UTF-16 could exceed its four bytes.

Model-checked only: liveness (`Finishes`, `Returns`, `OpenReturns`, `ReadReturns`), which
is out of the provers' reach; `Balanced`, which counts the levels of a tree in powers of two with a
recursive operator; and three properties of `CfbFile` (`ReadsWhatWasWritten`,
`TruncationShortens`, `DamageIsLocal`), which speak of writer, disk and
reader in one behaviour. Of `ReadsWhatWasWritten` the parts are proved, each in its
own module: `ReadBack` for the sectors, `WalkFindsAll` for the directory, `OpenComputes` for the loops
that read them.

## 6. Not modelled

* The codepage tables, from golang.org/x/text. `Decoding` and `Encoding` are constants,
  and the instances hold the cases that matter: no encoding, two encodings, the wrong one.
* `ProjectStream`, `DirStreamPlain` and their record helpers: constants that only tests
  and samples use.
* The bytes of the file header (`parseHeader` is the flag `valid` of a file) and the
  UTF-16 name of a directory entry: conversions without state. The reader's entries
  have their fields as `parseDirEntry` gives them.
* Numbers of 32 bits that overflow: no instance, and no file below 2^31 sectors, gets
  there. A size of 64 bits is a number; what matters of it is that it may exceed the chain.
* The docstring, help context, read-only and private records of a module: `ParseDir` passes
  over them and `BuildProjectModules` writes empty ones or none, in the model as in the code.
* ID, DPB and GC of PROJECT, and SysKind and LCID beyond their parsing: for display only.
* More than one damage to a file at a time. The proof about `Open` covers it, the run
  does not.

## 7. Plan

Done, in this order: `VbaProject` and its parts, `VbaContract`, `CfbDirectory`,
`CfbLayout` with `CfbReader`, `OvbaCompression`, proofs; then `CfbOpen` and `CfbFile`,
`SourceForms` and `VbaImport`, `RecordBytes`, `DirBytes`, `DataEncryption` and
`ReadBytes`, and the proofs about `Open`, the FAT, the sectors read back, the compression,
the round trip, the contract, the imports, the protection record, the record walk, the
parser of `dir`, the splice read back, the directory walked and searched, and what the
loops of `Open` compute.

Left:

1. `VbaProject` over the bytes of a compound file. Each half is checked alone:
   `ReadsWhatWasWritten`, `RejectsExactly` and `FatMinimal` say of the file what `VbaProject`
   takes for granted, `ParsesAsDeclared` and `SpliceStable` say it of `dir`.
2. A proof of `ReadsWhatWasWritten` from `ReadBack`, `WalkFindsAll` and `OpenComputes`: the
   image of `CfbFile` gives every sector three readings, that of `CfbLayout` one.
