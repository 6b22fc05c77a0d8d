----------------------------- MODULE VbaProject -----------------------------
(***************************************************************************)
(* Read, edit, Write: the read-modify-write of a vbaProject.bin            *)
(* (src/vbaproject), over one file and one in-memory Project.              *)
(*                                                                         *)
(* The compound file is a function from stream paths to stream contents;   *)
(* a content is a sequence of cells.  A compressed stream is one cell      *)
(* Compressed(x), optionally after p-code cells; PROJECT is a sequence of  *)
(* lines; every other content is opaque.                                   *)
(*                                                                         *)
(* A string is the bytes of a Go string.  The names of dir and PROJECT are *)
(* those bytes as they stand there, in the codepage of the file; a segment *)
(* of a path is UTF-8, made from the UTF-16 of the directory entry.  Of a  *)
(* name that is not ASCII the two differ in all codepages but UTF-8.       *)
(***************************************************************************)
EXTENDS DirStream, CfbPaths

PT == INSTANCE ProjectText

CONSTANTS
  Inputs,        \* the vbaProject.bin files a host application has saved
  Texts,         \* module sources as Go strings
  Bytes,         \* module sources as byte strings of some codepage
  CodePages,     \* codepage numbers the dir stream or an edit may name
  Decoding,      \* decodeMBCS: [codepage -> [Bytes -> Texts or NoText]]
  Encoding,      \* encodeMBCS: [codepage -> [Texts -> Bytes or NoBytes]]
  NoText, NoBytes,
  Incompressible,\* byte strings Compress has no encoding for
  DirCompresses(_), \* of the records of a dir stream: Compress has one for it
  FatSectors(_),    \* of a file: the FAT sectors that assemble needs for it
  MaxFatSectors, \* difatHeaderLen, those the header can list: 109 in the code
  TooLong,       \* names of more than 31 UTF-16 code units
  NonASCII,      \* names with a byte above 0x7F
  Names,         \* names an edit may give to a module or to its stream
  Edits,         \* the fields of the Project the caller edits
  MaxModules,    \* bound: modules in an edited Project
  NoProject

ASSUME CodecAssumption ==
  /\ NoText \notin Texts /\ NoBytes \notin Bytes
  /\ Decoding \in [CodePages -> [Bytes -> Texts \cup {NoText}]]
  /\ Encoding \in [CodePages -> [Texts -> Bytes \cup {NoBytes}]]
  /\ \A c \in CodePages, t \in Texts :
       Encoding[c][t] # NoBytes => Decoding[c][Encoding[c][t]] = t

ASSUME NamesAssumption == Names \subseteq STRING /\ CodePages \subseteq Nat
ASSUME StringsAssumption == AnyName = STRING
ASSUME EmptyAssumption == NoName = ""
ASSUME LiteralsAssumption ==
  {"VBA", "PROJECT", "dir", "_VBA_PROJECT", "__SRP_0"} \subseteq STRING

VARIABLES
  bin,   \* the file
  proj,  \* the *Project the caller holds, NoProject before the first Read
  last,  \* the last call and its outcome
  orig   \* history: the file this behaviour started from

vars == << bin, proj, last, orig >>

ModuleTypes == {"ModuleStd", "ModuleClass", "ModuleDocument", "ModuleForm"}
Outcomes == {"init", "read", "readError", "edit", "write", "writeError", "host"}

Compressed(x) == [cell |-> "compressed", of |-> x]
PCode == [cell |-> "pcode", of |-> << >>]

ProjectPath == << "PROJECT" >>
DirPath     == << "VBA", "dir" >>
CachePath   == << "VBA", "__SRP_0" >>
StubPath    == << "VBA", "_VBA_PROJECT" >>
Stub        == << [cell |-> "stub", of |-> << >>] >>
ModulePath(stream) == << "VBA", stream >>
FramePath(name)    == << name, "VBFrame" >>

\* ovba.Decompress accepts a stream that is exactly one compressed container.
IsContainer(cells) == Len(cells) = 1 /\ cells[1].cell = "compressed"

Lines(b) == b[ProjectPath]
DirPlain(b) == b[DirPath][1].of

\* A file is a function from stream paths to contents; a dir stream that
\* decompresses is a sequence of records.
IsFile(b) ==
  /\ b = [path \in DOMAIN b |-> b[path]]
  /\ \A path \in DOMAIN b : path \in Seq(STRING) /\ path # << >>
  /\ DirPath \in DOMAIN b /\ IsContainer(b[DirPath]) => IsDir(DirPlain(b))

ASSUME InputsAssumption == \A b \in Inputs : IsFile(b)

\* A file has finitely many streams, and a host writes the records of dir in
\* their order.
ASSUME HostFilesAssumption ==
  \A b \in Inputs :
    /\ IsFiniteSet(DOMAIN b)
    /\ DirPath \in DOMAIN b /\ IsContainer(b[DirPath]) => IsOrdered(DirPlain(b))

-----------------------------------------------------------------------------
(***************************************************************************)
(* Read.                                                                   *)
(***************************************************************************)

\* The name of the stream of a dir entry: its own name when it states none.
StreamOf(dm) == IF dm.StreamName = "" THEN dm.Name ELSE dm.StreamName

\* raw[dm.Offset:]
Source(b, dm) == LET raw == b[ModulePath(StreamOf(dm))]
                 IN  SubSeq(raw, dm.Offset + 1, Len(raw))

ModuleReadable(b, dm, cp) ==
  /\ ModulePath(StreamOf(dm)) \in DOMAIN b
  /\ dm.Offset <= Len(b[ModulePath(StreamOf(dm))])
  /\ IsContainer(Source(b, dm))
  /\ cp \in CodePages
  /\ Source(b, dm)[1].of \in Bytes
  /\ Decoding[cp][Source(b, dm)[1].of] # NoText

\* Read returns a Project on exactly these files, and an error on the others.
Readable(b) ==
  /\ {ProjectPath, DirPath} \subseteq DOMAIN b
  /\ IsContainer(b[DirPath])
  /\ PT!CmgReadable(Lines(b))
  /\ \A k \in DOMAIN DirModules(DirPlain(b)) :
       ModuleReadable(b, DirModules(DirPlain(b))[k], CodePage(DirPlain(b)))

classify(b, name) ==
  LET kinds == PT!Kinds(Lines(b))
      key   == IF name \in DOMAIN kinds THEN kinds[name] ELSE ""
  IN  CASE key = "Module"    -> "ModuleStd"
        [] key = "Class"     -> "ModuleClass"
        [] key = "Document"  -> "ModuleDocument"
        [] key = "BaseClass" -> "ModuleForm"
        [] OTHER -> IF FramePath(name) \in DOMAIN b THEN "ModuleForm"
                                                    ELSE "ModuleClass"

\* Mutant of Opaque: streams keyed by their path below the first segment.
OpaqueBelowFirst(b) ==
  [p \in {Tail(q) : q \in {r \in DOMAIN b : firstSegment(r) \notin {"VBA", "PROJECT"}}} |->
     b[CHOOSE q \in DOMAIN b : Tail(q) = p]]

\* The streams the writer does not own.
Opaque(b) ==
  [p \in {q \in DOMAIN b : firstSegment(q) \notin {"VBA", "PROJECT"}} |-> b[p]]

Module(b, dm) ==
  [Name       |-> dm.Name,
   StreamName |-> StreamOf(dm),
   Type       |-> classify(b, dm.Name),
   Source     |-> Decoding[CodePage(DirPlain(b))][Source(b, dm)[1].of]]

\* The Project that Read returns for a Readable file.
Decomposed(b) ==
  LET plain == DirPlain(b)
      mods  == DirModules(plain)
  IN  [Modules          |-> [k \in DOMAIN mods |-> Module(b, mods[k])],
       References       |-> RefNames(plain),
       ReferencesRaw    |-> RefsRaw(plain),
       ProjectInfoRaw   |-> ProjectInfoRaw(plain),
       ProjectStreamRaw |-> Lines(b),
       RawStreams       |-> Opaque(b),
       CodePage         |-> CodePage(plain),
       IsProtected      |-> PT!IsProtected(Lines(b))]

Read ==
  /\ Readable(bin)
  /\ proj' = Decomposed(bin)
  /\ last' = "read"
  /\ UNCHANGED << bin, orig >>

ReadFails ==
  /\ ~Readable(bin)
  /\ last' = "readError"
  /\ UNCHANGED << bin, proj, orig >>

-----------------------------------------------------------------------------
(***************************************************************************)
(* Write.                                                                  *)
(***************************************************************************)

\* Mutant of projectKind: a form has no keyword that PROJECT uses.
projectKindNoForm == [ModuleStd |-> "Module", ModuleClass |-> "Class",
                      ModuleDocument |-> "Document", ModuleForm |-> ""]

projectKind == [ModuleStd |-> "Module", ModuleClass |-> "Class",
                ModuleDocument |-> "Document", ModuleForm |-> "BaseClass"]

moduleTypeID(type) == IF type = "ModuleStd" THEN 33 ELSE 34   \* 0x21, 0x22

isASCII(m) == m.Name \notin NonASCII /\ m.StreamName \notin NonASCII

\* Mutants of checkModuleSet: kinds not compared; missing modules not noticed.
checkNamesOnly(p) ==
  DOMAIN PT!Kinds(p.ProjectStreamRaw) = {p.Modules[k].Name : k \in DOMAIN p.Modules}
checkListedOnly(p) ==
  LET listed == PT!Kinds(p.ProjectStreamRaw)
  IN  \A k \in DOMAIN p.Modules :
        /\ p.Modules[k].Name \in DOMAIN listed
        /\ listed[p.Modules[k].Name] = projectKind[p.Modules[k].Type]

checkModuleSet(p) ==
  LET listed == PT!Kinds(p.ProjectStreamRaw)
  IN  /\ \A k \in DOMAIN p.Modules :
           /\ p.Modules[k].Name \in DOMAIN listed
           /\ listed[p.Modules[k].Name] = projectKind[p.Modules[k].Type]
      /\ DOMAIN listed \subseteq {p.Modules[k].Name : k \in DOMAIN p.Modules}

\* Mutant of Encoded: one codepage for every project.
Encoded1252(p, k) == Encoding[1252][p.Modules[k].Source]

Encoded(p, k) == Encoding[p.CodePage][p.Modules[k].Source]

ModuleWritable(p, k) ==
  /\ p.CodePage \in CodePages
  /\ Encoded(p, k) # NoBytes
  /\ Encoded(p, k) \notin Incompressible

\* The AddStream calls, in their order but for the raw streams, which the
\* code takes in the arbitrary order of a Go map.
AddedPaths(p) ==
  SetToSeq(DOMAIN p.RawStreams)
    \o << ProjectPath, StubPath, DirPath >>
    \o [k \in DOMAIN p.Modules |-> ModulePath(p.Modules[k].StreamName)]

ModuleSpec(m) == [Name |-> m.Name, StreamName |-> m.StreamName,
                  TypeID |-> moduleTypeID(m.Type)]

BuiltDir(p) ==
  p.ProjectInfoRaw \o p.ReferencesRaw
    \o BuildProjectModules([k \in DOMAIN p.Modules |-> ModuleSpec(p.Modules[k])])

OwnPaths(p) ==
  {ProjectPath, StubPath, DirPath}
    \cup {ModulePath(p.Modules[k].StreamName) : k \in DOMAIN p.Modules}

ModuleAt(p, path) ==
  CHOOSE k \in DOMAIN p.Modules : ModulePath(p.Modules[k].StreamName) = path

Content(p, path) ==
  CASE path \in DOMAIN p.RawStreams -> p.RawStreams[path]
    [] path = ProjectPath -> p.ProjectStreamRaw
    [] path = StubPath    -> Stub
    [] path = DirPath     -> << Compressed(BuiltDir(p)) >>
    [] OTHER              -> << Compressed(Encoded(p, ModuleAt(p, path))) >>

\* The file Write returns for a Writable project.
Assembled(p) ==
  [path \in DOMAIN p.RawStreams \cup OwnPaths(p) |-> Content(p, path)]

\* Mutant of Writable: the protection guard is gone.
WritableUnguarded(p) ==
  /\ \A k \in DOMAIN p.Modules : isASCII(p.Modules[k])
  /\ checkModuleSet(p)
  /\ DirCompresses(BuiltDir(p))
  /\ \A k \in DOMAIN p.Modules : ModuleWritable(p, k)
  /\ ~TreeRejects(AddedPaths(p), TooLong)
  /\ FatSectors(Assembled(p)) <= MaxFatSectors

\* Write succeeds on exactly these projects: the last two conjuncts are the
\* refusals of buildTree and of assemble.
Writable(p) ==
  /\ ~p.IsProtected
  /\ \A k \in DOMAIN p.Modules : isASCII(p.Modules[k])
  /\ checkModuleSet(p)
  /\ DirCompresses(BuiltDir(p))
  /\ \A k \in DOMAIN p.Modules : ModuleWritable(p, k)
  /\ ~TreeRejects(AddedPaths(p), TooLong)
  /\ FatSectors(Assembled(p)) <= MaxFatSectors

\* Mutant of Write: only the streams the writer owns are added.
WriteOwnedOnly ==
  /\ proj # NoProject
  /\ Writable(proj)
  /\ bin' = Assembled([proj EXCEPT !.RawStreams = << >>])
  /\ last' = "write"
  /\ UNCHANGED << proj, orig >>

Write ==
  /\ proj # NoProject
  /\ Writable(proj)
  /\ bin' = Assembled(proj)
  /\ last' = "write"
  /\ UNCHANGED << proj, orig >>

WriteFails ==
  /\ proj # NoProject
  /\ ~Writable(proj)
  /\ last' = "writeError"
  /\ UNCHANGED << bin, proj, orig >>

-----------------------------------------------------------------------------
(***************************************************************************)
(* The caller: assignments to the fields of the Project it holds.          *)
(***************************************************************************)

Becomes(p) ==
  /\ proj' = p
  /\ last' = "edit"
  /\ UNCHANGED << bin, orig >>

EditSource(k, t) ==
  /\ "Source" \in Edits
  /\ Becomes([proj EXCEPT !.Modules[k].Source = t])

EditStreamName(k, n) ==
  /\ "StreamName" \in Edits
  /\ Becomes([proj EXCEPT !.Modules[k].StreamName = n])

Rename(k, n) ==
  /\ "Name" \in Edits
  /\ Becomes([proj EXCEPT !.Modules[k].Name = n])

Retype(k, type) ==
  /\ "Type" \in Edits
  /\ Becomes([proj EXCEPT !.Modules[k].Type = type])

AddModule(k, n, stream) ==
  /\ "Add" \in Edits
  /\ Len(proj.Modules) < MaxModules
  /\ Becomes([proj EXCEPT !.Modules =
                Append(@, [@[k] EXCEPT !.Name = n, !.StreamName = stream])])

RemoveModule(k) ==
  /\ "Remove" \in Edits
  /\ Becomes([proj EXCEPT !.Modules = RemoveAt(@, k)])

EditCodePage(c) ==
  /\ "CodePage" \in Edits
  /\ Becomes([proj EXCEPT !.CodePage = c])

Edit ==
  /\ proj # NoProject
  /\ \/ \E k \in DOMAIN proj.Modules :
          \/ \E t \in Texts : EditSource(k, t)
          \/ \E n \in Names : EditStreamName(k, n)
          \/ \E n \in Names : Rename(k, n)
          \/ \E type \in ModuleTypes : Retype(k, type)
          \/ \E n, stream \in Names : AddModule(k, n, stream)
          \/ RemoveModule(k)
     \/ \E c \in CodePages : EditCodePage(c)

-----------------------------------------------------------------------------
(***************************************************************************)
(* External: the host application opens the file, compiles the sources and *)
(* saves.  It puts its p-code in front of every compressed source, states  *)
(* the new offsets in dir, and adds its cache stream to the VBA storage.   *)
(***************************************************************************)

PCodeLen == 2

HostSave ==
  /\ Readable(bin)
  /\ LET plain    == DirPlain(bin)
         dm       == DirModules(plain)
         sources  == {ModulePath(StreamOf(dm[k])) : k \in DOMAIN dm}
         recached == [i \in DOMAIN plain |->
                       IF plain[i].id = "MODULEOFFSET"
                         THEN Rec("MODULEOFFSET", PCodeLen) ELSE plain[i]]
     IN  bin' = [path \in DOMAIN bin \cup {CachePath} |->
                  IF path = DirPath THEN << Compressed(recached) >>
                  ELSE IF path \in sources THEN << PCode, PCode, Last(bin[path]) >>
                  ELSE IF path = CachePath THEN << PCode >>
                  ELSE bin[path]]
  /\ last' = "host"
  /\ UNCHANGED << proj, orig >>

-----------------------------------------------------------------------------
Init ==
  /\ bin \in Inputs
  /\ proj = NoProject
  /\ last = "init"
  /\ orig = bin

Next == Read \/ ReadFails \/ Edit \/ Write \/ WriteFails \/ HostSave

Spec == Init /\ [][Next]_vars

-----------------------------------------------------------------------------
(***************************************************************************)
(* Properties.                                                             *)
(***************************************************************************)

\* The file is a map from paths to contents, the Project a value of its Go
\* type as far as the model keeps it.
TypeOK ==
  /\ IsFile(bin) /\ IsFile(orig)
  /\ last \in Outcomes
  /\ proj # NoProject =>
       /\ proj.Modules \in
            Seq([Name : STRING, StreamName : STRING, Type : ModuleTypes, Source : Texts])
       /\ IsFile(proj.RawStreams)
       /\ IsDir(proj.ProjectInfoRaw) /\ IsDir(proj.ReferencesRaw)
       /\ proj.IsProtected \in BOOLEAN
       /\ proj.CodePage \in Nat

\* Whatever the caller edits and however often it reads, writes and fails to
\* write, and whatever the host saves in between, the streams outside VBA and
\* PROJECT are those of the first file, and so is the PROJECT text with its
\* protection record (stream pass-through of Read and Write).
PassThrough ==
  /\ Opaque(bin) = Opaque(orig)
  /\ ProjectPath \in DOMAIN orig =>
       ProjectPath \in DOMAIN bin /\ Lines(bin) = Lines(orig)

\* A file whose protection record is locked is only ever changed by the host:
\* no sequence of edits of a Project read from it leads to a successful Write.
ProtectedKept ==
  [][(ProjectPath \in DOMAIN bin /\ PT!IsProtected(Lines(bin)) /\ bin' # bin
        => last' = "host")]_vars

\* The codepage in which Write encodes is the one it states: the caller has
\* not set Props.CodePage to another one than the preserved dir span names.
CodePageKept == proj.CodePage = CodePage(proj.ProjectInfoRaw)

\* The caller has left no module without a stream name: Write gives such a
\* module the stream VBA/ while Read looks for it under the module's name.
StreamsNamed == \A k \in DOMAIN proj.Modules : proj.Modules[k].StreamName # ""

\* What Write has saved, Read takes apart into the Project that was written:
\* modules in order with names, streams, kinds and decoded sources, the
\* reference and information spans, the raw streams, the codepage.
RoundTrip ==
  last = "write" /\ CodePageKept /\ StreamsNamed =>
    Readable(bin) /\ Decomposed(bin) = proj

\* A written file is a fixed point: reading it and writing it back unedited
\* rebuilds the same streams.
WriteIdempotent ==
  last = "write" /\ CodePageKept /\ StreamsNamed =>
    Writable(Decomposed(bin)) /\ Assembled(Decomposed(bin)) = bin

\* A written file is source-only and agrees with itself: dir and PROJECT list
\* the same names, the VBA storage holds a stream for each module entry and
\* nothing else, every source starts at offset 0, and the MODULES count is
\* the number of entries.
SelfConsistent ==
  last = "write" =>
    LET plain == DirPlain(bin)
        dm    == DirModules(plain)
    IN  /\ {dm[k].Name : k \in DOMAIN dm} = DOMAIN PT!Kinds(Lines(bin))
        /\ {path \in DOMAIN bin : firstSegment(path) = "VBA"}
             = {DirPath, StubPath} \cup {ModulePath(dm[k].StreamName) : k \in DOMAIN dm}
        /\ \A k \in DOMAIN dm : dm[k].Offset = 0
        /\ plain[RefEnd(plain)].val = Len(dm)

\* A file whose parts agree, as a host saves it: PROJECT lists the modules of
\* dir and nothing else (no window line of [Workspace] is read as one), each
\* module has a stream of its own, and the paths could stand in one tree.
Coherent(b) ==
  {ProjectPath, DirPath} \subseteq DOMAIN b /\ IsContainer(b[DirPath]) =>
    LET dm == DirModules(DirPlain(b))
    IN  /\ Lines(b) \in PT!Lines
        /\ DOMAIN PT!Kinds(Lines(b)) = {dm[k].Name : k \in DOMAIN dm}
        /\ \A k \in DOMAIN dm : ModulePath(StreamOf(dm[k])) \notin {DirPath, StubPath}
        /\ \A k, j \in DOMAIN dm : StreamOf(dm[k]) = StreamOf(dm[j]) => k = j
        /\ StubPath \in DOMAIN b
        /\ \A path \in DOMAIN b : ~BadPath(path, TooLong)
        /\ \A path, other \in DOMAIN b : path # other => ~IsPrefix(path, other)

\* The limits the repository states: an unprotected project with ASCII names
\* (docs/DESIGN.md, "Write guards"), sources the codepage can express ("Encoding
\* boundary"), nothing that has no lossless encoding (compressChunk), and a FAT
\* that the header can list (docs/DESIGN.md, "Minimal-profile writer").
WithinLimits(p) ==
  /\ ~p.IsProtected
  /\ \A k \in DOMAIN p.Modules : isASCII(p.Modules[k]) /\ ModuleWritable(p, k)
  /\ DirCompresses(BuiltDir(p))
  /\ FatSectors(Assembled(p)) <= MaxFatSectors

\* What the documentation calls fully supported: a Project whose sources are
\* the only thing that changed since it was read can be saved whenever it is
\* within the stated limits.  Neither the comparison with PROJECT nor the tree
\* of paths ever refuses it, whatever was read, written and saved before.
SourceEditsSavable == proj # NoProject /\ WithinLimits(proj) => Writable(proj)

-----------------------------------------------------------------------------
(***************************************************************************)
(* A statement of the documentation that the code does not keep.           *)
(***************************************************************************)

\* docs/DESIGN.md on the module-set invariant: Write checks that PROJECT and
\* Project.Modules match exactly, so a written dir lists no module twice.
ModuleSetMatches ==
  last = "write" => Len(proj.Modules) = Cardinality(DOMAIN PT!Kinds(Lines(bin)))
=============================================================================
