--------------------------- MODULE MCVbaProject ---------------------------
(***************************************************************************)
(* Instances of VbaProject for TLC: files as a host saves them, and a      *)
(* small table for the codepages.                                          *)
(***************************************************************************)
EXTENDS VbaProject

AllStrings == STRING

\* Sources: ASCII, Japanese, accented Latin, a text whose last chunk has no
\* encoding, what a wrong codepage makes of one, what an undecodable byte leaves.
MCTexts == {"ascii", "nihon", "accent", "noise", "mojibake", "replaced"}

\* Byte strings: nihonAlt decodes like nihon but is not what the encoder emits
\* (Shift_JIS has characters with two codes).
MCBytes == {"ascii", "nihon932", "nihonAlt", "accent1252", "noise"}

MCCodePages == {932, 1252, 1200}

MCDecoding ==
  [c \in MCCodePages |-> [b \in MCBytes |->
     CASE c = 1200 -> "NoText"
       [] b \in {"ascii", "noise"} -> b
       [] b = "nihon932"   -> IF c = 932 THEN "nihon" ELSE "mojibake"
       [] b = "nihonAlt"   -> IF c = 932 THEN "nihon" ELSE "replaced"
       [] b = "accent1252" -> IF c = 1252 THEN "accent" ELSE "replaced"]]

MCEncoding ==
  [c \in MCCodePages |-> [t \in MCTexts |->
     CASE c = 1200 -> "NoBytes"
       [] t \in {"ascii", "noise"} -> t
       [] t = "nihon"    -> IF c = 932 THEN "nihon932" ELSE "NoBytes"
       [] t = "accent"   -> IF c = 1252 THEN "accent1252" ELSE "NoBytes"
       [] t = "mojibake" -> IF c = 1252 THEN "nihon932" ELSE "NoBytes"
       [] t = "replaced" -> "NoBytes"]]

\* Every text but the ASCII one takes two cells.
MCSourceSize(bytes) == IF bytes = "ascii" THEN 1 ELSE 2

\* A reference whose library identifier does not compress: the host had a full
\* chunk to put it in, dir as Write rebuilds it is shorter.
MCDirCompresses(recs) == \A i \in At(recs, {"REFERENCENAME"}) : recs[i].val # "Noise"

\* Eight cells to a FAT sector.
FatSectorsOf(b, SourceSize(_)) ==
  LET sources == {path \in DOMAIN b : /\ path \notin {ProjectPath, DirPath}
                                      /\ Last(b[path]).cell = "compressed"}
      cells(path) == Len(b[path])
                       + IF path \in sources THEN SourceSize(Last(b[path]).of) - 1 ELSE 0
  IN  (FoldSet(LAMBDA path, sum : sum + cells(path), 0, DOMAIN b) + 7) \div 8

MCFatSectors(b) == FatSectorsOf(b, MCSourceSize)

-----------------------------------------------------------------------------
Mod(name, stream, key, bytes) ==
  [name |-> name, stream |-> stream, key |-> key, bytes |-> bytes]

L(key, val) == [key |-> key, val |-> val]

\* PROJECT as the VBE writes it: module lines, Name, protection record, then
\* the two sections; [Workspace] has a line "<module>=<window geometry>".
HostLines(mods, cmg) ==
  [k \in DOMAIN mods |-> L(mods[k].key, mods[k].name)]
    \o << L("Name", "VBAProject") >>
    \o (IF cmg = "" THEN << >> ELSE << L("CMG", cmg) >>)
    \o << L("", "[Host Extender Info]"), L("", "[Workspace]") >>
    \o [k \in DOMAIN mods |-> L(mods[k].name, "25, 25, 1439, 639, Z")]

HostDir(mods, cp, refs) ==
  << Rec("SYSKIND", 3), Rec("PROJECTCODEPAGE", cp), Rec("PROJECTVERSION", 0) >>
    \o FlattenSeq([k \in DOMAIN refs |->
         << Rec("REFERENCENAME", refs[k]), Rec("REFERENCEREGISTERED", 0) >>])
    \o << Rec("PROJECTMODULES", Len(mods)), Rec("PROJECTCOOKIE", 0) >>
    \o FlattenSeq([k \in DOMAIN mods |->
         << Rec("MODULENAME", mods[k].name), Rec("MODULESTREAMNAME", mods[k].stream),
            Rec("MODULEOFFSET", 1), Rec("MODULECOOKIE", 7),
            Rec("MODULETYPE", IF mods[k].key = "Module" THEN 33 ELSE 34),
            Rec("MODULEPRIVATE", 0), Rec("MODULE", 0) >>])
    \o << Rec("TERMINATOR", 0) >>

\* A name as the directory of the compound file gives it, in UTF-8.
InDirectory(name) == IF name = "NihonName" THEN "NihonNameUtf8" ELSE name

\* The file: VBA storage with p-code caches, PROJECT, and the opaque streams
\* (PROJECTwm, and a designer storage for every form).
HostFile(mods, cp, refs, cmg) ==
  LET forms   == {mods[k].name : k \in {j \in DOMAIN mods : mods[j].key = "BaseClass"}}
      frames  == {FramePath(f) : f \in forms} \cup {<< f, "o" >> : f \in forms}
      stream(k) == ModulePath(InDirectory(mods[k].stream))
      streams == {stream(k) : k \in DOMAIN mods}
      index(path) == CHOOSE k \in DOMAIN mods : stream(k) = path
  IN  [path \in {ProjectPath, DirPath, StubPath, CachePath, << "PROJECTwm" >>}
                  \cup frames \cup streams |->
         CASE path = ProjectPath -> HostLines(mods, cmg)
           [] path = DirPath     -> << Compressed(HostDir(mods, cp, refs)) >>
           [] path \in streams   -> << PCode, Compressed(mods[index(path)].bytes) >>
           [] OTHER              -> << PCode >>]

Sheet(b) == Mod("Sheet1", "Sheet1", "Document", b)
Std(b)   == Mod("Util", "util", "Module", b)
Form(b)  == Mod("Form", "Form", "BaseClass", b)
Japanese == Mod("NihonName", "Module1", "Module", "ascii")
JapaneseStream == Mod("Module1", "NihonName", "Module", "ascii")

\* One-module files in every codepage and with every source bytes.
Plain == {HostFile(<< Sheet(b) >>, c, << >>, PT!CmgClear) :
            b \in MCBytes, c \in MCCodePages}

\* Two modules, references (one repeated), a form, a protected project, a
\* project without protection record, a damaged one, a name that is not ASCII
\* for a module and for a stream, which Read does not find.
Rich == {HostFile(<< Sheet("ascii"), Std("nihon932") >>, 932, << "stdole", "Office", "stdole" >>, PT!CmgClear),
         HostFile(<< Form("ascii"), Std("accent1252") >>, 1252, << "stdole" >>, "")}
Locked == {HostFile(<< Sheet("ascii") >>, 932, << >>, PT!CmgLocked)}
Odd == {HostFile(<< Sheet("ascii") >>, 932, << >>, PT!CmgMalformed),
        HostFile(<< Japanese, Sheet("ascii") >>, 932, << >>, PT!CmgClear),
        HostFile(<< JapaneseStream, Sheet("ascii") >>, 932, << >>, PT!CmgClear)}
\* A file cut short of its PROJECT stream.
NoProjectText == {[path \in DOMAIN f \ {ProjectPath} |-> f[path]] : f \in Locked}

\* Files beside whose other streams an ASCII source just fits, and none does;
\* a dir stream that Compress refuses.
Beside(cells) == HostFile(<< Sheet("ascii") >>, 932, << >>, PT!CmgClear)
                   @@ (<< "Other" >> :> [k \in 1 .. cells |-> PCode])
Large == {Beside(14), Beside(15), HostFile(<< Sheet("ascii") >>, 932, << "Noise" >>, PT!CmgClear)}

AllFiles == Plain \cup Rich \cup Locked \cup Odd \cup NoProjectText \cup Large

\* They are what the theorem about SourceEditsSavable asks of the first files.
ASSUME CoherentAssumption == \A b \in AllFiles : Coherent(b)

\* A form with its designer storage, whose code is in a stream of another name.
StructuralFiles ==
  {HostFile(<< Mod("Form", "code", "BaseClass", "ascii") >>, 1252, << "stdole" >>, "")}
\* A standard module.
StandardFiles == {HostFile(<< Std("ascii") >>, 932, << "stdole" >>, PT!CmgClear)}

\* A module called by the name of a PROJECT key.
NamedDocument == {HostFile(<< Sheet("ascii"), Mod("Document", "Document", "Class", "ascii") >>,
                        932, << >>, PT!CmgClear)}
=============================================================================
