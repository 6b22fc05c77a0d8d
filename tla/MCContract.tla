----------------------------- MODULE MCContract -----------------------------
(***************************************************************************)
(* Files whose sources are lines, and texts to import into them.           *)
(***************************************************************************)
EXTENDS MCVbaProject, VbaContract

Attr(form) == Line(form, "x")
Code(of)   == Line("code", of)
End        == Line("blank", "")

\* Sources as the host keeps them.  The member attribute stands in the code.
StdText   == << Attr("VB_Name"), Code("a"), End >>
SheetText == << Attr("VB_Name"), Line("VB_Base", "sheet"), Attr("VB_Exposed"),
                Code("a"), Attr("Attribute"), End >>
FormText  == << Attr("VB_Name"), Line("VB_Base", "form"), Attr("VB_Exposed"), Code("a"), End >>
ClassText == << Attr("VB_Name"), Line("VB_Base", "class"), Attr("VB_Exposed"),
                Attr("VB_TemplateDerived"), Code("a"), End >>
Bare      == << Code("a"), End >>   \* a document without its header
Mojibake  == << Code("mojibake"), End >>

OnDisk(text, eol) == [k \in DOMAIN text |-> [line |-> text[k], eol |-> eol]]

\* Texts in files; "nihon" lines have no encoding in 1252, "noise" makes a
\* text that Compress refuses.
ClassDisk(of) == << Line("VERSION", ""), Code("BEGIN"), Line("END", ""), Attr("VB_Name"),
                    Attr("VB_Exposed"), Code(of), Line("END", ""), End >>
FormDisk(of)  == << Line("VERSION", ""), Code("Begin"), Line("END", ""), Attr("VB_Name"),
                    Line("indented", "x"), End, Code(of), Attr("Attribute"), End >>

MCDisks ==
  [ModuleStd      |-> {OnDisk(<< Attr("VB_Name"), Code("b"), End >>, "LF"),
                       OnDisk(<< Attr("VB_Name"), Code("noise"), End >>, "CRLF"),
                       OnDisk(<< Code("b") >>, "CRLF")},
   ModuleDocument |-> {OnDisk(<< Code("b"), Attr("Attribute"), Code("nihon") >>, "CRLF"),
                       OnDisk(<< End >>, "LF")},
   ModuleForm     |-> {OnDisk(FormDisk("b"), "LF"),
                       OnDisk(<< Attr("VB_Name"), End >>, "CRLF"),
                       OnDisk(<< Code("b") >>, "CRLF")},
   ModuleClass    |-> {OnDisk(ClassDisk("b"), "CRLF"),
                       OnDisk(SubSeq(ClassDisk("b"), 4, 6), "CRLF"),
                       OnDisk(SubSeq(ClassDisk("b"), 1, 4), "LF")}]

\* What comes of importing with one of the texts as the existing source.
Imported(texts) ==
  UNION {UNION {{NormalizeModuleSource(t, d, e) : e \in {x \in texts : Accepts(t, d, x)}}
                  : d \in MCDisks[t]} : t \in ModuleTypes}

\* The sources of the files and all that imports lead to, whatever is in the
\* way: the longest header has five lines.
ImportTexts ==
  LET reached[n \in 0 .. 6] ==
        IF n = 0 THEN {StdText, SheetText, FormText, ClassText, Bare, Mojibake}
                 ELSE LET texts == reached[n - 1] IN texts \cup Imported(texts)
  IN  reached[6]

Holds(text, of) == \E k \in DOMAIN text : text[k].of = of

\* A byte string is a text and the codepage it is in, 0 for ASCII.
InCodePage(text) == [cp |-> IF Holds(text, "nihon") THEN 932 ELSE 0, text |-> text]
ImportBytes == {InCodePage(t) : t \in ImportTexts}

\* NoText and NoBytes, comparable with the others.
Refused      == << >>
RefusedBytes == [cp |-> 0, text |-> << >>]

ImportDecoding ==
  [c \in MCCodePages |-> [b \in ImportBytes |->
     IF c = 1200 THEN Refused ELSE IF b.cp \in {0, c} THEN b.text ELSE Mojibake]]

ImportEncoding ==
  [c \in MCCodePages |-> [t \in ImportTexts |->
     IF c = 1200 \/ InCodePage(t).cp \notin {0, c} THEN RefusedBytes ELSE InCodePage(t)]]

\* A line of a text takes a cell.
ImportSourceSize(bytes) == Len(bytes.text)
ImportFatSectors(b) == FatSectorsOf(b, ImportSourceSize)

Noise == {b \in ImportBytes : Holds(b.text, "noise")}

-----------------------------------------------------------------------------
DocOf(text) == Mod("Sheet1", "Sheet1", "Document", InCodePage(text))

ImportFiles ==
  {HostFile(<< DocOf(SheetText), Mod("Util", "util", "Module", InCodePage(StdText)) >>,
            932, << "stdole", "Office", "stdole" >>, PT!CmgClear),
   HostFile(<< Mod("Form", "Form", "BaseClass", InCodePage(FormText)),
               Mod("Bag", "Bag", "Class", InCodePage(ClassText)) >>, 1252, << "stdole" >>, ""),
   HostFile(<< DocOf(SheetText) >>, 1252, << >>, PT!CmgClear),
   HostFile(<< DocOf(SheetText) >>, 932, << >>, PT!CmgLocked),
   HostFile(<< DocOf(SheetText) >>, 932, << >>, PT!CmgMalformed),
   HostFile(<< DocOf(SheetText) >>, 1200, << >>, PT!CmgClear),
   HostFile(<< DocOf(Bare) >>, 932, << >>, PT!CmgClear)}
=============================================================================
