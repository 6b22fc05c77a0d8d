---------------------------- MODULE SourceForms ----------------------------
(***************************************************************************)
(* NormalizeModuleSource (src/vbaproject/normalize.go): from the text of a *)
(* module as it is kept in a file to the text that its stream holds.       *)
(*                                                                         *)
(* A text is the sequence of its lines, which strings.Split returns: never *)
(* empty, and with a last blank line when the text ends in a line break.   *)
(* A line is [form, of]; its form says which prefixes the code finds in it:*)
(* one of VBAttributes for "Attribute <form> ", "Attribute" for an         *)
(* attribute of a member ("Attribute x.VB_Description"), "indented" for a  *)
(* VB_ attribute behind spaces, "VERSION", "END", "blank", or "code".  A   *)
(* text in a file has a line break, CRLF or LF, with every line.           *)
(***************************************************************************)
EXTENDS Naturals, Sequences, FiniteSetsExt, SequencesExt

VBAttributes == {"VB_Name", "VB_Base", "VB_PredeclaredId", "VB_Exposed",
                 "VB_TemplateDerived", "VB_Customizable"}

Line(form, of) == [form |-> form, of |-> of]

IsText(text) == text # << >> /\ text \in Seq({text[k] : k \in DOMAIN text})

IsAttribute(line) == line.form \in VBAttributes \cup {"Attribute"}
NamesVB(line) == line.form \in VBAttributes \cup {"indented"}
HasForm(text, form) == \E k \in DOMAIN text : text[k].form = form

From(text, k) == SubSeq(text, k, Len(text))

toCRLF(disk) == [k \in DOMAIN disk |-> disk[k].line]

\* Mutant of Header: it stops a line too early.
HeaderShort(text) ==
  LET others == {k \in DOMAIN text : ~IsAttribute(text[k])}
  IN  IF others = {} THEN text ELSE SubSeq(text, 1, Min(others) - 2)

\* The run of attribute lines at the start of a text.
Header(text) ==
  LET others == {k \in DOMAIN text : ~IsAttribute(text[k])}
  IN  IF others = {} THEN text ELSE SubSeq(text, 1, Min(others) - 1)

-----------------------------------------------------------------------------
StdAccepts(text) == HasForm(text, "VB_Name")

\* What follows the first END line.
ClassBody(text) == From(text, Min({k \in DOMAIN text : text[k].form = "END"}) + 1)

ClassAccepts(text) ==
  /\ text[1].form = "VERSION"
  /\ HasForm(text, "END")
  /\ HasForm(ClassBody(text), "VB_Name")
  /\ HasForm(ClassBody(text), "VB_Exposed")

\* The lines that the stream has and the file has not.
Injected(line) ==
  CASE line.form = "VB_Name" -> << Line("VB_Base", "class") >>
    [] line.form = "VB_Exposed" ->
         << Line("VB_TemplateDerived", "False"), Line("VB_Customizable", "False") >>
    [] OTHER -> << >>

\* Mutant of normalizeClass: the block at the top is kept.
normalizeClassWhole(text) ==
  FlattenSeq([k \in DOMAIN text |-> << text[k] >> \o Injected(text[k])])

normalizeClass(text) ==
  LET body == ClassBody(text)
  IN  FlattenSeq([k \in DOMAIN body |-> << body[k] >> \o Injected(body[k])])

\* A form's code begins at the first line after the last VB_ attribute that is
\* not blank.
FormAccepts(text) == \E k \in DOMAIN text : NamesVB(text[k])

FormCode(text) ==
  LET last == Max({k \in DOMAIN text : NamesVB(text[k])})
  IN  From(text, Min({k \in last + 1 .. Len(text) : text[k].form # "blank"}
                       \cup {Len(text) + 1}))

-----------------------------------------------------------------------------
\* existing is the source of the module that is replaced, or the empty
\* sequence when the caller passes none.
Accepts(type, disk, existing) ==
  LET text == toCRLF(disk)
  IN  CASE type = "ModuleStd"      -> StdAccepts(text)
        [] type = "ModuleClass"    -> ClassAccepts(text)
        [] type = "ModuleDocument" -> Header(existing) # << >>
        [] type = "ModuleForm"     -> Header(existing) # << >> /\ FormAccepts(text)

NormalizeModuleSource(type, disk, existing) ==
  LET text == toCRLF(disk)
  IN  CASE type = "ModuleStd"      -> text
        [] type = "ModuleClass"    -> normalizeClass(text)
        [] type = "ModuleDocument" -> Header(existing) \o text
        [] type = "ModuleForm"     -> Header(existing) \o FormCode(text)
=============================================================================
