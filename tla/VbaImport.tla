----------------------------- MODULE VbaImport -----------------------------
(***************************************************************************)
(* VbaProject with the edits of a caller who keeps the sources in files:   *)
(* it normalises the text of a file (NormalizeModuleSource) with the       *)
(* module it is going to replace as existing, and assigns the result.      *)
(***************************************************************************)
EXTENDS VbaProject, SourceForms

CONSTANT Disks   \* texts of files, by the type of the module they are kept for

\* What comes of normalising one is a text.
ASSUME ImportsAssumption ==
  \A type \in ModuleTypes, existing \in Texts \cup {<< >>} :
    \A disk \in Disks[type] :
      Accepts(type, disk, existing) => NormalizeModuleSource(type, disk, existing) \in Texts

\* A source in the form the stream keeps: its VB_Name line first and once, and
\* no VERSION block of a file.
InBinForm(text) ==
  /\ text[1].form = "VB_Name"
  /\ \A k \in 2 .. Len(text) : text[k].form \notin {"VB_Name", "VERSION"}

\* What normalize.go expects of a file that it does not refuse: it holds the
\* attributes of the type in their block, and code behind them.  A document is
\* code only.
Exported(type, disk) ==
  LET text == toCRLF(disk)
      IsCode(lines) ==
        /\ lines # << >> => ~IsAttribute(lines[1])
        /\ \A k \in DOMAIN lines : lines[k].form \notin {"VB_Name", "VERSION"}
  IN  CASE type = "ModuleStd"      -> StdAccepts(text) => InBinForm(text)
        [] type = "ModuleClass"    -> ClassAccepts(text) => InBinForm(ClassBody(text))
        [] type = "ModuleDocument" -> IsCode(text)
        [] type = "ModuleForm"     -> FormAccepts(text) => IsCode(FormCode(text))

ASSUME TextsAssumption ==
  /\ \A text \in Texts : IsText(text)
  /\ \A type \in ModuleTypes : \A disk \in Disks[type] : IsText(disk) /\ Exported(type, disk)

\* The modules of a file have names of their own.
ASSUME NamesApartAssumption ==
  \A b \in Inputs :
    DirPath \in DOMAIN b /\ IsContainer(b[DirPath]) =>
      LET dm == DirModules(DirPlain(b))
      IN  \A k, j \in DOMAIN dm : dm[k].Name = dm[j].Name => k = j

\* With or without the module: only documents and forms need it.
Existing(k) == {<< >>, proj.Modules[k].Source}

Import(k, disk, existing) ==
  /\ Accepts(proj.Modules[k].Type, disk, existing)
  /\ Becomes([proj EXCEPT !.Modules[k].Source =
                NormalizeModuleSource(proj.Modules[k].Type, disk, existing)])

\* The error leaves the Project as it is.
ImportFails(k, disk, existing) ==
  /\ ~Accepts(proj.Modules[k].Type, disk, existing)
  /\ Becomes(proj)

ImportNext ==
  \/ Next
  \/ /\ proj # NoProject
     /\ \E k \in DOMAIN proj.Modules :
          \E disk \in Disks[proj.Modules[k].Type], existing \in Existing(k) :
            Import(k, disk, existing) \/ ImportFails(k, disk, existing)

-----------------------------------------------------------------------------
(***************************************************************************)
(* Properties.                                                             *)
(***************************************************************************)

\* The sources in the Project and in the file, with their modules.
Held ==
  (IF proj = NoProject THEN {} ELSE ToSet(proj.Modules))
    \cup (IF Readable(bin) THEN ToSet(Decomposed(bin).Modules) ELSE {})

Original(name) ==
  LET mods == Decomposed(orig).Modules
  IN  mods[CHOOSE k \in DOMAIN mods : mods[k].Name = name]

\* Normalisation takes the header of a document or a form from the module that
\* is there, itself the result of earlier imports, writes and saves by the
\* host.  None of that history shows: every source is the first one, or what
\* one file gives with the first source as existing.  Header lines never
\* multiply, and code never becomes header.
ImportsForgetHistory ==
  \A m \in Held :
    LET first == Original(m.Name)
    IN  \/ m.Source = first.Source
        \/ \E disk \in Disks[m.Type] :
             /\ Accepts(m.Type, disk, first.Source)
             /\ m.Source = NormalizeModuleSource(m.Type, disk, first.Source)

\* Imports lead from files in the form of the stream to such files.
KeepsForm ==
  \A m \in Held : InBinForm(Original(m.Name).Source) => InBinForm(m.Source)
=============================================================================
