---------------------------- MODULE VbaContract ----------------------------
(***************************************************************************)
(* VbaImport implements EditContract.  The refinement mapping is kept in a *)
(* variable, view, that every step recomputes from the file and the        *)
(* Project (it restricts nothing): the document is what Read makes of the  *)
(* file, the buffer is the Project.                                        *)
(***************************************************************************)
EXTENDS VbaImport

\* The entries of a file as the host keeps them: each module with its offset, a
\* name, and a stream that is not dir.
HostEntries(b) ==
  DirPath \in DOMAIN b /\ IsContainer(b[DirPath]) =>
    LET plain == DirPlain(b)
        dm    == DirModules(plain)
    IN  /\ HasOffsets(plain)
        /\ \A k \in DOMAIN dm : dm[k].Name # "" /\ ModulePath(StreamOf(dm[k])) # DirPath

\* The content of a stream is a sequence of cells.
IsCells(cells) ==
  /\ Len(cells) \in Nat
  /\ cells = [i \in 1 .. Len(cells) |-> cells[i]]

ASSUME HostEntriesAssumption ==
  \A b \in Inputs :
    /\ HostEntries(b)
    /\ \A path \in DOMAIN b : firstSegment(path) = "VBA" => IsCells(b[path])

VARIABLE view

Document(p) ==
  [k \in DOMAIN p.Modules |-> [name   |-> p.Modules[k].Name,
                               kind   |-> p.Modules[k].Type,
                               source |-> p.Modules[k].Source]]

Payload(b) ==
  [opaque  |-> Opaque(b),
   project |-> IF ProjectPath \in DOMAIN b THEN Lines(b) ELSE << >>,
   info    |-> IF Readable(b) THEN ProjectInfoRaw(DirPlain(b)) ELSE << >>,
   refs    |-> IF Readable(b) THEN RefsRaw(DirPlain(b)) ELSE << >>]

View(b, p) ==
  [stored  |-> IF Readable(b) THEN Document(Decomposed(b)) ELSE NoProject,
   buffer  |-> IF p = NoProject THEN NoProject ELSE Document(p),
   payload |-> Payload(b),
   locked  |-> ProjectPath \in DOMAIN b /\ PT!IsProtected(Lines(b))]

ViewSpec ==
  /\ Init /\ view = View(bin, proj)
  /\ [][ImportNext /\ \E b \in {bin'}, p \in {proj'} : view' = View(b, p)]_<< vars, view >>

Contract == INSTANCE EditContract WITH
  Sources    <- Texts,
  NoBuffer   <- NoProject,
  Unreadable <- NoProject,
  stored     <- view.stored,
  buffer     <- view.buffer,
  payload    <- view.payload,
  locked     <- view.locked

\* Read, Import, Write, its refusals and the host's saves, in any order,
\* are Open, EditOne and Save of the contract or invisible to it: a Write that
\* succeeds stores every module of the buffer and touches nothing else, and
\* one that fails stores nothing.
ImplementsContract == Contract!Spec
=============================================================================
