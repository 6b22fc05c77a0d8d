---------------------------- MODULE ProjectText ----------------------------
(***************************************************************************)
(* The PROJECT stream of a VBA project (src/ovba/parse.go).                *)
(*                                                                         *)
(* The stream is text; a line is a record [key, val] split at its first    *)
(* "=".  A line with no "=" (blank lines and the "[Workspace]" and "[Host  *)
(* Extender Info]" headers) has key NoKey and is skipped by the parser,    *)
(* which therefore does not know in which section a line stands.  A val is *)
(* what the parser keeps of it: quotes trimmed, and the "/&H00000000" tail *)
(* of a Document line cut.                                                 *)
(***************************************************************************)
EXTENDS Naturals, Sequences, FiniteSetsExt

NoKey == ""

ModuleKeys == {"Module", "Class", "BaseClass", "Document"}

Lines == Seq([key : STRING, val : STRING])

\* The positions of the lines that ParseProjectText files under a key of K.
At(lines, K) == {i \in DOMAIN lines : lines[i].key \in K}

\* A field the parser overwrites each time it meets the key: the last line
\* wins, and a key that never occurs leaves the empty string.
Field(lines, key) ==
  IF At(lines, {key}) = {} THEN "" ELSE lines[Max(At(lines, {key}))].val

CMG(lines) == Field(lines, "CMG")

\* ProjectText.Kinds: module name -> key, the last line of a name winning.
Kinds(lines) ==
  [n \in {lines[i].val : i \in At(lines, ModuleKeys)} |->
     lines[Max({i \in At(lines, ModuleKeys) : lines[i].val = n})].key]

(***************************************************************************)
(* isProtected (src/vbaproject/read.go).  The CMG value is one of four     *)
(* sorts: absent, a state with no protection bit, a state with one of the  *)
(* user/host/VBA bits, or a string that cannot be decrypted to 4 bytes.    *)
(***************************************************************************)
CmgClear == "clear"
CmgLocked == "locked"
CmgMalformed == "malformed"

CmgReadable(lines) == CMG(lines) \in {"", CmgClear, CmgLocked}
IsProtected(lines) == CMG(lines) = CmgLocked
=============================================================================
