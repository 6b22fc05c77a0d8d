---------------------------- MODULE RecordBytes ----------------------------
(***************************************************************************)
(* The bytes of the records of the dir stream (src/ovba/record.go and the  *)
(* builders in src/ovba/project.go).  A byte is a number below Base; names *)
(* are ASCII, as Write demands.                                            *)
(***************************************************************************)
EXTENDS Integers, Sequences, SequencesExt

CONSTANT Base   \* values of a byte: 256 in the code

ASSUME BaseAssumption == Base \in Nat /\ Base >= 8

Byte == 0 .. Base - 1

\* b[from:to] of a Go slice.
Slice(b, from, to) == SubSeq(b, from + 1, to)

\* Little-endian numbers of two or four bytes; a number that does not fit loses
\* its high digits.
Place == << 1, Base, Base * Base, Base * Base * Base >>
LE(n, width) == [k \in 1 .. width |-> (n \div Place[k]) % Base]

le16(b) == IF Len(b) < 2 THEN 0 ELSE b[1] + Base * b[2]
le32(b) == IF Len(b) < 4 THEN 0
           ELSE le16(b) + Base * Base * le16(Slice(b, 2, 4))

-----------------------------------------------------------------------------
\* The ids that the parser knows, and of the others those that are built.
SysKind           == 1
CodePageId        == 3
Version           == 9
ProjectModules    == 15
Terminator        == 16
ProjectCookie     == 19
LCID              == 20
ReferenceName     == 22
ModuleName        == 25
StreamNameId      == 26
DocString         == 28
HelpContext       == 30
ProcModule        == 33
OtherModule       == 34
ModuleEnd         == 43
ModuleCookie      == 44
ModuleOffset      == 49
StreamNameUnicode == 50
ModuleNameUnicode == 71
DocStringUnicode  == 72

sizedRecord(id, payload) == LE(id, 2) \o LE(Len(payload), 4) \o payload

recU16(id, v) == sizedRecord(id, LE(v, 2))
recU32(id, v) == sizedRecord(id, LE(v, 4))

utf16le(s) == FlattenSeq([k \in DOMAIN s |-> << s[k], 0 >>])

modRecord(m) ==
  sizedRecord(ModuleName, m.Name) \o sizedRecord(ModuleNameUnicode, utf16le(m.Name))
    \o sizedRecord(StreamNameId, m.StreamName)
    \o sizedRecord(StreamNameUnicode, utf16le(m.StreamName))
    \o sizedRecord(DocString, << >>) \o sizedRecord(DocStringUnicode, << >>)
    \o recU32(ModuleOffset, 0) \o recU32(HelpContext, 0)
    \o recU16(ModuleCookie, Base * Base - 1)
    \o sizedRecord(m.TypeID, << >>) \o sizedRecord(ModuleEnd, << >>)

BuildProjectModules(specs) ==
  recU16(ProjectModules, Len(specs)) \o recU16(ProjectCookie, Base * Base - 1)
    \o FlattenSeq([k \in DOMAIN specs |-> modRecord(specs[k])])
    \o sizedRecord(Terminator, << >>)
=============================================================================
