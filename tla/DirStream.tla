----------------------------- MODULE DirStream -----------------------------
(***************************************************************************)
(* The decompressed VBA/dir stream (src/ovba/parse.go, src/ovba/project.go)*)
(* as the sequence of its records.  A record is [id, val]; the ids keep    *)
(* the names the source gives them in its comments.  A byte span of the    *)
(* stream is a run of records.                                             *)
(***************************************************************************)
EXTENDS Naturals, Sequences, FiniteSetsExt

CONSTANTS
  CountLimit, \* the MODULES count is 16 bits wide: 2^16 in the code
  AnyName,    \* names: strings, or their bytes
  NoName      \* the empty one

ASSUME CountLimitAssumption == CountLimit \in Nat \ {0}
ASSUME NoNameAssumption == NoName \in AnyName

Rec(id, val) == [id |-> id, val |-> val]

\* The records whose value is a name; the others hold a number, or nothing
\* that is read.
NameIds == {"REFERENCENAME", "MODULENAME", "MODULESTREAMNAME"}
ValueIds ==
  {"SYSKIND", "PROJECTCODEPAGE", "PROJECTVERSION", "REFERENCEREGISTERED", "PROJECTMODULES",
   "PROJECTCOOKIE", "MODULEOFFSET", "MODULECOOKIE", "MODULETYPE", "MODULEPRIVATE", "MODULE",
   "TERMINATOR", "OTHER"}

IsDir(recs) ==
  /\ Len(recs) \in Nat
  /\ recs = [i \in 1 .. Len(recs) |-> Rec(recs[i].id, recs[i].val)]
  /\ \A i \in DOMAIN recs :
       \/ recs[i].id \in NameIds /\ recs[i].val \in AnyName
       \/ recs[i].id \in ValueIds /\ recs[i].val \in Nat

At(recs, ids) == {i \in DOMAIN recs : recs[i].id \in ids}

FirstAt(recs, id) == IF At(recs, {id}) = {} THEN 0 ELSE Min(At(recs, {id}))

\* The k-th smallest element of a set of positions.
Nth(S, k) == CHOOSE i \in S : Cardinality({j \in S : j <= i}) = k

\* The value of the last record of kind id between positions from and to.
LastVal(recs, id, from, to, default) ==
  LET hits == At(recs, {id}) \cap (from .. to)
  IN  IF hits = {} THEN default ELSE recs[Max(hits)].val

-----------------------------------------------------------------------------
(***************************************************************************)
(* ParseDir.                                                               *)
(***************************************************************************)

CodePage(recs) == LastVal(recs, "PROJECTCODEPAGE", 1, Len(recs), 0)

\* RefNames: the names of the REFERENCENAME records, each at its first one.
RefNames(recs) ==
  LET fresh == {i \in At(recs, {"REFERENCENAME"}) :
                  \A j \in At(recs, {"REFERENCENAME"}) :
                    recs[j].val = recs[i].val => i <= j}
  IN  [k \in 1 .. Cardinality(fresh) |-> recs[Nth(fresh, k)].val]

RefStart(recs) == FirstAt(recs, "REFERENCENAME")
RefEnd(recs)   == FirstAt(recs, "PROJECTMODULES")
\* Mutant of InfoEnd: the references are kept in both spans.
InfoEndAtModules(recs) == RefEnd(recs)
InfoEnd(recs)  == IF RefStart(recs) # 0 THEN RefStart(recs) ELSE RefEnd(recs)

ProjectInfoRaw(recs) == SubSeq(recs, 1, InfoEnd(recs) - 1)

RefsRaw(recs) ==
  IF RefStart(recs) # 0 /\ RefEnd(recs) > RefStart(recs)
    THEN SubSeq(recs, RefStart(recs), RefEnd(recs) - 1)
    ELSE << >>

\* The order of records on which the two spans rely, that of [MS-OVBA]
\* 2.3.4.2: information with the codepage, references, modules.
IsOrdered(recs) ==
  /\ RefEnd(recs) # 0
  /\ \A i \in At(recs, {"REFERENCENAME"}) : i < RefEnd(recs)
  /\ \A i \in At(recs, {"MODULENAME"}) : i > RefEnd(recs)
  /\ \A i \in At(recs, {"PROJECTCODEPAGE"}) : i < InfoEnd(recs)

\* The run of records of the module whose MODULENAME stands at position i
\* ends before the next MODULENAME (flush), or with the stream.
RunEnd(recs, i) ==
  LET later == {j \in At(recs, {"MODULENAME"}) : j > i}
  IN  IF later = {} THEN Len(recs) ELSE Min(later) - 1

\* Every module states its offset, and there is none before the modules.
HasOffsets(recs) ==
  /\ \A i \in At(recs, {"MODULEOFFSET"}) : i > RefEnd(recs)
  /\ \A i \in At(recs, {"MODULENAME"}) :
       At(recs, {"MODULEOFFSET"}) \cap (i .. RunEnd(recs, i)) # {}

DirModule(recs, i) ==
  [Name       |-> recs[i].val,
   StreamName |-> LastVal(recs, "MODULESTREAMNAME", i, RunEnd(recs, i), NoName),
   Offset     |-> LastVal(recs, "MODULEOFFSET", i, RunEnd(recs, i), 0),
   TypeID     |-> LastVal(recs, "MODULETYPE", i, RunEnd(recs, i), 0)]

DirModules(recs) ==
  LET starts == At(recs, {"MODULENAME"})
  IN  [k \in 1 .. Cardinality(starts) |-> DirModule(recs, Nth(starts, k))]

-----------------------------------------------------------------------------
(***************************************************************************)
(* BuildProjectModules.  A ModuleSpec is [Name, StreamName, TypeID]; the   *)
(* UNICODE twins, the empty docstrings and the help context of a module    *)
(* carry nothing that the parser reads and stand in the MODULECOOKIE.      *)
(***************************************************************************)

modRecord(m) ==
  << Rec("MODULENAME", m.Name), Rec("MODULESTREAMNAME", m.StreamName),
     Rec("MODULEOFFSET", 0), Rec("MODULECOOKIE", 0),
     Rec("MODULETYPE", m.TypeID), Rec("MODULE", 0) >>

\* The records of all modules, six to a module.
ModuleRecords(specs) ==
  [i \in 1 .. 6 * Len(specs) |->
     modRecord(specs[((i - 1) \div 6) + 1])[((i - 1) % 6) + 1]]

BuildProjectModules(specs) ==
  << Rec("PROJECTMODULES", Len(specs) % CountLimit), Rec("PROJECTCOOKIE", 0) >>
    \o ModuleRecords(specs)
    \o << Rec("TERMINATOR", 0) >>
=============================================================================
