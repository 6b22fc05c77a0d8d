------------------------------ MODULE DirBytes ------------------------------
(***************************************************************************)
(* ParseDir on any bytes, loop by loop: walkRecords cuts the buffer into   *)
(* records, then ParseDir goes through them (src/ovba/parse.go).           *)
(***************************************************************************)
EXTENDS RecordBytes

VARIABLES
  plain,             \* input: the decompressed dir stream
  stage,             \* "walk", "parse", "parsed"
  i, recs,           \* walkRecords: recs[j] is [id, start, payload]
  k,                 \* the record that ParseDir looks at
  cur,               \* the module that is open, as a sequence of at most one
  refStart, refEnd,  \* -1 until they are found
  di                 \* the DirInfo

loops   == << k, cur, refStart, refEnd, di >>
dirVars == << plain, stage, i, recs, loops >>

NoInfo == [SysKind |-> 0, LCID |-> 0, CodePage |-> 0, RefNames |-> << >>,
           RefsRaw |-> << >>, ProjectInfoRaw |-> << >>, Modules |-> << >>]

\* The locals of a call.
Fresh == [stage |-> "walk", i |-> 0, recs |-> << >>, k |-> 1, cur |-> << >>,
          refStart |-> -1, refEnd |-> -1, di |-> NoInfo]

-----------------------------------------------------------------------------
(***************************************************************************)
(* walkRecords.                                                            *)
(***************************************************************************)

HeaderFits == i + 6 <= Len(plain)
Id   == le16(Slice(plain, i, i + 2))
Size == le32(Slice(plain, i + 2, i + 6))
PayloadFits == i + 6 + Size <= Len(plain)

\* Mutants of SkipVersion: by its size field; without moving on.
SkipVersionSized ==
  /\ stage = "walk" /\ HeaderFits /\ Id = Version
  /\ i' = i + 6 + Size
  /\ UNCHANGED << plain, stage, recs, loops >>
SkipVersionStuck ==
  /\ stage = "walk" /\ HeaderFits /\ Id = Version
  /\ UNCHANGED dirVars

\* PROJECTVERSION has no size field: id, Reserved(4), Major(4), Minor(2).
SkipVersion ==
  /\ stage = "walk" /\ HeaderFits /\ Id = Version
  /\ i' = i + 12
  /\ UNCHANGED << plain, stage, recs, loops >>

CutRecord ==
  /\ stage = "walk" /\ HeaderFits /\ Id # Version /\ PayloadFits
  /\ recs' = Append(recs, [id |-> Id, start |-> i,
                           payload |-> Slice(plain, i + 6, i + 6 + Size)])
  /\ i' = i + 6 + Size
  /\ UNCHANGED << plain, stage, loops >>

\* At the end of the buffer, or at a record that overruns it.
WalkEnds ==
  /\ stage = "walk"
  /\ HeaderFits => Id # Version /\ ~PayloadFits
  /\ stage' = "parse"
  /\ UNCHANGED << plain, i, recs, loops >>

-----------------------------------------------------------------------------
(***************************************************************************)
(* The loop of ParseDir.                                                   *)
(***************************************************************************)

R == recs[k]

Looking(ids) == stage = "parse" /\ k <= Len(recs) /\ R.id \in ids

Advance == k' = k + 1 /\ UNCHANGED << plain, stage, i, recs >>

TakeSysKind ==
  /\ Looking({SysKind})
  /\ di' = [di EXCEPT !.SysKind = le32(R.payload)]
  /\ Advance /\ UNCHANGED << cur, refStart, refEnd >>

TakeLCID ==
  /\ Looking({LCID})
  /\ di' = [di EXCEPT !.LCID = le32(R.payload)]
  /\ Advance /\ UNCHANGED << cur, refStart, refEnd >>

TakeCodePage ==
  /\ Looking({CodePageId})
  /\ di' = [di EXCEPT !.CodePage = le16(R.payload)]
  /\ Advance /\ UNCHANGED << cur, refStart, refEnd >>

\* A name that was seen is folded.
TakeReferenceName ==
  /\ Looking({ReferenceName})
  /\ refStart' = IF refStart < 0 THEN R.start ELSE refStart
  /\ di' = [di EXCEPT !.RefNames =
              IF R.payload \in ToSet(@) THEN @ ELSE Append(@, R.payload)]
  /\ Advance /\ UNCHANGED << cur, refEnd >>

EndReferences ==
  /\ Looking({ProjectModules})
  /\ refEnd' = IF refEnd < 0 THEN R.start ELSE refEnd
  /\ Advance /\ UNCHANGED << cur, refStart, di >>

\* Mutant of OpenModule: the open module is not flushed.
OpenModuleUnflushed ==
  /\ Looking({ModuleName})
  /\ cur' = << [Name |-> R.payload, StreamName |-> << >>, Offset |-> 0, TypeID |-> 0] >>
  /\ Advance /\ UNCHANGED << refStart, refEnd, di >>

OpenModule ==
  /\ Looking({ModuleName})
  /\ di' = [di EXCEPT !.Modules = @ \o cur]
  /\ cur' = << [Name |-> R.payload, StreamName |-> << >>, Offset |-> 0, TypeID |-> 0] >>
  /\ Advance /\ UNCHANGED << refStart, refEnd >>

TakeField(ids, field, value) ==
  /\ Looking(ids) /\ cur # << >>
  /\ cur' = [cur EXCEPT ![1][field] = value]
  /\ Advance /\ UNCHANGED << refStart, refEnd, di >>

TakeStreamName == TakeField({StreamNameId}, "StreamName", R.payload)
TakeOffset == TakeField({ModuleOffset}, "Offset", le32(R.payload))
TakeType   == TakeField({ProcModule, OtherModule}, "TypeID", R.id)

Fields == {StreamNameId, ModuleOffset, ProcModule, OtherModule}
Known  == Fields \cup {SysKind, LCID, CodePageId, ReferenceName, ProjectModules, ModuleName}

\* Any other record, and a field of a module where none is open.
PassOver ==
  /\ stage = "parse" /\ k <= Len(recs)
  /\ R.id \in Known => R.id \in Fields /\ cur = << >>
  /\ Advance /\ UNCHANGED << cur, refStart, refEnd, di >>

InfoEnd == IF refStart < 0 THEN refEnd ELSE refStart

\* Mutant of Spans: the information reaches up to PROJECTMODULES.
SpansOverlap ==
  [ProjectInfoRaw |-> IF refEnd > 0 THEN Slice(plain, 0, refEnd) ELSE << >>,
   RefsRaw |-> IF refStart >= 0 /\ refEnd > refStart
                 THEN Slice(plain, refStart, refEnd) ELSE << >>]

Spans ==
  [ProjectInfoRaw |-> IF InfoEnd > 0 THEN Slice(plain, 0, InfoEnd) ELSE << >>,
   RefsRaw |-> IF refStart >= 0 /\ refEnd > refStart
                 THEN Slice(plain, refStart, refEnd) ELSE << >>]

ParseEnds ==
  /\ stage = "parse" /\ k > Len(recs)
  /\ di' = [di EXCEPT !.Modules = @ \o cur,
                      !.ProjectInfoRaw = Spans.ProjectInfoRaw,
                      !.RefsRaw = Spans.RefsRaw]
  /\ cur' = << >>
  /\ stage' = "parsed"
  /\ UNCHANGED << plain, i, recs, k, refStart, refEnd >>

-----------------------------------------------------------------------------
Called ==
  /\ stage = Fresh.stage /\ i = Fresh.i /\ recs = Fresh.recs /\ k = Fresh.k
  /\ cur = Fresh.cur /\ refStart = Fresh.refStart /\ refEnd = Fresh.refEnd
  /\ di = Fresh.di

DirNext ==
  \/ SkipVersion \/ CutRecord \/ WalkEnds
  \/ TakeSysKind \/ TakeLCID \/ TakeCodePage \/ TakeReferenceName \/ EndReferences
  \/ OpenModule \/ TakeStreamName \/ TakeOffset \/ TakeType \/ PassOver \/ ParseEnds

DirSpec == Called /\ [][DirNext]_dirVars
=============================================================================
