----------------------------- MODULE ReadBytes -----------------------------
(***************************************************************************)
(* The metadata that Read makes of bytes, and the dir stream that Write    *)
(* makes of the metadata: ParseDir (DirBytes) and then isProtected         *)
(* (DataEncryption) as Read calls them, the splice of the preserved spans  *)
(* with BuildProjectModules as Write makes it, and Read once more.  What   *)
(* stands between, the compression and the compound file, gives back what  *)
(* it is given (OvbaCompression, CfbFile).                                 *)
(***************************************************************************)
EXTENDS DirBytes, DataEncryption

CONSTANT
  Inputs    \* pairs of a dir stream and a protection record: [dir, record]; a
            \* dir stream is [made, kind, plain]: made are the records that
            \* plain holds, "whole", "cut" off or with a byte "changed"

\* The bytes of one record, PROJECTVERSION in its own form.
Bytes(r) == IF r.id = Version THEN LE(Version, 2) \o r.payload
            ELSE sizedRecord(r.id, r.payload)

Whole(made) == FlattenSeq([j \in DOMAIN made |-> Bytes(made[j])])

\* What is known of a dir stream; Reserved, Major and Minor of PROJECTVERSION
\* are ten bytes.
IsStream(d) ==
  /\ d.made \in Seq([id : 0 .. Base * Base - 1, payload : Seq(Byte)])
  /\ \A j \in DOMAIN d.made :
       LET size == Len(d.made[j].payload)
       IN  IF d.made[j].id = Version THEN size = 10 ELSE size < Base * Base * Base * Base
  /\ d.plain \in Seq(Byte)
  /\ d.kind \in {"whole", "cut", "changed"}
  /\ d.kind = "whole" => d.plain = Whole(d.made)
  /\ d.kind = "cut" => \E n \in 0 .. Len(Whole(d.made)) : d.plain = SubSeq(Whole(d.made), 1, n)

\* The order of records in [MS-OVBA] 2.3.4.2, that of every file an Office
\* application saves: what is said of the project and its references comes
\* before PROJECTMODULES, the modules behind it.
ProjectIds == {SysKind, LCID, CodePageId, ReferenceName}
InOrder(made) ==
  \A j, l \in DOMAIN made : made[j].id = ProjectModules =>
    /\ l > j => made[l].id \notin ProjectIds
    /\ l < j => made[l].id # ModuleName

ASSUME StreamsAssumption == \A input \in Inputs : IsStream(input.dir)

\* Below 2 GB: the size of a name fits in its field, in UTF-16 too.
ASSUME SizesAssumption ==
  \A input \in Inputs : 2 * Len(input.dir.plain) < Base * Base * Base * Base
ASSUME RecordsAssumption == \A input \in Inputs : IsRecord(input.record)

VARIABLES
  origin,   \* history: the dir stream this behaviour started from
  before    \* history: the DirInfo of the first Read, as a sequence

vars == << dirVars, encVars, origin, before >>

D == INSTANCE DirStream WITH
       CountLimit <- Base * Base, AnyName <- Seq(Byte), NoName <- << >>

StreamOf(dm) == IF dm.StreamName = << >> THEN dm.Name ELSE dm.StreamName

\* PROJECT calls procedural modules Module and all others something else.
ModuleSpec(dm) ==
  [Name |-> dm.Name, StreamName |-> StreamOf(dm),
   TypeID |-> IF dm.TypeID = ProcModule THEN ProcModule ELSE OtherModule]

BuiltDir(info) ==
  info.ProjectInfoRaw \o info.RefsRaw
    \o BuildProjectModules([j \in DOMAIN info.Modules |-> ModuleSpec(info.Modules[j])])

-----------------------------------------------------------------------------
Init ==
  /\ \E input \in Inputs : origin = input.dir /\ enc = input.record
  /\ plain = origin.plain
  /\ Called
  /\ verdict = "idle" /\ pos = 0 /\ decrypted = << >>
  /\ unencByte1 = 0 /\ encByte1 = 0 /\ encByte2 = 0
  /\ before = << >>

Parse == DirNext /\ UNCHANGED << encVars, origin, before >>

CallProtection ==
  /\ stage = "parsed" /\ verdict = "idle"
  /\ verdict' = "called"
  /\ pos' = 0 /\ decrypted' = << >>
  /\ UNCHANGED << dirVars, enc, cipher, origin, before >>

Protection == EncNext /\ UNCHANGED << dirVars, origin, before >>

\* Write splices the dir stream anew, and the file is read again.  A project
\* that is locked is refused, and one Read has failed on does not exist; the
\* refusals for names and paths are in VbaProject.
WriteAndRead ==
  /\ verdict = "clear" /\ before = << >>
  /\ before' = << di >>
  /\ plain' = BuiltDir(di)
  /\ stage' = Fresh.stage /\ i' = Fresh.i /\ recs' = Fresh.recs /\ k' = Fresh.k
  /\ cur' = Fresh.cur /\ refStart' = Fresh.refStart /\ refEnd' = Fresh.refEnd
  /\ di' = Fresh.di
  /\ verdict' = "idle"
  /\ UNCHANGED << enc, pos, cipher, decrypted, origin >>

Next == Parse \/ CallProtection \/ Protection \/ WriteAndRead

\* Read is a sequential function that runs until it returns; whether the
\* caller writes is the caller's choice.
FairSpec == Init /\ [][Next]_vars /\ WF_vars(Parse \/ CallProtection \/ Protection)

-----------------------------------------------------------------------------
(***************************************************************************)
(* The records of DirStream; their names are bytes.                        *)
(***************************************************************************)

Abstract(r) ==
  CASE r.id = CodePageId     -> D!Rec("PROJECTCODEPAGE", le16(r.payload))
    [] r.id = ReferenceName  -> D!Rec("REFERENCENAME", r.payload)
    [] r.id = ProjectModules -> D!Rec("PROJECTMODULES", le16(r.payload))
    [] r.id = ModuleName     -> D!Rec("MODULENAME", r.payload)
    [] r.id = StreamNameId   -> D!Rec("MODULESTREAMNAME", r.payload)
    [] r.id = ModuleOffset   -> D!Rec("MODULEOFFSET", le32(r.payload))
    [] r.id \in {ProcModule, OtherModule} -> D!Rec("MODULETYPE", r.id)
    [] OTHER                 -> D!Rec("OTHER", 0)

AbstractAll(rs) == [j \in DOMAIN rs |-> Abstract(rs[j])]

\* walkRecords as a function of the bytes.
IdAt(b, p)  == le16(Slice(b, p, p + 2))
EndAt(b, p) == p + 6 + le32(Slice(b, p + 2, p + 6))

Walk(b) ==
  LET from[p \in 0 .. Len(b) + 6] ==
        IF p + 6 > Len(b) THEN << >>
        ELSE IF IdAt(b, p) = Version THEN from[p + 12]
        ELSE IF EndAt(b, p) > Len(b) THEN << >>
        ELSE << [id |-> IdAt(b, p), payload |-> Slice(b, p + 6, EndAt(b, p))] >>
               \o from[EndAt(b, p)]
  IN  from[0]

\* All but PROJECTVERSION.
Sized(rs) == FlattenSeq([j \in DOMAIN rs |-> IF rs[j].id = Version THEN << >> ELSE << rs[j] >>])

EndOf(rs, j) == Len(FlattenSeq([n \in 1 .. j |-> Bytes(rs[n])]))

-----------------------------------------------------------------------------
(***************************************************************************)
(* Properties.                                                             *)
(***************************************************************************)

\* From a stream that is whole, or cut off at any byte, the walk gets exactly
\* the records that are there to their last byte: a record is neither missed
\* nor made up, and PROJECTVERSION does not throw the walk out of step.
WalkFindsRecords ==
  before = << >> /\ origin.kind \in {"whole", "cut"} /\ stage = "parse" /\ k = 1 =>
    LET all == Max({0} \cup {j \in DOMAIN origin.made : EndOf(origin.made, j) <= Len(plain)})
    IN  [j \in DOMAIN recs |-> [id |-> recs[j].id, payload |-> recs[j].payload]]
          = Sized(SubSeq(origin.made, 1, all))

\* On any bytes the loop, with its open module and its two marks, computes
\* what DirStream declares of the records, and the byte spans it keeps hold
\* exactly the runs of records that DirStream takes for them.
ParsesAsDeclared ==
  stage = "parsed" =>
    LET all == AbstractAll(recs)
    IN  /\ di.CodePage = D!CodePage(all)
        /\ di.RefNames = D!RefNames(all)
        /\ di.Modules = D!DirModules(all)
        /\ AbstractAll(Walk(di.ProjectInfoRaw)) = D!ProjectInfoRaw(all)
        /\ AbstractAll(Walk(di.RefsRaw)) = D!RefsRaw(all)

\* A module as Write has saved it: its source is at the start of its stream.
Saved(dm) ==
  LET m == ModuleSpec(dm)
  IN  [Name |-> m.Name, StreamName |-> m.StreamName, Offset |-> 0, TypeID |-> m.TypeID]

\* Splicing is stable: when Write has spliced a stream and it is read again,
\* both spans come back byte for byte, on any bytes in which the modules follow
\* the references; from a stream in order and with no wrong byte so does
\* everything else, the sources now at offset 0.
SpliceStable ==
  stage = "parsed" /\ before # << >> =>
    LET first == before[1]
        all   == AbstractAll(Walk(origin.plain))
        ended == D!RefEnd(all) > D!RefStart(all)
    IN  /\ ended => di.ProjectInfoRaw = first.ProjectInfoRaw /\ di.RefsRaw = first.RefsRaw
        /\ ended /\ origin.kind # "changed" /\ InOrder(origin.made) =>
             di = [first EXCEPT !.Modules = [j \in DOMAIN @ |-> Saved(@[j])]]

Results == {"error", "data", "clear", "locked"}

\* Read returns, on any bytes.
ReadReturns == stage = "walk" ~> verdict \in Results
=============================================================================
