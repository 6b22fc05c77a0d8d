-------------------------- MODULE VbaProjectProofs --------------------------
(***************************************************************************)
(* Theorems about VbaProject and VbaContract, for every set of files,      *)
(* names and texts and every codepage table.                               *)
(***************************************************************************)
EXTENDS VbaContract, DirStreamProofs

Fields == {"Modules", "References", "ReferencesRaw", "ProjectInfoRaw",
           "ProjectStreamRaw", "RawStreams", "CodePage", "IsProtected"}

\* What the Project keeps of the first file.
Carries(p) ==
  /\ p = [f \in Fields |-> p[f]]
  /\ p.RawStreams = Opaque(orig)
  /\ p.ProjectStreamRaw = Lines(orig)
  /\ p.IsProtected = PT!IsProtected(Lines(orig))

\* What the file keeps of the first file.
Keeps(b) ==
  /\ Opaque(b) = Opaque(orig)
  /\ ProjectPath \in DOMAIN b <=> ProjectPath \in DOMAIN orig
  /\ ProjectPath \in DOMAIN orig => Lines(b) = Lines(orig)

\* PassThrough alone is not inductive: Write takes the streams from the
\* Project, so the Project must be known to carry those of the first file.
CarryInv ==
  /\ Keeps(bin)
  /\ proj # NoProject => ProjectPath \in DOMAIN orig /\ Carries(proj)

\* A path of the writer's own is in VBA or is PROJECT.
LEMMA PathsKnown ==
  /\ firstSegment(ProjectPath) = "PROJECT"
  /\ firstSegment(DirPath) = "VBA"
  /\ firstSegment(StubPath) = "VBA"
  /\ firstSegment(CachePath) = "VBA"
  /\ \A s : firstSegment(ModulePath(s)) = "VBA" /\ ModulePath(s) # ProjectPath
  /\ DirPath # ProjectPath /\ StubPath # ProjectPath /\ CachePath # ProjectPath
PROOF BY DEF firstSegment, ProjectPath, DirPath, StubPath, CachePath, ModulePath

\* A Project taken from a file carries what that file kept.
LEMMA ReadCarries ==
  ASSUME Keeps(bin), Readable(bin)
  PROVE  ProjectPath \in DOMAIN orig /\ Carries(Decomposed(bin))
<1>1. ProjectPath \in DOMAIN bin
  BY DEF Readable
<1>2. Decomposed(bin) = [f \in Fields |-> Decomposed(bin)[f]]
  BY DEF Decomposed, Fields
<1>3. /\ Decomposed(bin).RawStreams = Opaque(bin)
      /\ Decomposed(bin).ProjectStreamRaw = Lines(bin)
      /\ Decomposed(bin).IsProtected = PT!IsProtected(Lines(bin))
  BY DEF Decomposed
<1> QED
  BY <1>1, <1>2, <1>3 DEF Keeps, Carries

\* The file that Write assembles keeps what the Project carries.
LEMMA AssembledKeeps ==
  ASSUME NEW p, ProjectPath \in DOMAIN orig, Carries(p)
  PROVE  Keeps(Assembled(p))
<1> DEFINE a == Assembled(p)
<1>1. /\ DOMAIN a = DOMAIN p.RawStreams \cup OwnPaths(p)
      /\ \A path \in DOMAIN a : a[path] = Content(p, path)
  BY DEF Assembled
<1> HIDE DEF a
<1>2. \A path \in DOMAIN p.RawStreams :
        /\ firstSegment(path) \notin {"VBA", "PROJECT"}
        /\ a[path] = p.RawStreams[path]
  <2>1. DOMAIN p.RawStreams = {q \in DOMAIN orig : firstSegment(q) \notin {"VBA", "PROJECT"}}
    BY DEF Carries, Opaque
  <2>2. ASSUME NEW path \in DOMAIN p.RawStreams
        PROVE  a[path] = p.RawStreams[path]
    <3>1. path \notin {ProjectPath, StubPath, DirPath}
      BY <2>1, PathsKnown
    <3> QED
      BY <1>1, <3>1 DEF Content
  <2> QED
    BY <2>1, <2>2
<1>3. \A path \in DOMAIN a :
        firstSegment(path) \notin {"VBA", "PROJECT"} => path \in DOMAIN p.RawStreams
  BY <1>1, PathsKnown DEF OwnPaths
<1>4. Opaque(a) = Opaque(orig)
  <2>1. {q \in DOMAIN a : firstSegment(q) \notin {"VBA", "PROJECT"}} = DOMAIN p.RawStreams
    BY <1>1, <1>2, <1>3
  <2>2. Opaque(a) = [q \in DOMAIN p.RawStreams |-> p.RawStreams[q]]
    BY <2>1, <1>2 DEF Opaque
  <2>3. p.RawStreams = [q \in DOMAIN p.RawStreams |-> p.RawStreams[q]]
    BY DEF Carries, Opaque
  <2> QED
    BY <2>2, <2>3 DEF Carries
<1>5. ProjectPath \notin DOMAIN p.RawStreams
  BY <1>2, PathsKnown
<1>6. ProjectPath \in DOMAIN a /\ Lines(a) = p.ProjectStreamRaw
  <2>1. ProjectPath \in DOMAIN a
    BY <1>1 DEF OwnPaths
  <2>2. Content(p, ProjectPath) = p.ProjectStreamRaw
    BY <1>5, PathsKnown DEF Content
  <2> QED
    BY <1>1, <2>1, <2>2 DEF Lines
<1> QED
  BY <1>4, <1>6 DEF Keeps, Carries, a

\* An assignment to one field leaves the carried ones alone.
LEMMA EditCarries ==
  ASSUME NEW p, NEW v, NEW f \in {"Modules", "CodePage"}, Carries(p)
  PROVE  Carries([p EXCEPT ![f] = v])
<1> DEFINE q == [p EXCEPT ![f] = v]
<1>1. p = [g \in Fields |-> p[g]]
  BY DEF Carries
<1>2. /\ q = [g \in Fields |-> q[g]]
      /\ q["RawStreams"] = p["RawStreams"]
      /\ q["ProjectStreamRaw"] = p["ProjectStreamRaw"]
      /\ q["IsProtected"] = p["IsProtected"]
  BY <1>1 DEF Fields
<1> QED
  BY <1>2 DEF Carries

\* The host's save changes module streams and dir, and adds its cache.
LEMMA HostKeeps ==
  ASSUME Keeps(bin), HostSave
  PROVE  Keeps(bin)'
<1> DEFINE plain == DirPlain(bin)
           dm == DirModules(plain)
           sources == {ModulePath(StreamOf(dm[k])) : k \in DOMAIN dm}
<1>1. PICK c : bin' = [path \in DOMAIN bin \cup {CachePath} |->
                  IF path = DirPath THEN << Compressed(c) >>
                  ELSE IF path \in sources THEN << PCode, PCode, Last(bin[path]) >>
                  ELSE IF path = CachePath THEN << PCode >>
                  ELSE bin[path]]
  BY DEF HostSave
<1>2. /\ DirPath # ProjectPath /\ CachePath # ProjectPath /\ ProjectPath \notin sources
      /\ \A path \in sources \cup {DirPath, CachePath} : firstSegment(path) = "VBA"
  BY PathsKnown
<1> HIDE DEF sources
<1>3. /\ DOMAIN bin' = DOMAIN bin \cup {CachePath}
      /\ \A path \in DOMAIN bin \ (sources \cup {DirPath, CachePath}) : bin'[path] = bin[path]
  BY <1>1
<1>4. Opaque(bin') = Opaque(bin)
  <2>1. {q \in DOMAIN bin' : firstSegment(q) \notin {"VBA", "PROJECT"}}
          = {q \in DOMAIN bin : firstSegment(q) \notin {"VBA", "PROJECT"}}
    BY <1>2, <1>3
  <2>2. \A q \in DOMAIN bin :
          firstSegment(q) \notin {"VBA", "PROJECT"} => bin'[q] = bin[q]
    BY <1>2, <1>3
  <2> QED
    BY <2>1, <2>2 DEF Opaque
<1>5. /\ ProjectPath \in DOMAIN bin' <=> ProjectPath \in DOMAIN bin
      /\ ProjectPath \in DOMAIN bin => Lines(bin') = Lines(bin)
  BY <1>2, <1>3 DEF Lines
<1>6. orig' = orig
  BY DEF HostSave
<1> QED
  BY <1>4, <1>5, <1>6 DEF Keeps

\* An edit of the caller leaves the file alone and what the Project carries.
LEMMA EditKeepsCarries ==
  ASSUME CarryInv, Edit
  PROVE  CarryInv'
<1>1. UNCHANGED << bin, orig >>
  BY DEF Edit, EditSource, EditStreamName, Rename, Retype, AddModule, RemoveModule,
         EditCodePage, Becomes
<1>2. ProjectPath \in DOMAIN orig /\ Carries(proj)
  BY DEF CarryInv, Edit
<1>3. \E f \in {"Modules", "CodePage"} : \E v : proj' = [proj EXCEPT ![f] = v]
  BY DEF Edit, EditSource, EditStreamName, Rename, Retype, AddModule, RemoveModule,
         EditCodePage, Becomes
<1>4. \A f \in {"Modules", "CodePage"} : \A v : Carries([proj EXCEPT ![f] = v])
  BY <1>2, EditCarries
<1>5. Carries(proj')
  BY <1>3, <1>4
<1> QED
  BY <1>1, <1>2, <1>5 DEF CarryInv, Keeps, Carries

\* Every step keeps it.
LEMMA CarryStep ==
  ASSUME CarryInv, [Next]_vars
  PROVE  CarryInv'
<1>1. CASE Read
  <2>1. Carries(Decomposed(bin)) /\ ProjectPath \in DOMAIN orig
    BY <1>1, ReadCarries DEF Read, CarryInv
  <2> QED
    BY <1>1, <2>1 DEF Read, CarryInv, Keeps, Carries
<1>2. CASE ReadFails
  BY <1>2 DEF ReadFails, CarryInv, Keeps, Carries
<1>3. CASE Edit
  BY <1>3, EditKeepsCarries
<1>4. CASE Write
  <2>1. Keeps(Assembled(proj))
    BY <1>4, AssembledKeeps DEF Write, CarryInv
  <2> QED
    BY <1>4, <2>1 DEF Write, CarryInv, Keeps, Carries
<1>5. CASE WriteFails
  BY <1>5 DEF WriteFails, CarryInv, Keeps, Carries
<1>6. CASE HostSave
  <2>1. Keeps(bin)'
    BY <1>6, HostKeeps DEF CarryInv
  <2> QED
    BY <1>6, <2>1 DEF HostSave, CarryInv, Carries
<1>7. CASE UNCHANGED vars
  BY <1>7 DEF vars, CarryInv, Keeps, Carries
<1> QED
  BY <1>1, <1>2, <1>3, <1>4, <1>5, <1>6, <1>7 DEF Next

\* Whatever the steps, the Project and the file carry what the first file had.
THEOREM CarryInvariant == Spec => []CarryInv
<1>1. Init => CarryInv
  BY DEF Init, CarryInv, Keeps
<1> QED
  BY <1>1, CarryStep, PTL DEF Spec

\* No behaviour, however long, loses or alters a stream that the writer does
\* not own, or the PROJECT text.
THEOREM PassThroughHolds == Spec => []PassThrough
<1>1. CarryInv => PassThrough
  BY DEF CarryInv, Keeps, PassThrough
<1> QED
  BY <1>1, CarryInvariant, PTL

\* A protected file is changed by the host only.
THEOREM ProtectedKeptHolds == Spec => ProtectedKept
<1> DEFINE A == (/\ ProjectPath \in DOMAIN bin
                 /\ PT!IsProtected(Lines(bin))
                 /\ bin' # bin) => last' = "host"
<1>1. CarryInv /\ [Next]_vars => [A]_vars
  <2> SUFFICES ASSUME CarryInv, Next, ProjectPath \in DOMAIN bin,
                      PT!IsProtected(Lines(bin)), bin' # bin
               PROVE  last' = "host"
    BY DEF vars
  <2>1. CASE Write
    <3>1. proj.IsProtected
      BY <2>1 DEF Write, CarryInv, Carries, Keeps
    <3> QED
      BY <2>1, <3>1 DEF Write, Writable
  <2>2. CASE HostSave
    BY <2>2 DEF HostSave
  <2>3. CASE Read \/ ReadFails \/ Edit \/ WriteFails
    BY <2>3 DEF Read, ReadFails, WriteFails, Edit, EditSource, EditStreamName, Rename,
                Retype, AddModule, RemoveModule, EditCodePage, Becomes
  <2> QED
    BY <2>1, <2>2, <2>3 DEF Next
<1> QED
  BY <1>1, CarryInvariant, PTL DEF Spec, ProtectedKept

-----------------------------------------------------------------------------
(***************************************************************************)
(* The type invariant.                                                     *)
(***************************************************************************)

ModuleType ==
  [Name : STRING, StreamName : STRING, Type : ModuleTypes, Source : Texts]

\* What TypeOK says of a Project.
IsProject(p) ==
  /\ p.Modules \in Seq(ModuleType)
  /\ IsFile(p.RawStreams)
  /\ IsDir(p.ProjectInfoRaw) /\ IsDir(p.ReferencesRaw)
  /\ p.IsProtected \in BOOLEAN
  /\ p.CodePage \in Nat

\* TypeOK needs to know of the Project that it carries the streams of a file,
\* lest one of them take the path of a stream that Write rebuilds.
TypeInv == TypeOK /\ CarryInv

\* TypeOK in these terms.
LEMMA TypeOKOf ==
  TypeOK <=> /\ IsFile(bin) /\ IsFile(orig) /\ last \in Outcomes
             /\ proj # NoProject => IsProject(proj)
PROOF BY DEF TypeOK, IsProject, ModuleType

\* Sequences of one and of two elements.
LEMMA ShortSequences ==
  ASSUME NEW S, NEW s \in S, NEW t \in S
  PROVE  << s >> \in Seq(S) \ {<< >>} /\ << s, t >> \in Seq(S) \ {<< >>}
<1>1. << s >> \in [1 .. 1 -> S] /\ << s, t >> \in [1 .. 2 -> S]
  OBVIOUS
<1>2. << s >> # << >> /\ << s, t >> # << >>
  OBVIOUS
<1> QED
  BY <1>1, <1>2, SeqDef

\* The paths of the streams that Write rebuilds and that the host adds.
LEMMA OwnPathsType ==
  /\ {ProjectPath, DirPath, StubPath, CachePath} \subseteq Seq(STRING) \ {<< >>}
  /\ \A s \in STRING : ModulePath(s) \in Seq(STRING) \ {<< >>}
<1>1. \A s \in STRING : << s >> \in Seq(STRING) \ {<< >>}
  BY ShortSequences
<1>2. \A s, t \in STRING : << s, t >> \in Seq(STRING) \ {<< >>}
  BY ShortSequences
<1>3. /\ "VBA" \in STRING /\ "PROJECT" \in STRING /\ "dir" \in STRING
      /\ "_VBA_PROJECT" \in STRING /\ "__SRP_0" \in STRING
  BY LiteralsAssumption DEF LiteralsAssumption
<1>4. ProjectPath \in Seq(STRING) \ {<< >>}
  BY <1>1, <1>3 DEF ProjectPath
<1>5. DirPath \in Seq(STRING) \ {<< >>}
  BY <1>2, <1>3 DEF DirPath
<1>6. StubPath \in Seq(STRING) \ {<< >>} /\ CachePath \in Seq(STRING) \ {<< >>}
  BY <1>2, <1>3 DEF StubPath, CachePath
<1>7. \A s \in STRING : ModulePath(s) \in Seq(STRING) \ {<< >>}
  BY <1>2, <1>3 DEF ModulePath
<1> QED
  BY <1>4, <1>5, <1>6, <1>7

\* The streams that the writer does not own are a file without a dir stream.
LEMMA OpaqueIsFile ==
  ASSUME NEW b, IsFile(b)
  PROVE  IsFile(Opaque(b)) /\ DirPath \notin DOMAIN Opaque(b)
PROOF BY PathsKnown DEF IsFile, Opaque

\* A module read from a typed dir entry has the type of a module.
LEMMA ReadModuleType ==
  ASSUME NEW b, NEW dm \in [Name : STRING, StreamName : STRING, Offset : Nat, TypeID : Nat],
         ModuleReadable(b, dm, CodePage(DirPlain(b)))
  PROVE  Module(b, dm) \in ModuleType /\ StreamOf(dm) \in STRING
<1>1. StreamOf(dm) \in STRING
  BY DEF StreamOf
<1>2. classify(b, dm.Name) \in ModuleTypes
  BY Zenon DEF classify, ModuleTypes
<1>3. Decoding[CodePage(DirPlain(b))][Source(b, dm)[1].of] \in Texts
  <2>1. /\ CodePage(DirPlain(b)) \in CodePages /\ Source(b, dm)[1].of \in Bytes
        /\ Decoding[CodePage(DirPlain(b))][Source(b, dm)[1].of] # NoText
    BY DEF ModuleReadable
  <2> QED
    BY <2>1, CodecAssumption DEF CodecAssumption
<1> QED
  BY <1>1, <1>2, <1>3 DEF Module, ModuleType

\* The Project that Read returns.
LEMMA ReadType ==
  ASSUME NEW b, IsFile(b), Readable(b)
  PROVE  IsProject(Decomposed(b)) /\ IsDir(DirPlain(b))
<1> DEFINE plain == DirPlain(b)
           mods  == DirModules(plain)
           D == [Name : STRING, StreamName : STRING, Offset : Nat, TypeID : Nat]
<1>1. IsDir(plain)
  BY DEF Readable, IsFile
<1>2. mods \in Seq(D)
  BY <1>1, StringsAssumption, DirModulesType DEF StringsAssumption
<1>3. /\ Len(mods) \in Nat /\ DOMAIN mods = 1 .. Len(mods)
      /\ \A k \in DOMAIN mods : mods[k] \in D
  BY <1>2, LenProperties, ElementOfSeq
<1>4. \A k \in DOMAIN mods : ModuleReadable(b, mods[k], CodePage(plain))
  BY DEF Readable
<1> HIDE DEF mods, D
<1>5. \A k \in DOMAIN mods : Module(b, mods[k]) \in ModuleType
  BY <1>3, <1>4, ReadModuleType DEF D
<1>6. [k \in DOMAIN mods |-> Module(b, mods[k])] \in Seq(ModuleType)
  BY <1>3, <1>5, SeqDef
<1>7. PT!IsProtected(Lines(b)) \in BOOLEAN
  BY Zenon DEF PT!IsProtected
<1>8. CodePage(plain) \in Nat /\ IsDir(ProjectInfoRaw(plain)) /\ IsDir(RefsRaw(plain))
  BY <1>1, CodePageType, SpansAreDir
<1>9. /\ Decomposed(b).Modules = [k \in DOMAIN mods |-> Module(b, mods[k])]
      /\ Decomposed(b).ProjectInfoRaw = ProjectInfoRaw(plain)
      /\ Decomposed(b).ReferencesRaw = RefsRaw(plain)
      /\ Decomposed(b).RawStreams = Opaque(b)
      /\ Decomposed(b).CodePage = CodePage(plain)
      /\ Decomposed(b).IsProtected = PT!IsProtected(Lines(b))
  BY DEF Decomposed, mods
<1> QED
  BY <1>1, <1>6, <1>7, <1>8, <1>9, OpaqueIsFile DEF IsProject

\* The file that Write returns.
LEMMA AssembledIsFile ==
  ASSUME NEW p, IsProject(p), DirPath \notin DOMAIN p.RawStreams
  PROVE  IsFile(Assembled(p))
<1> DEFINE a == Assembled(p)
           specs == [k \in DOMAIN p.Modules |-> ModuleSpec(p.Modules[k])]
<1>1. /\ DOMAIN a = DOMAIN p.RawStreams \cup OwnPaths(p)
      /\ \A path \in DOMAIN a : a[path] = Content(p, path)
      /\ a = [path \in DOMAIN a |-> a[path]]
  BY DEF Assembled
<1> HIDE DEF a
<1>2. /\ Len(p.Modules) \in Nat /\ DOMAIN p.Modules = 1 .. Len(p.Modules)
      /\ \A k \in DOMAIN p.Modules : p.Modules[k] \in ModuleType
  BY LenProperties, ElementOfSeq DEF IsProject
<1>3. \A path \in DOMAIN a : path \in Seq(STRING) /\ path # << >>
  <2>1. \A k \in DOMAIN p.Modules : p.Modules[k].StreamName \in STRING
    BY <1>2 DEF ModuleType
  <2>2. OwnPaths(p) \subseteq Seq(STRING) \ {<< >>}
    BY <2>1, OwnPathsType DEF OwnPaths
  <2> QED
    BY <1>1, <2>2 DEF IsProject, IsFile
<1>4. a[DirPath] = << Compressed(BuiltDir(p)) >>
  <2>1. DirPath \in DOMAIN a /\ DirPath # ProjectPath /\ DirPath # StubPath
    BY <1>1 DEF OwnPaths, DirPath, ProjectPath, StubPath
  <2> QED
    BY <1>1, <2>1 DEF Content
<1>5. IsDir(BuiltDir(p))
  <2>1. \A k \in DOMAIN p.Modules :
          ModuleSpec(p.Modules[k]) \in [Name : STRING, StreamName : STRING, TypeID : Nat]
    BY <1>2 DEF ModuleSpec, ModuleType, moduleTypeID
  <2>2. specs \in Seq([Name : STRING, StreamName : STRING, TypeID : Nat])
    BY <1>2, <2>1, SeqDef
  <2>3. IsDir(BuildProjectModules(specs))
    BY <2>2, StringsAssumption, BuiltIsDir DEF StringsAssumption
  <2>4. IsDir(p.ProjectInfoRaw \o p.ReferencesRaw)
    BY DirConcat DEF IsProject
  <2> QED
    BY <2>3, <2>4, DirConcat DEF BuiltDir
<1>6. DirPlain(a) = BuiltDir(p)
  BY <1>4 DEF DirPlain, Compressed
<1> QED
  BY <1>1, <1>3, <1>5, <1>6 DEF IsFile, a

\* The file that the host saves.
LEMMA HostIsFile ==
  ASSUME IsFile(bin), HostSave
  PROVE  IsFile(bin')
<1> DEFINE plain == DirPlain(bin)
           dm == DirModules(plain)
           sources == {ModulePath(StreamOf(dm[k])) : k \in DOMAIN dm}
           recached == [i \in DOMAIN plain |->
                          IF plain[i].id = "MODULEOFFSET"
                            THEN Rec("MODULEOFFSET", PCodeLen) ELSE plain[i]]
<1>1. bin' = [path \in DOMAIN bin \cup {CachePath} |->
                  IF path = DirPath THEN << Compressed(recached) >>
                  ELSE IF path \in sources THEN << PCode, PCode, Last(bin[path]) >>
                  ELSE IF path = CachePath THEN << PCode >>
                  ELSE bin[path]]
  BY DEF HostSave
<1> HIDE DEF sources, recached
<1>2. /\ DOMAIN bin' = DOMAIN bin \cup {CachePath}
      /\ bin' = [path \in DOMAIN bin' |-> bin'[path]]
      /\ DirPath \in DOMAIN bin => bin'[DirPath] = << Compressed(recached) >>
  BY <1>1
<1>3. \A path \in DOMAIN bin' : path \in Seq(STRING) /\ path # << >>
  BY <1>2, OwnPathsType DEF IsFile
<1>4. DirPath \in DOMAIN bin /\ DirPlain(bin') = recached
  <2>1. DirPath \in DOMAIN bin
    BY DEF HostSave, Readable
  <2> QED
    BY <1>2, <2>1 DEF DirPlain, Compressed
<1>5. IsDir(recached)
  <2>1. IsDir(plain)
    BY DEF HostSave, Readable, IsFile
  <2>2. /\ Len(plain) \in Nat /\ DOMAIN plain = 1 .. Len(plain)
        /\ \A i \in DOMAIN plain : plain[i] \in DirRecord
    BY <2>1, DirIsSeq, LenProperties, ElementOfSeq
  <2>3. Rec("MODULEOFFSET", PCodeLen) \in DirRecord
    BY DEF Rec, PCodeLen, DirRecord, ValueIds
  <2>4. recached \in [1 .. Len(plain) -> DirRecord]
    BY <2>2, <2>3 DEF recached
  <2> QED
    BY <2>2, <2>4, SeqDef, DirIsSeq
<1> QED
  BY <1>2, <1>3, <1>4, <1>5 DEF IsFile

\* An edit leaves a Project with modules of their type.
LEMMA EditType ==
  ASSUME NEW p, IsProject(p), p = [f \in Fields |-> p[f]],
         NEW ms \in Seq(ModuleType)
  PROVE  IsProject([p EXCEPT !.Modules = ms])
<1> DEFINE q == [p EXCEPT !.Modules = ms]
<1>1. /\ q.Modules = ms /\ q.RawStreams = p.RawStreams
      /\ q.ProjectInfoRaw = p.ProjectInfoRaw /\ q.ReferencesRaw = p.ReferencesRaw
      /\ q.IsProtected = p.IsProtected /\ q.CodePage = p.CodePage
  BY DEF Fields
<1> HIDE DEF q
<1>2. IsProject(q)
  BY <1>1 DEF IsProject
<1> QED
  BY <1>2 DEF q

\* Every edit is such a one, or sets the codepage.
LEMMA EditKeepsType ==
  ASSUME TypeInv, Edit
  PROVE  IsProject(proj')
<1>1. IsProject(proj) /\ proj = [f \in Fields |-> proj[f]]
  BY TypeOKOf DEF TypeInv, CarryInv, Carries, Edit
<1> DEFINE ms == proj.Modules
<1>2. /\ ms \in Seq(ModuleType) /\ Len(ms) \in Nat /\ DOMAIN ms = 1 .. Len(ms)
      /\ \A k \in DOMAIN ms : ms[k] \in ModuleType
  BY <1>1, LenProperties, ElementOfSeq DEF IsProject
<1>3. Names \subseteq STRING /\ CodePages \subseteq Nat
  BY NamesAssumption DEF NamesAssumption
<1>4. ASSUME NEW k \in DOMAIN ms, NEW m \in ModuleType
      PROVE  [ms EXCEPT ![k] = m] \in Seq(ModuleType)
  BY <1>2, ExceptSeq
<1>5. \A m \in ModuleType :
        /\ \A t \in Texts : [m EXCEPT !.Source = t] \in ModuleType
        /\ \A n \in Names : [m EXCEPT !.Name = n] \in ModuleType
        /\ \A n \in Names : [m EXCEPT !.StreamName = n] \in ModuleType
        /\ \A type \in ModuleTypes : [m EXCEPT !.Type = type] \in ModuleType
        /\ \A n, stream \in Names : [m EXCEPT !.Name = n, !.StreamName = stream] \in ModuleType
  BY <1>3 DEF ModuleType
<1>6. \A new \in Seq(ModuleType) : IsProject([proj EXCEPT !.Modules = new])
  BY <1>1, EditType
<1>7. ASSUME NEW k \in DOMAIN ms, NEW m \in ModuleType,
             proj' = [proj EXCEPT !.Modules = [ms EXCEPT ![k] = m]]
      PROVE  IsProject(proj')
  BY <1>4, <1>6, <1>7
<1>8. ASSUME NEW k \in DOMAIN ms, NEW t \in Texts, EditSource(k, t)
      PROVE  IsProject(proj')
  BY <1>2, <1>5, <1>7, <1>8 DEF EditSource, Becomes
<1>9. ASSUME NEW k \in DOMAIN ms, NEW n \in Names, EditStreamName(k, n) \/ Rename(k, n)
      PROVE  IsProject(proj')
  BY <1>2, <1>5, <1>7, <1>9 DEF EditStreamName, Rename, Becomes
<1>10. ASSUME NEW k \in DOMAIN ms, NEW type \in ModuleTypes, Retype(k, type)
       PROVE  IsProject(proj')
  BY <1>2, <1>5, <1>7, <1>10 DEF Retype, Becomes
<1>11. ASSUME NEW k \in DOMAIN ms, NEW n \in Names, NEW stream \in Names, AddModule(k, n, stream)
       PROVE  IsProject(proj')
  <2>1. Append(ms, [ms[k] EXCEPT !.Name = n, !.StreamName = stream]) \in Seq(ModuleType)
    BY <1>2, <1>5, AppendProperties
  <2> QED
    BY <1>6, <1>11, <2>1 DEF AddModule, Becomes
<1>12. ASSUME NEW k \in DOMAIN ms, RemoveModule(k)
       PROVE  IsProject(proj')
  <2>1. /\ k - 1 \in Int /\ k + 1 \in Int /\ Len(ms) \in Int
        /\ \A i \in 1 .. k - 1 : ms[i] \in ModuleType
        /\ \A i \in k + 1 .. Len(ms) : ms[i] \in ModuleType
    BY <1>2
  <2>2. SubSeq(ms, 1, k - 1) \in Seq(ModuleType) /\ SubSeq(ms, k + 1, Len(ms)) \in Seq(ModuleType)
    BY <2>1, SubSeqProperties
  <2>3. RemoveAt(ms, k) \in Seq(ModuleType)
    BY <2>2, ConcatProperties DEF RemoveAt
  <2> QED
    BY <1>6, <1>12, <2>3 DEF RemoveModule, Becomes
<1>13. ASSUME NEW c \in CodePages, EditCodePage(c)
       PROVE  IsProject(proj')
  <2>1. proj' = [proj EXCEPT !.CodePage = c]
    BY <1>13 DEF EditCodePage, Becomes
  <2>2. /\ proj'.CodePage = c /\ proj'.Modules = proj.Modules
        /\ proj'.RawStreams = proj.RawStreams /\ proj'.IsProtected = proj.IsProtected
        /\ proj'.ProjectInfoRaw = proj.ProjectInfoRaw /\ proj'.ReferencesRaw = proj.ReferencesRaw
    BY <1>1, <2>1 DEF Fields
  <2> QED
    BY <1>1, <1>3, <2>2 DEF IsProject
<1> QED
  BY <1>8, <1>9, <1>10, <1>11, <1>12, <1>13 DEF Edit

\* Every step keeps the types.
LEMMA TypeStep ==
  ASSUME TypeInv, [Next]_vars
  PROVE  TypeOK'
<1> SUFFICES /\ IsFile(bin') /\ IsFile(orig') /\ last' \in Outcomes
             /\ proj' # NoProject => IsProject(proj')
  BY DEF TypeOK, IsProject, ModuleType
<1>1. /\ IsFile(bin) /\ IsFile(orig) /\ last \in Outcomes
      /\ proj # NoProject => IsProject(proj)
  BY TypeOKOf DEF TypeInv
<1>2. CASE Read
  BY <1>1, <1>2, ReadType DEF Read, Outcomes
<1>3. CASE ReadFails \/ WriteFails
  BY <1>1, <1>3 DEF ReadFails, WriteFails, Outcomes
<1>4. CASE Edit
  <2>1. UNCHANGED << bin, orig >> /\ last' = "edit"
    BY <1>4 DEF Edit, EditSource, EditStreamName, Rename, Retype, AddModule, RemoveModule,
                EditCodePage, Becomes
  <2> QED
    BY <1>1, <1>4, <2>1, EditKeepsType DEF Outcomes
<1>5. CASE Write
  <2>1. DirPath \notin DOMAIN proj.RawStreams
    BY <1>1, <1>5, OpaqueIsFile DEF TypeInv, CarryInv, Carries, Write
  <2>2. IsFile(Assembled(proj))
    BY <1>1, <1>5, <2>1, AssembledIsFile DEF Write
  <2> QED
    BY <1>1, <1>5, <2>2 DEF Write, Outcomes
<1>6. CASE HostSave
  <2>1. IsFile(bin')
    BY <1>1, <1>6, HostIsFile
  <2> QED
    BY <1>1, <1>6, <2>1 DEF HostSave, Outcomes
<1>7. CASE UNCHANGED vars
  BY <1>1, <1>7 DEF vars
<1> QED
  BY <1>2, <1>3, <1>4, <1>5, <1>6, <1>7 DEF Next

\* The variables keep their types: whatever is edited, what Write returns is a
\* file whose dir stream is a sequence of records, and Read returns a Project.
THEOREM TypeCorrect == Spec => []TypeOK
<1>1. Init => TypeOK
  BY InputsAssumption DEF InputsAssumption, Init, TypeOK, Outcomes
<1> QED
  BY <1>1, TypeStep, CarryInvariant, PTL DEF Spec, TypeInv

-----------------------------------------------------------------------------
(***************************************************************************)
(* Read undoes Write: for every set of files whose dir records are in      *)
(* order, every codepage table and every sequence of edits.                *)
(***************************************************************************)

\* The spans of a Project hold what their names say, so that Read cuts a dir
\* stream built from them at the same places.
Spanned(p) ==
  LET a == p.ProjectInfoRaw
      b == p.ReferencesRaw
  IN  /\ IsDir(a) /\ IsDir(b)
      /\ At(a, {"REFERENCENAME"}) = {} /\ At(a, {"PROJECTMODULES"}) = {}
      /\ At(a, {"MODULENAME"}) = {}
      /\ At(b, {"PROJECTMODULES"}) = {} /\ At(b, {"MODULENAME"}) = {}
      /\ At(b, {"PROJECTCODEPAGE"}) = {}
      /\ b # << >> => b[1].id = "REFERENCENAME"
      /\ p.References = RefNames(b)

Ordered(b) == DirPath \in DOMAIN b /\ IsContainer(b[DirPath]) => IsOrdered(DirPlain(b))

\* RoundTrip needs to know where the spans of the Project came from, and that
\* the file after a Write is what the Project gives.
SpanInv ==
  /\ Ordered(bin)
  /\ IsFiniteSet(DOMAIN orig)
  /\ proj # NoProject => Spanned(proj) /\ PT!CmgReadable(Lines(orig))
  /\ last = "write" => proj # NoProject /\ Writable(proj) /\ bin = Assembled(proj)

-----------------------------------------------------------------------------
(***************************************************************************)
(* The dir stream that Write builds.                                       *)
(***************************************************************************)

Specs(p) == [k \in DOMAIN p.Modules |-> ModuleSpec(p.Modules[k])]

LEMMA SpecsType ==
  ASSUME NEW p, IsProject(p)
  PROVE  /\ Specs(p) \in Seq(ModuleSpecs) /\ Len(Specs(p)) = Len(p.Modules)
         /\ Len(p.Modules) \in Nat /\ DOMAIN p.Modules = 1 .. Len(p.Modules)
         /\ \A k \in DOMAIN p.Modules : /\ p.Modules[k] \in ModuleType
                                        /\ Specs(p)[k] = ModuleSpec(p.Modules[k])
<1>1. /\ Len(p.Modules) \in Nat /\ DOMAIN p.Modules = 1 .. Len(p.Modules)
      /\ \A k \in DOMAIN p.Modules : p.Modules[k] \in ModuleType
  BY LenProperties, ElementOfSeq DEF IsProject
<1>2. \A k \in DOMAIN p.Modules : ModuleSpec(p.Modules[k]) \in ModuleSpecs
  BY <1>1, StringsAssumption
    DEF ModuleSpec, ModuleType, moduleTypeID, ModuleSpecs, StringsAssumption
<1>3. Specs(p) \in [1 .. Len(p.Modules) -> ModuleSpecs]
  BY <1>1, <1>2 DEF Specs
<1>4. Specs(p) \in Seq(ModuleSpecs)
  BY <1>1, <1>3, SeqDef
<1>5. Len(Specs(p)) = Len(p.Modules)
  BY <1>1, <1>3, <1>4, LenProperties
<1> QED
  BY <1>1, <1>4, <1>5 DEF Specs

\* What Read finds in it.
LEMMA BuiltSpans ==
  ASSUME NEW p, IsProject(p), Spanned(p)
  PROVE  LET r == BuiltDir(p)
         IN  /\ IsDir(r) /\ IsOrdered(r)
             /\ ProjectInfoRaw(r) = p.ProjectInfoRaw /\ RefsRaw(r) = p.ReferencesRaw
             /\ RefNames(r) = p.References
             /\ CodePage(r) = CodePage(p.ProjectInfoRaw)
             /\ DirModules(r) = [k \in 1 .. Len(p.Modules) |->
                                   [Name |-> p.Modules[k].Name,
                                    StreamName |-> p.Modules[k].StreamName,
                                    Offset |-> 0, TypeID |-> moduleTypeID(p.Modules[k].Type)]]
             /\ (/\ At(p.ProjectInfoRaw, {"MODULEOFFSET"}) = {}
                 /\ At(p.ReferencesRaw, {"MODULEOFFSET"}) = {}) => HasOffsets(r)
<1> DEFINE a == p.ProjectInfoRaw
           b == p.ReferencesRaw
           c == BuildProjectModules(Specs(p))
           r == a \o b \o c
<1>1. BuiltDir(p) = r
  BY DEF BuiltDir, Specs
<1>2. /\ Specs(p) \in Seq(ModuleSpecs) /\ Len(Specs(p)) = Len(p.Modules)
      /\ Len(p.Modules) \in Nat /\ DOMAIN p.Modules = 1 .. Len(p.Modules)
      /\ \A k \in DOMAIN p.Modules : Specs(p)[k] = ModuleSpec(p.Modules[k])
  BY SpecsType
<1>3. /\ IsDir(a) /\ IsDir(b)
      /\ At(a, {"REFERENCENAME"}) = {} /\ At(a, {"PROJECTMODULES"}) = {}
      /\ At(a, {"MODULENAME"}) = {}
      /\ At(b, {"PROJECTMODULES"}) = {} /\ At(b, {"MODULENAME"}) = {}
      /\ At(b, {"PROJECTCODEPAGE"}) = {}
      /\ b # << >> => b[1].id = "REFERENCENAME"
      /\ p.References = RefNames(b)
  BY DEF Spanned
<1>4. IsDir(c)
  BY <1>2, BuiltRecords
<1>5. /\ At(c, {"MODULENAME"}) = {6 * k - 3 : k \in 1 .. Len(Specs(p))}
      /\ At(c, {"PROJECTMODULES"}) = {1}
      /\ At(c, {"REFERENCENAME"}) = {} /\ At(c, {"PROJECTCODEPAGE"}) = {}
      /\ At(c, {"MODULEOFFSET"}) = {6 * k - 1 : k \in 1 .. Len(Specs(p))}
  BY <1>2, BuiltAt
<1>6. /\ DirModules((a \o b) \o c) =
          [k \in 1 .. Len(Specs(p)) |->
             [Name |-> Specs(p)[k].Name, StreamName |-> Specs(p)[k].StreamName,
              Offset |-> 0, TypeID |-> Specs(p)[k].TypeID]]
      /\ \A i \in At((a \o b) \o c, {"MODULENAME"}) :
           At((a \o b) \o c, {"MODULEOFFSET"}) \cap (i .. RunEnd((a \o b) \o c, i)) # {}
  <2>1. IsDir(a \o b) /\ At(a \o b, {"MODULENAME"}) = {}
    <3> DEFINE ab == a \o b
    <3>1. Joined(ab, a, b)
      BY <1>3, ConcatAt
    <3>2. At(a, {"MODULENAME"}) = {} /\ At(b, {"MODULENAME"}) = {}
      BY <1>3
    <3> HIDE DEF ab, a, b
    <3>3. IsDir(ab) /\ At(ab, {"MODULENAME"}) = {}
      BY <3>1, <3>2 DEF Joined
    <3> QED
      BY <3>3 DEF ab
  <2> QED
    BY <1>2, <2>1, EntriesOf
<1> HIDE DEF a, b, c
<1>7. /\ ProjectInfoRaw(r) = a /\ RefsRaw(r) = b
      /\ InfoEnd(r) = Len(a) + 1 /\ RefEnd(r) = Len(a) + Len(b) + 1
  <2>1. 1 \in At(c, {"PROJECTMODULES"})
    BY <1>5
  <2> QED
    BY <1>3, <1>4, <1>5, <2>1, SpansOf
<1>8. RefNames(r) = RefNames(b)
  BY <1>3, <1>4, <1>5, RefNamesOf
<1>9. CodePage(r) = CodePage(a)
  BY <1>3, <1>4, <1>5, CodePageOf
<1>10. Parts(r, a, b, c)
  BY <1>3, <1>4, PartsAt
<1> HIDE DEF r
<1>11. /\ IsDir(r) /\ Len(a) \in Nat /\ Len(b) \in Nat
       /\ \A ids : At(r, ids) = At(a, ids) \cup {i + Len(a) : i \in At(b, ids)}
                                  \cup {i + (Len(a) + Len(b)) : i \in At(c, ids)}
  BY <1>10 DEF Parts
<1>12. \A ids : At(a, ids) \in SUBSET (1 .. Len(a)) /\ At(b, ids) \in SUBSET (1 .. Len(b))
  BY <1>3, AtIsPositions
<1>13. IsOrdered(r)
  <2>1. RefEnd(r) # 0
    BY <1>7, <1>11
  <2>2. ASSUME NEW i \in At(r, {"REFERENCENAME"}) PROVE i < RefEnd(r)
    <3>1. PICK j \in At(b, {"REFERENCENAME"}) : i = j + Len(a)
      BY <1>3, <1>5, <1>11
    <3>2. j \in 1 .. Len(b)
      BY <1>12
    <3> QED
      BY <1>7, <1>11, <3>1, <3>2
  <2>3. ASSUME NEW i \in At(r, {"MODULENAME"}) PROVE i > RefEnd(r)
    <3>1. PICK j \in At(c, {"MODULENAME"}) : i = j + (Len(a) + Len(b))
      BY <1>3, <1>11
    <3>2. PICK k \in 1 .. Len(Specs(p)) : j = 6 * k - 3
      BY <1>5
    <3>3. k \in Nat /\ k >= 1
      BY <1>2
    <3> QED
      BY <1>7, <1>11, <3>1, <3>2, <3>3
  <2>4. ASSUME NEW i \in At(r, {"PROJECTCODEPAGE"}) PROVE i < InfoEnd(r)
    <3>1. i \in At(a, {"PROJECTCODEPAGE"})
      BY <1>3, <1>5, <1>11
    <3>2. i \in 1 .. Len(a)
      BY <1>12, <3>1
    <3> QED
      BY <1>7, <1>11, <3>2
  <2> QED
    BY <2>1, <2>2, <2>3, <2>4 DEF IsOrdered
<1>14. DirModules(r) = [k \in 1 .. Len(p.Modules) |->
                          [Name |-> p.Modules[k].Name,
                           StreamName |-> p.Modules[k].StreamName,
                           Offset |-> 0, TypeID |-> moduleTypeID(p.Modules[k].Type)]]
  <2>1. \A k \in 1 .. Len(p.Modules) :
          /\ Specs(p)[k].Name = p.Modules[k].Name
          /\ Specs(p)[k].StreamName = p.Modules[k].StreamName
          /\ Specs(p)[k].TypeID = moduleTypeID(p.Modules[k].Type)
    <3>1. \A m : /\ ModuleSpec(m).Name = m.Name /\ ModuleSpec(m).StreamName = m.StreamName
                 /\ ModuleSpec(m).TypeID = moduleTypeID(m.Type)
      BY DEF ModuleSpec
    <3>2. \A k \in 1 .. Len(p.Modules) : Specs(p)[k] = ModuleSpec(p.Modules[k])
      BY <1>2
    <3> QED
      BY <3>1, <3>2
  <2> QED
    BY <1>2, <1>6, <2>1 DEF r
<1>15. ASSUME At(a, {"MODULEOFFSET"}) = {}, At(b, {"MODULEOFFSET"}) = {}
       PROVE  HasOffsets(r)
  <2>1. ASSUME NEW i \in At(r, {"MODULEOFFSET"}) PROVE i > RefEnd(r)
    <3>1. PICK j \in At(c, {"MODULEOFFSET"}) : i = j + (Len(a) + Len(b))
      BY <1>11, <1>15
    <3>2. PICK k \in 1 .. Len(Specs(p)) : j = 6 * k - 1
      BY <1>5
    <3>3. k \in Nat /\ k >= 1
      BY <1>2
    <3> QED
      BY <1>7, <1>11, <3>1, <3>2, <3>3
  <2>2. \A i \in At(r, {"MODULENAME"}) : At(r, {"MODULEOFFSET"}) \cap (i .. RunEnd(r, i)) # {}
    BY <1>6 DEF r
  <2> QED
    BY <2>1, <2>2 DEF HasOffsets
<1> QED
  BY <1>1, <1>3, <1>7, <1>8, <1>9, <1>11, <1>13, <1>14, <1>15 DEF a, b

-----------------------------------------------------------------------------
(***************************************************************************)
(* The streams that Write adds.                                            *)
(***************************************************************************)

LEMMA SetToSeqIs ==
  ASSUME NEW S, NEW T, S \subseteq T, IsFiniteSet(S)
  PROVE  SetToSeq(S) \in Seq(T)
<1> DEFINE n == Cardinality(S)
<1>1. n \in Nat /\ ExistsBijection(1 .. n, S)
  BY FS_CardinalityType
<1>2. \E f \in [1 .. n -> S] : IsInjective(f)
  BY <1>1 DEF ExistsBijection, Bijection, Injection
<1>3. SetToSeq(S) \in [1 .. n -> S]
  BY <1>2 DEF SetToSeq
<1>4. SetToSeq(S) \in [1 .. n -> T]
  BY <1>3
<1> QED
  BY <1>1, <1>4, SeqDef

\* ... of every element once.
LEMMA SetToSeqOnce ==
  ASSUME NEW S, IsFiniteSet(S)
  PROVE  /\ Len(SetToSeq(S)) \in Nat
         /\ \A i \in 1 .. Len(SetToSeq(S)) : SetToSeq(S)[i] \in S
         /\ \A i, j \in 1 .. Len(SetToSeq(S)) : SetToSeq(S)[i] = SetToSeq(S)[j] => i = j
<1> DEFINE n == Cardinality(S)
           s == SetToSeq(S)
<1>1. n \in Nat /\ ExistsBijection(1 .. n, S)
  BY FS_CardinalityType
<1>2. \E f \in [1 .. n -> S] : IsInjective(f)
  BY <1>1 DEF ExistsBijection, Bijection, Injection
<1>3. s \in [1 .. n -> S] /\ IsInjective(s)
  BY <1>2 DEF SetToSeq
<1> HIDE DEF s, n
<1>4. Len(s) = n
  BY <1>1, <1>3, SeqDef, LenProperties
<1>5. \A i, j \in 1 .. n : s[i] = s[j] => i = j
  BY <1>3 DEF IsInjective
<1> QED
  BY <1>1, <1>3, <1>4, <1>5 DEF s

\* Where the elements of a concatenation stand.
LEMMA ConcatIndex ==
  ASSUME NEW S, NEW s \in Seq(S), NEW t \in Seq(S)
  PROVE  /\ s \o t \in Seq(S) /\ Len(s \o t) = Len(s) + Len(t)
         /\ \A i \in 1 .. Len(s) : (s \o t)[i] = s[i]
         /\ \A i \in 1 .. Len(t) : (s \o t)[Len(s) + i] = t[i]
<1> DEFINE c == s \o t
<1>1. Len(s) \in Nat /\ Len(t) \in Nat
  BY LenProperties
<1>2. /\ c \in Seq(S) /\ Len(c) = Len(s) + Len(t)
      /\ \A i \in 1 .. Len(s) + Len(t) : c[i] = IF i <= Len(s) THEN s[i] ELSE t[i - Len(s)]
  BY ConcatProperties
<1> HIDE DEF c
<1>3. \A i \in 1 .. Len(s) : c[i] = s[i]
  BY <1>1, <1>2
<1>4. ASSUME NEW i \in 1 .. Len(t)
      PROVE  c[Len(s) + i] = t[i]
  <2>1. Len(s) + i \in 1 .. Len(s) + Len(t) /\ ~(Len(s) + i <= Len(s)) /\ Len(s) + i - Len(s) = i
    BY <1>1
  <2> QED
    BY <1>2, <2>1
<1> QED
  BY <1>2, <1>3, <1>4 DEF c

\* Where the paths of the AddStream calls stand.
LEMMA AddedAt ==
  ASSUME NEW p, IsProject(p), IsFiniteSet(DOMAIN p.RawStreams)
  PROVE  LET t == AddedPaths(p)
             u == SetToSeq(DOMAIN p.RawStreams)
             l == Len(u)
             n == Len(p.Modules)
         IN  /\ l \in Nat /\ n \in Nat /\ DOMAIN p.Modules = 1 .. n
             /\ DOMAIN t = 1 .. l + 3 + n
             /\ \A i \in DOMAIN t : t[i] \in Seq(STRING)
             /\ \A i \in 1 .. l : t[i] = u[i]
             /\ t[l + 1] = ProjectPath /\ t[l + 2] = StubPath /\ t[l + 3] = DirPath
             /\ \A k \in 1 .. n : t[l + 3 + k] = ModulePath(p.Modules[k].StreamName)
<1> DEFINE P == Seq(STRING)
           u == SetToSeq(DOMAIN p.RawStreams)
           v == << ProjectPath, StubPath, DirPath >>
           w == [k \in DOMAIN p.Modules |-> ModulePath(p.Modules[k].StreamName)]
           t == (u \o v) \o w
           n == Len(p.Modules)
           l == Len(u)
<1>1. n \in Nat /\ DOMAIN p.Modules = 1 .. n /\ \A k \in 1 .. n : p.Modules[k] \in ModuleType
  BY SpecsType
<1>2. u \in Seq(P)
  <2>1. DOMAIN p.RawStreams \subseteq P
    BY DEF IsProject, IsFile
  <2> QED
    BY <2>1, SetToSeqIs
<1>3. v \in Seq(P) /\ Len(v) = 3 /\ v[1] = ProjectPath /\ v[2] = StubPath /\ v[3] = DirPath
  <2>1. ProjectPath \in P /\ StubPath \in P /\ DirPath \in P
    BY OwnPathsType
  <2>2. v \in [1 .. 3 -> P]
    BY <2>1
  <2>3. v \in Seq(P)
    BY <2>2, SeqDef
  <2> QED
    BY <2>3
<1>4. w \in Seq(P) /\ Len(w) = n /\ \A k \in 1 .. n : w[k] = ModulePath(p.Modules[k].StreamName)
  <2>1. w \in [1 .. n -> P]
    BY <1>1, OwnPathsType DEF ModuleType
  <2>2. w \in Seq(P)
    BY <1>1, <2>1, SeqDef
  <2> QED
    BY <1>1, <2>1, <2>2, LenProperties
<1>5. AddedPaths(p) = t
  BY DEF AddedPaths
<1> HIDE DEF u, v, w, P, n
<1>6. l \in Nat
  BY <1>2, LenProperties
<1>7. /\ u \o v \in Seq(P) /\ Len(u \o v) = l + 3
      /\ \A i \in 1 .. l : (u \o v)[i] = u[i]
      /\ \A i \in 1 .. 3 : (u \o v)[l + i] = v[i]
  <2>1. /\ u \o v \in Seq(P) /\ Len(u \o v) = Len(u) + Len(v)
        /\ \A i \in 1 .. Len(u) : (u \o v)[i] = u[i]
        /\ \A i \in 1 .. Len(v) : (u \o v)[Len(u) + i] = v[i]
    <3>1. u \in Seq(P) /\ v \in Seq(P)
      BY <1>2, <1>3
    <3> QED
      BY <3>1, ConcatIndex
  <2>2. Len(v) = 3
    BY <1>3
  <2> QED
    BY <2>1, <2>2
<1>8. /\ t \in Seq(P) /\ Len(t) = l + 3 + n
      /\ \A i \in 1 .. l + 3 : t[i] = (u \o v)[i]
      /\ \A k \in 1 .. n : t[l + 3 + k] = w[k]
  <2> DEFINE c == u \o v
  <2>1. c \in Seq(P) /\ Len(c) = l + 3
    BY <1>7
  <2> HIDE DEF c
  <2>2. /\ c \o w \in Seq(P) /\ Len(c \o w) = Len(c) + Len(w)
        /\ \A i \in 1 .. Len(c) : (c \o w)[i] = c[i]
        /\ \A k \in 1 .. Len(w) : (c \o w)[Len(c) + k] = w[k]
    <3>1. c \in Seq(P) /\ w \in Seq(P)
      BY <1>4, <2>1
    <3> QED
      BY <3>1, ConcatIndex
  <2>3. Len(w) = n
    BY <1>4
  <2> QED
    BY <2>1, <2>2, <2>3 DEF c
<1> HIDE DEF t, l
<1>9. DOMAIN t = 1 .. l + 3 + n
  BY <1>8, LenProperties
<1>10. /\ l + 1 \in DOMAIN t /\ l + 2 \in DOMAIN t /\ l + 3 \in DOMAIN t
       /\ \A k \in 1 .. n : l + 3 + k \in DOMAIN t
       /\ l + 1 \in 1 .. l + 3 /\ l + 2 \in 1 .. l + 3 /\ l + 3 \in 1 .. l + 3
  BY <1>1, <1>6, <1>9
<1>11. t[l + 1] = ProjectPath /\ t[l + 2] = StubPath /\ t[l + 3] = DirPath
  <2>1. t[l + 1] = (u \o v)[l + 1] /\ t[l + 2] = (u \o v)[l + 2] /\ t[l + 3] = (u \o v)[l + 3]
    BY <1>8, <1>10
  <2>2. 1 \in 1 .. 3 /\ 2 \in 1 .. 3 /\ 3 \in 1 .. 3
    OBVIOUS
  <2>3. (u \o v)[l + 1] = v[1] /\ (u \o v)[l + 2] = v[2] /\ (u \o v)[l + 3] = v[3]
    BY <1>7, <2>2
  <2> QED
    BY <1>3, <2>1, <2>3
<1>12. \A k \in 1 .. n : t[l + 3 + k] = ModulePath(p.Modules[k].StreamName)
  BY <1>4, <1>8
<1>13. ASSUME NEW i \in 1 .. l
       PROVE  t[i] = u[i]
  <2>1. i \in 1 .. l + 3
    BY <1>6
  <2> QED
    BY <1>7, <1>8, <2>1
<1>14. \A i \in DOMAIN t : t[i] \in Seq(STRING)
  BY <1>8, <1>9, ElementOfSeq DEF P
<1> QED
  BY <1>1, <1>5, <1>6, <1>9, <1>11, <1>12, <1>13, <1>14 DEF n, l, u

\* The tree that cfb.Bytes builds tells the streams apart, so each module has
\* a stream to itself, and none has that of the writer.
LEMMA PathsApart ==
  ASSUME NEW p, IsProject(p), IsFiniteSet(DOMAIN p.RawStreams),
         ~TreeRejects(AddedPaths(p), TooLong)
  PROVE  /\ \A k \in DOMAIN p.Modules :
              ModulePath(p.Modules[k].StreamName) \notin {ProjectPath, StubPath, DirPath}
         /\ \A k, j \in DOMAIN p.Modules :
              ModulePath(p.Modules[k].StreamName) = ModulePath(p.Modules[j].StreamName) => k = j
<1> DEFINE t == AddedPaths(p)
           l == Len(SetToSeq(DOMAIN p.RawStreams))
           n == Len(p.Modules)
<1>1. /\ l \in Nat /\ n \in Nat /\ DOMAIN p.Modules = 1 .. n
      /\ DOMAIN t = 1 .. l + 3 + n
      /\ \A i \in DOMAIN t : t[i] \in Seq(STRING)
      /\ t[l + 1] = ProjectPath /\ t[l + 2] = StubPath /\ t[l + 3] = DirPath
      /\ \A k \in 1 .. n : t[l + 3 + k] = ModulePath(p.Modules[k].StreamName)
  BY AddedAt
<1>2. ~TreeRejects(t, TooLong)
  OBVIOUS
<1> HIDE DEF t, l, n
<1>3. ASSUME NEW i \in DOMAIN t, NEW j \in DOMAIN t, t[i] = t[j]
      PROVE  i = j
  <2>1. Len(t[i]) \in Nat
    BY <1>1, LenProperties
  <2>2. Clash(t[i], t[j])
    BY <1>3, <2>1 DEF Clash, IsPrefix
  <2> QED
    BY <1>2, <2>2 DEF TreeRejects
<1>4. /\ l + 1 \in DOMAIN t /\ l + 2 \in DOMAIN t /\ l + 3 \in DOMAIN t
      /\ \A k \in 1 .. n : l + 3 + k \in DOMAIN t
  <2>1. l \in Nat /\ n \in Nat
    BY <1>1
  <2>2. /\ l + 1 \in 1 .. l + 3 + n /\ l + 2 \in 1 .. l + 3 + n /\ l + 3 \in 1 .. l + 3 + n
        /\ \A k \in 1 .. n : l + 3 + k \in 1 .. l + 3 + n
    BY <2>1
  <2> QED
    BY <1>1, <2>2
<1>5. ASSUME NEW k \in 1 .. n
      PROVE  ModulePath(p.Modules[k].StreamName) \notin {ProjectPath, StubPath, DirPath}
  <2>1. l + 3 + k # l + 1 /\ l + 3 + k # l + 2 /\ l + 3 + k # l + 3
    BY <1>1
  <2> QED
    BY <1>1, <1>3, <1>4, <2>1
<1>6. ASSUME NEW k \in 1 .. n, NEW j \in 1 .. n,
             ModulePath(p.Modules[k].StreamName) = ModulePath(p.Modules[j].StreamName)
      PROVE  k = j
  <2>1. t[l + 3 + k] = t[l + 3 + j] /\ l + 3 + k \in DOMAIN t /\ l + 3 + j \in DOMAIN t
    BY <1>1, <1>4, <1>6
  <2>2. l + 3 + k = l + 3 + j /\ l \in Nat
    BY <1>1, <1>3, <2>1
  <2> QED
    BY <2>2
<1> QED
  BY <1>1, <1>5, <1>6

-----------------------------------------------------------------------------
(***************************************************************************)
(* What Read makes of the file that Write returns.                         *)
(***************************************************************************)

\* The content of each stream.
LEMMA AssembledAt ==
  ASSUME NEW p, IsProject(p), IsFiniteSet(DOMAIN p.RawStreams), Writable(p),
         \A path \in DOMAIN p.RawStreams : firstSegment(path) \notin {"VBA", "PROJECT"}
  PROVE  LET b == Assembled(p)
         IN  /\ {ProjectPath, DirPath} \subseteq DOMAIN b
             /\ b[ProjectPath] = p.ProjectStreamRaw
             /\ b[DirPath] = << Compressed(BuiltDir(p)) >>
             /\ \A k \in DOMAIN p.Modules :
                  /\ ModulePath(p.Modules[k].StreamName) \in DOMAIN b
                  /\ b[ModulePath(p.Modules[k].StreamName)] = << Compressed(Encoded(p, k)) >>
<1> DEFINE b == Assembled(p)
<1>1. /\ DOMAIN b = DOMAIN p.RawStreams \cup OwnPaths(p)
      /\ \A path \in DOMAIN b : b[path] = Content(p, path)
  BY DEF Assembled
<1> HIDE DEF b
<1>2. \A path \in OwnPaths(p) : path \in DOMAIN b /\ path \notin DOMAIN p.RawStreams
  BY <1>1, PathsKnown DEF OwnPaths
<1>3. DirPath # ProjectPath /\ DirPath # StubPath /\ StubPath # ProjectPath
  BY DEF DirPath, ProjectPath, StubPath
<1>4. {ProjectPath, StubPath, DirPath} \subseteq OwnPaths(p)
  BY DEF OwnPaths
<1>5. b[ProjectPath] = p.ProjectStreamRaw
  BY <1>1, <1>2, <1>3, <1>4 DEF Content
<1>6. b[DirPath] = << Compressed(BuiltDir(p)) >>
  BY <1>1, <1>2, <1>3, <1>4 DEF Content
<1>7. /\ \A k \in DOMAIN p.Modules :
           ModulePath(p.Modules[k].StreamName) \notin {ProjectPath, StubPath, DirPath}
      /\ \A k, j \in DOMAIN p.Modules :
           ModulePath(p.Modules[k].StreamName) = ModulePath(p.Modules[j].StreamName) => k = j
  BY PathsApart DEF Writable
<1>8. ASSUME NEW k \in DOMAIN p.Modules
      PROVE  /\ ModulePath(p.Modules[k].StreamName) \in DOMAIN b
             /\ b[ModulePath(p.Modules[k].StreamName)] = << Compressed(Encoded(p, k)) >>
  <2> DEFINE path == ModulePath(p.Modules[k].StreamName)
  <2>1. path \in OwnPaths(p)
    BY DEF OwnPaths
  <2>2. ModuleAt(p, path) = k
    BY <1>7 DEF ModuleAt
  <2>3. path \notin {ProjectPath, StubPath, DirPath}
    BY <1>7
  <2> HIDE DEF path
  <2>4. path \in DOMAIN b /\ path \notin DOMAIN p.RawStreams
    BY <1>2, <2>1
  <2>5. Content(p, path) = << Compressed(Encoded(p, ModuleAt(p, path))) >>
    BY <2>3, <2>4 DEF Content
  <2> QED
    BY <1>1, <2>2, <2>4, <2>5 DEF path
<1> QED
  BY <1>2, <1>4, <1>5, <1>6, <1>8 DEF b

\* A stream that is one compressed container, read from its start.
LEMMA OneContainer ==
  ASSUME NEW x
  PROVE  LET cells == << Compressed(x) >>
         IN  /\ Len(cells) = 1 /\ SubSeq(cells, 0 + 1, 1) = cells
             /\ IsContainer(cells) /\ cells[1].of = x
<1> DEFINE y == Compressed(x)
           cells == << y >>
<1>1. y.cell = "compressed" /\ y.of = x
  BY DEF Compressed
<1> HIDE DEF y
<1>2. cells \in Seq({y}) /\ Len(cells) = 1 /\ cells[1] = y
  <2>1. cells \in [1 .. 1 -> {y}]
    OBVIOUS
  <2> QED
    BY <2>1, SeqDef
<1> HIDE DEF cells
<1>3. SubSeq(cells, 1, 1) = cells
  <2>1. \A i \in 1 .. 1 : cells[i] \in {y}
    BY <1>2
  <2>2. /\ SubSeq(cells, 1, 1) \in Seq({y}) /\ Len(SubSeq(cells, 1, 1)) = 1
        /\ SubSeq(cells, 1, 1)[1] = cells[1]
    <3>1. /\ SubSeq(cells, 1, 1) \in Seq({y})
          /\ Len(SubSeq(cells, 1, 1)) = IF 1 <= 1 THEN 1 - 1 + 1 ELSE 0
          /\ \A i \in 1 .. 1 - 1 + 1 : SubSeq(cells, 1, 1)[i] = cells[1 + i - 1]
      BY <2>1, SubSeqProperties
    <3>2. 1 \in 1 .. 1 - 1 + 1 /\ 1 + 1 - 1 = 1 /\ (IF 1 <= 1 THEN 1 - 1 + 1 ELSE 0) = 1
      OBVIOUS
    <3> QED
      BY <3>1, <3>2
  <2>3. \A i \in 1 .. 1 : SubSeq(cells, 1, 1)[i] = cells[i]
    BY <2>2
  <2> QED
    BY <1>2, <2>2, <2>3, SeqEqual
<1>4. 0 + 1 = 1
  OBVIOUS
<1> QED
  BY <1>1, <1>2, <1>3, <1>4 DEF IsContainer, cells, y

\* Offset 0 stands inside a stream of one cell.
LEMMA StartInside ==
  ASSUME NEW i, NEW n, i = 0, n = 1
  PROVE  i <= n
PROOF OBVIOUS

\* A source that Write could encode is decoded to the same text.
LEMMA EncodedDecodes ==
  ASSUME NEW p, IsProject(p), NEW k \in DOMAIN p.Modules, ModuleWritable(p, k)
  PROVE  /\ p.CodePage \in CodePages /\ Encoded(p, k) \in Bytes
         /\ Decoding[p.CodePage][Encoded(p, k)] = p.Modules[k].Source
         /\ p.Modules[k].Source # NoText
<1>1. p.CodePage \in CodePages /\ Encoded(p, k) # NoBytes
  BY DEF ModuleWritable
<1>2. p.Modules[k].Source \in Texts
  <2>1. p.Modules[k] \in ModuleType
    BY SpecsType
  <2> QED
    BY <2>1 DEF ModuleType
<1>3. Encoding[p.CodePage] \in [Texts -> Bytes \cup {NoBytes}]
  BY <1>1, CodecAssumption DEF CodecAssumption
<1>4. Encoded(p, k) \in Bytes
  BY <1>1, <1>2, <1>3 DEF Encoded
<1>5. Decoding[p.CodePage][Encoded(p, k)] = p.Modules[k].Source
  BY <1>1, <1>2, CodecAssumption DEF CodecAssumption, Encoded
<1> QED
  BY <1>1, <1>2, <1>4, <1>5, CodecAssumption DEF CodecAssumption

\* The kind that PROJECT states is the kind of the Project.
LEMMA ClassifyKeeps ==
  ASSUME NEW p, IsProject(p), checkModuleSet(p), NEW k \in DOMAIN p.Modules,
         NEW b, Lines(b) = p.ProjectStreamRaw
  PROVE  classify(b, p.Modules[k].Name) = p.Modules[k].Type
<1> DEFINE kinds == PT!Kinds(Lines(b))
           name == p.Modules[k].Name
           type == p.Modules[k].Type
<1>1. name \in DOMAIN kinds /\ kinds[name] = projectKind[type]
  BY DEF checkModuleSet
<1>2. type \in ModuleTypes
  <2>1. p.Modules[k] \in ModuleType
    BY SpecsType
  <2> QED
    BY <2>1 DEF ModuleType
<1> HIDE DEF kinds, name, type
<1>3. classify(b, name) =
        CASE kinds[name] = "Module"    -> "ModuleStd"
          [] kinds[name] = "Class"     -> "ModuleClass"
          [] kinds[name] = "Document"  -> "ModuleDocument"
          [] kinds[name] = "BaseClass" -> "ModuleForm"
          [] OTHER -> IF FramePath(name) \in DOMAIN b THEN "ModuleForm" ELSE "ModuleClass"
  BY <1>1, Zenon DEF classify, kinds
<1>4. projectKind["ModuleStd"] = "Module" /\ projectKind["ModuleClass"] = "Class"
      /\ projectKind["ModuleDocument"] = "Document" /\ projectKind["ModuleForm"] = "BaseClass"
  BY DEF projectKind
<1>5. type \in {"ModuleStd", "ModuleClass", "ModuleDocument", "ModuleForm"}
  BY <1>2 DEF ModuleTypes
<1>6. classify(b, name) = type
  BY <1>1, <1>3, <1>4, <1>5
<1> QED
  BY <1>6 DEF name, type

\* Read takes a written file apart into the Project that was written.
LEMMA WrittenReadsBack ==
  ASSUME NEW p, IsProject(p), Carries(p), Spanned(p), Writable(p),
         ProjectPath \in DOMAIN orig, IsFiniteSet(DOMAIN orig), PT!CmgReadable(Lines(orig)),
         p.CodePage = CodePage(p.ProjectInfoRaw),
         \A k \in DOMAIN p.Modules : p.Modules[k].StreamName # ""
  PROVE  Readable(Assembled(p)) /\ Decomposed(Assembled(p)) = p
<1> DEFINE b == Assembled(p)
           plain == DirPlain(b)
           mods == DirModules(plain)
           n == Len(p.Modules)
<1>1. /\ DOMAIN p.RawStreams = {q \in DOMAIN orig : firstSegment(q) \notin {"VBA", "PROJECT"}}
      /\ p.ProjectStreamRaw = Lines(orig)
      /\ p.IsProtected = PT!IsProtected(Lines(orig))
      /\ p.RawStreams = Opaque(orig)
      /\ p = [f \in Fields |-> p[f]]
  BY DEF Carries, Opaque
<1>2. IsFiniteSet(DOMAIN p.RawStreams)
  <2>1. DOMAIN p.RawStreams \subseteq DOMAIN orig
    BY <1>1
  <2> QED
    BY <2>1, FS_Subset
<1>3. /\ {ProjectPath, DirPath} \subseteq DOMAIN b
      /\ b[ProjectPath] = p.ProjectStreamRaw
      /\ b[DirPath] = << Compressed(BuiltDir(p)) >>
      /\ \A k \in DOMAIN p.Modules :
           /\ ModulePath(p.Modules[k].StreamName) \in DOMAIN b
           /\ b[ModulePath(p.Modules[k].StreamName)] = << Compressed(Encoded(p, k)) >>
  BY <1>1, <1>2, AssembledAt
<1>4. Opaque(b) = p.RawStreams
  BY <1>1, AssembledKeeps DEF Keeps
<1> HIDE DEF b
<1>5. plain = BuiltDir(p) /\ IsContainer(b[DirPath])
  BY <1>3, OneContainer DEF DirPlain
<1>6. Lines(b) = p.ProjectStreamRaw
  BY <1>3 DEF Lines
<1> HIDE DEF plain
<1>7. /\ ProjectInfoRaw(plain) = p.ProjectInfoRaw /\ RefsRaw(plain) = p.ReferencesRaw
      /\ RefNames(plain) = p.References
      /\ CodePage(plain) = p.CodePage
      /\ mods = [k \in 1 .. n |->
                   [Name |-> p.Modules[k].Name, StreamName |-> p.Modules[k].StreamName,
                    Offset |-> 0, TypeID |-> moduleTypeID(p.Modules[k].Type)]]
  BY <1>5, BuiltSpans
<1>8. n \in Nat /\ DOMAIN p.Modules = 1 .. n /\ \A k \in 1 .. n : p.Modules[k] \in ModuleType
  BY SpecsType
<1> HIDE DEF mods, n
<1>9. /\ DOMAIN mods = 1 .. n
      /\ \A k \in 1 .. n : /\ mods[k].Name = p.Modules[k].Name
                           /\ mods[k].StreamName = p.Modules[k].StreamName
                           /\ mods[k].Offset = 0
  BY <1>7
<1>10. ASSUME NEW k \in 1 .. n
       PROVE  /\ StreamOf(mods[k]) = p.Modules[k].StreamName
              /\ Source(b, mods[k]) = << Compressed(Encoded(p, k)) >>
              /\ ModuleReadable(b, mods[k], p.CodePage)
              /\ Decoding[p.CodePage][Source(b, mods[k])[1].of] = p.Modules[k].Source
  <2>1. StreamOf(mods[k]) = p.Modules[k].StreamName
    BY <1>8, <1>9 DEF StreamOf
  <2> DEFINE raw == b[ModulePath(StreamOf(mods[k]))]
             cells == << Compressed(Encoded(p, k)) >>
  <2>2. raw = cells /\ ModulePath(StreamOf(mods[k])) \in DOMAIN b
    BY <1>3, <1>8, <2>1
  <2>3. /\ Len(cells) = 1 /\ SubSeq(cells, 0 + 1, 1) = cells
        /\ IsContainer(cells) /\ cells[1].of = Encoded(p, k)
    BY OneContainer
  <2> HIDE DEF raw, cells
  <2>4. Source(b, mods[k]) = cells
    <3>1. Source(b, mods[k]) = SubSeq(raw, 0 + 1, Len(raw))
      BY <1>9 DEF Source, raw
    <3> QED
      BY <2>2, <2>3, <3>1
  <2>5. /\ p.CodePage \in CodePages /\ Encoded(p, k) \in Bytes
        /\ Decoding[p.CodePage][Encoded(p, k)] = p.Modules[k].Source
        /\ p.Modules[k].Source # NoText
    BY <1>8, EncodedDecodes DEF Writable
  <2>6. mods[k].Offset <= Len(raw)
    <3>1. mods[k].Offset = 0 /\ Len(raw) = 1
      BY <1>9, <2>2, <2>3
    <3> QED
      BY <3>1, StartInside
  <2>7. ModuleReadable(b, mods[k], p.CodePage)
    BY <2>2, <2>3, <2>4, <2>5, <2>6 DEF ModuleReadable, raw
  <2> QED
    BY <2>1, <2>3, <2>4, <2>5, <2>7 DEF cells
<1>11. Readable(b)
  <2>1. PT!CmgReadable(Lines(b))
    BY <1>1, <1>6
  <2>2. \A k \in DOMAIN DirModules(DirPlain(b)) :
          ModuleReadable(b, DirModules(DirPlain(b))[k], CodePage(DirPlain(b)))
    BY <1>7, <1>9, <1>10 DEF mods, plain
  <2> QED
    BY <1>3, <1>5, <2>1, <2>2 DEF Readable
<1>12. ASSUME NEW k \in 1 .. n
       PROVE  Module(b, mods[k]) = p.Modules[k]
  <2>1. classify(b, mods[k].Name) = p.Modules[k].Type
    <3>1. checkModuleSet(p)
      BY Zenon DEF Writable
    <3>2. k \in DOMAIN p.Modules /\ mods[k].Name = p.Modules[k].Name
      BY <1>8, <1>9
    <3>3. classify(b, p.Modules[k].Name) = p.Modules[k].Type
      BY <1>6, <3>1, <3>2, ClassifyKeeps
    <3> QED
      BY <3>2, <3>3
  <2>2. /\ StreamOf(mods[k]) = p.Modules[k].StreamName
        /\ Decoding[CodePage(DirPlain(b))][Source(b, mods[k])[1].of] = p.Modules[k].Source
        /\ mods[k].Name = p.Modules[k].Name
    BY <1>7, <1>9, <1>10 DEF plain
  <2>3. Module(b, mods[k]) = [Name |-> p.Modules[k].Name, StreamName |-> p.Modules[k].StreamName,
                              Type |-> p.Modules[k].Type, Source |-> p.Modules[k].Source]
    BY <2>1, <2>2 DEF Module
  <2>4. p.Modules[k] \in ModuleType
    BY <1>8
  <2> QED
    BY <2>3, <2>4 DEF ModuleType
<1>13. [k \in DOMAIN mods |-> Module(b, mods[k])] = p.Modules
  <2>1. p.Modules = [k \in 1 .. n |-> p.Modules[k]]
    BY <1>8, LenProperties DEF IsProject, n
  <2> QED
    BY <1>9, <1>12, <2>1
<1>14. PT!IsProtected(Lines(b)) = p.IsProtected
  BY <1>1, <1>6
<1>15. Decomposed(b) = p
  <2> DEFINE d == Decomposed(b)
  <2>1. /\ d = [f \in Fields |-> d[f]]
        /\ d.Modules = [k \in DOMAIN mods |-> Module(b, mods[k])]
        /\ d.References = RefNames(plain) /\ d.ReferencesRaw = RefsRaw(plain)
        /\ d.ProjectInfoRaw = ProjectInfoRaw(plain) /\ d.ProjectStreamRaw = Lines(b)
        /\ d.RawStreams = Opaque(b) /\ d.CodePage = CodePage(plain)
        /\ d.IsProtected = PT!IsProtected(Lines(b))
    BY DEF Decomposed, Fields, mods, plain
  <2> HIDE DEF d
  <2>2. /\ d.Modules = p.Modules
        /\ d.References = p.References /\ d.ReferencesRaw = p.ReferencesRaw
        /\ d.ProjectInfoRaw = p.ProjectInfoRaw /\ d.ProjectStreamRaw = p.ProjectStreamRaw
        /\ d.RawStreams = p.RawStreams /\ d.CodePage = p.CodePage
        /\ d.IsProtected = p.IsProtected
    BY <1>4, <1>6, <1>7, <1>13, <1>14, <2>1
  <2>3. \A f \in Fields : d[f] = p[f]
    BY <2>2 DEF Fields
  <2>4. [f \in Fields |-> d[f]] = [f \in Fields |-> p[f]]
    BY <2>3
  <2> QED
    BY <1>1, <2>1, <2>4 DEF d
<1> QED
  BY <1>11, <1>15 DEF b

-----------------------------------------------------------------------------
(***************************************************************************)
(* Every step keeps the spans in order.                                    *)
(***************************************************************************)

\* A Project read from a file in order has spans that hold what they say.
LEMMA ReadSpans ==
  ASSUME TypeInv, SpanInv, Readable(bin)
  PROVE  Spanned(Decomposed(bin)) /\ PT!CmgReadable(Lines(orig))
<1> DEFINE plain == DirPlain(bin)
           d == Decomposed(bin)
<1>1. IsDir(plain) /\ IsOrdered(plain)
  BY DEF TypeInv, TypeOK, IsFile, SpanInv, Ordered, Readable
<1>2. /\ d.ProjectInfoRaw = ProjectInfoRaw(plain) /\ d.ReferencesRaw = RefsRaw(plain)
      /\ d.References = RefNames(plain)
  BY DEF Decomposed
<1> HIDE DEF plain, d
<1>3. Spanned(d)
  BY <1>1, <1>2, ReadSplit DEF Spanned
<1>4. PT!CmgReadable(Lines(bin)) /\ Lines(bin) = Lines(orig)
  BY DEF TypeInv, CarryInv, Keeps, Readable
<1> QED
  BY <1>3, <1>4 DEF d

\* The host rewrites values of dir, no ids.
LEMMA HostOrdered ==
  ASSUME Ordered(bin), HostSave
  PROVE  Ordered(bin')
<1> DEFINE plain == DirPlain(bin)
           dm == DirModules(plain)
           sources == {ModulePath(StreamOf(dm[k])) : k \in DOMAIN dm}
           recached == [i \in DOMAIN plain |->
                          IF plain[i].id = "MODULEOFFSET"
                            THEN Rec("MODULEOFFSET", PCodeLen) ELSE plain[i]]
<1>1. bin' = [path \in DOMAIN bin \cup {CachePath} |->
                  IF path = DirPath THEN << Compressed(recached) >>
                  ELSE IF path \in sources THEN << PCode, PCode, Last(bin[path]) >>
                  ELSE IF path = CachePath THEN << PCode >>
                  ELSE bin[path]]
  BY DEF HostSave
<1>2. DirPath \in DOMAIN bin /\ IsOrdered(plain)
  BY DEF HostSave, Readable, Ordered
<1>3. /\ DOMAIN recached = DOMAIN plain
      /\ \A i \in DOMAIN plain : recached[i].id = plain[i].id
  BY DEF Rec
<1> HIDE DEF sources, recached
<1>4. bin'[DirPath] = << Compressed(recached) >>
  BY <1>1, <1>2
<1>5. DirPlain(bin') = recached
  BY <1>4, OneContainer DEF DirPlain
<1> HIDE DEF plain
<1>6. \A ids : At(recached, ids) = At(plain, ids)
  BY <1>3 DEF At
<1>7. /\ RefEnd(recached) = RefEnd(plain) /\ RefStart(recached) = RefStart(plain)
      /\ InfoEnd(recached) = InfoEnd(plain)
  BY <1>6 DEF RefEnd, RefStart, InfoEnd, FirstAt
<1>8. IsOrdered(recached)
  BY <1>2, <1>6, <1>7 DEF IsOrdered
<1> QED
  BY <1>5, <1>8 DEF Ordered

\* The edits leave the spans alone.
LEMMA EditSpans ==
  ASSUME CarryInv, Edit, Spanned(proj)
  PROVE  Spanned(proj')
<1>1. proj = [f \in Fields |-> proj[f]]
  BY DEF CarryInv, Carries, Edit
<1>2. \E f \in {"Modules", "CodePage"} : \E v : proj' = [proj EXCEPT ![f] = v]
  BY DEF Edit, EditSource, EditStreamName, Rename, Retype, AddModule, RemoveModule,
         EditCodePage, Becomes
<1>3. /\ proj'.ProjectInfoRaw = proj.ProjectInfoRaw
      /\ proj'.ReferencesRaw = proj.ReferencesRaw /\ proj'.References = proj.References
  BY <1>1, <1>2 DEF Fields
<1> QED
  BY <1>3 DEF Spanned

\* Every step keeps SpanInv.
LEMMA SpanStep ==
  ASSUME TypeInv, SpanInv, [Next]_vars
  PROVE  SpanInv'
<1>1. CASE Read
  <2>1. Spanned(Decomposed(bin)) /\ PT!CmgReadable(Lines(orig))
    BY <1>1, ReadSpans DEF Read
  <2> QED
    BY <1>1, <2>1 DEF Read, SpanInv, Ordered
<1>2. CASE ReadFails \/ WriteFails
  BY <1>2 DEF ReadFails, WriteFails, SpanInv, Ordered
<1>3. CASE Edit
  <2>1. UNCHANGED << bin, orig >> /\ last' = "edit"
    BY <1>3 DEF Edit, EditSource, EditStreamName, Rename, Retype, AddModule, RemoveModule,
                EditCodePage, Becomes
  <2>2. Spanned(proj')
    BY <1>3, EditSpans DEF TypeInv, SpanInv, Edit
  <2>3. PT!CmgReadable(Lines(orig))
    BY <1>3 DEF SpanInv, Edit
  <2> QED
    BY <2>1, <2>2, <2>3 DEF SpanInv, Ordered
<1>4. CASE Write
  <2>1. proj # NoProject /\ Writable(proj) /\ bin' = Assembled(proj) /\ UNCHANGED << proj, orig >>
    BY <1>4 DEF Write
  <2>2. IsProject(proj) /\ Spanned(proj) /\ Carries(proj)
    BY <2>1, TypeOKOf DEF TypeInv, SpanInv, CarryInv
  <2>3. \A path \in DOMAIN proj.RawStreams : firstSegment(path) \notin {"VBA", "PROJECT"}
    BY <2>2 DEF Carries, Opaque
  <2>4. IsFiniteSet(DOMAIN proj.RawStreams)
    <3>1. DOMAIN proj.RawStreams \subseteq DOMAIN orig
      BY <2>2 DEF Carries, Opaque
    <3> QED
      BY <3>1, FS_Subset DEF SpanInv
  <2>5. Assembled(proj)[DirPath] = << Compressed(BuiltDir(proj)) >>
    BY <2>1, <2>2, <2>3, <2>4, AssembledAt
  <2>6. DirPlain(bin') = BuiltDir(proj)
    BY <2>1, <2>5, OneContainer DEF DirPlain
  <2>7. IsOrdered(BuiltDir(proj))
    BY <2>2, BuiltSpans
  <2> QED
    BY <2>1, <2>2, <2>6, <2>7 DEF SpanInv, Ordered
<1>5. CASE HostSave
  <2>1. Ordered(bin') /\ UNCHANGED << proj, orig >> /\ last' = "host"
    BY <1>5, HostOrdered DEF HostSave, SpanInv
  <2> QED
    BY <2>1 DEF SpanInv
<1>6. CASE UNCHANGED vars
  BY <1>6 DEF vars, SpanInv, Ordered
<1> QED
  BY <1>1, <1>2, <1>3, <1>4, <1>5, <1>6 DEF Next

\* Whatever the edits, the files and their spans stay as SpanInv says.
THEOREM SpanInvariant == Spec => []SpanInv
<1>1. Init => SpanInv
  BY HostFilesAssumption DEF HostFilesAssumption, Init, SpanInv, Ordered
<1> QED
  BY <1>1, SpanStep, TypeCorrect, CarryInvariant, PTL DEF Spec, TypeInv

\* What the two invariants give of a file that Write has just returned.
LEMMA JustWritten ==
  ASSUME TypeInv, SpanInv, last = "write", CodePageKept, StreamsNamed
  PROVE  /\ Readable(bin) /\ Decomposed(bin) = proj
         /\ Writable(proj) /\ Assembled(proj) = bin
<1>1. proj # NoProject /\ Writable(proj) /\ bin = Assembled(proj)
  BY DEF SpanInv
<1>2. /\ IsProject(proj) /\ Spanned(proj) /\ Carries(proj) /\ ProjectPath \in DOMAIN orig
      /\ IsFiniteSet(DOMAIN orig) /\ PT!CmgReadable(Lines(orig))
  BY <1>1, TypeOKOf DEF TypeInv, SpanInv, CarryInv
<1>3. Readable(Assembled(proj)) /\ Decomposed(Assembled(proj)) = proj
  BY <1>1, <1>2, WrittenReadsBack DEF CodePageKept, StreamsNamed
<1> QED
  BY <1>1, <1>3

\* Read returns the very Project that Write saved, as long as the caller keeps
\* the codepage and leaves no stream name empty.
THEOREM RoundTripHolds == Spec => []RoundTrip
<1>1. TypeInv /\ SpanInv => RoundTrip
  BY JustWritten DEF RoundTrip
<1> QED
  BY <1>1, TypeCorrect, CarryInvariant, SpanInvariant, PTL DEF TypeInv

\* A file that Write returned is a fixed point of Read and Write.
THEOREM WriteIdempotentHolds == Spec => []WriteIdempotent
<1>1. TypeInv /\ SpanInv => WriteIdempotent
  BY JustWritten DEF WriteIdempotent
<1> QED
  BY <1>1, TypeCorrect, CarryInvariant, SpanInvariant, PTL DEF TypeInv

-----------------------------------------------------------------------------
(***************************************************************************)
(* A written file agrees with itself, as long as its modules can be        *)
(* counted in the 16 bits of the MODULES record.                           *)
(***************************************************************************)

FewModules(b) ==
  DirPath \in DOMAIN b /\ IsContainer(b[DirPath]) => Len(DirModules(DirPlain(b))) < CountLimit

CountInv ==
  /\ FewModules(bin)
  /\ proj # NoProject => Len(proj.Modules) < CountLimit

\* The list of entries and its length depend on the ids alone.
LEMMA EntriesCounted ==
  ASSUME NEW recs, IsDir(recs)
  PROVE  /\ Cardinality(At(recs, {"MODULENAME"})) \in Nat
         /\ Len(DirModules(recs)) = Cardinality(At(recs, {"MODULENAME"}))
         /\ DOMAIN DirModules(recs) = 1 .. Len(DirModules(recs))
<1> DEFINE n == Cardinality(At(recs, {"MODULENAME"}))
           d == DirModules(recs)
           D == [Name : STRING, StreamName : STRING, Offset : Nat, TypeID : Nat]
<1>1. n \in Nat
  BY AtIsPositions, PositionsFinite
<1>2. d \in Seq(D)
  BY StringsAssumption, DirModulesType DEF StringsAssumption
<1>3. DOMAIN d = 1 .. n
  BY DEF DirModules
<1> HIDE DEF n, d, D
<1>4. DOMAIN d = 1 .. Len(d) /\ Len(d) \in Nat
  BY <1>2, LenProperties
<1>5. Len(d) = n
  BY <1>1, <1>3, <1>4
<1> QED
  BY <1>1, <1>4, <1>5 DEF n, d

LEMMA HostCounts ==
  ASSUME IsFile(bin), FewModules(bin), HostSave
  PROVE  FewModules(bin')
<1> DEFINE plain == DirPlain(bin)
           dm == DirModules(plain)
           sources == {ModulePath(StreamOf(dm[k])) : k \in DOMAIN dm}
           recached == [i \in DOMAIN plain |->
                          IF plain[i].id = "MODULEOFFSET"
                            THEN Rec("MODULEOFFSET", PCodeLen) ELSE plain[i]]
<1>1. bin' = [path \in DOMAIN bin \cup {CachePath} |->
                  IF path = DirPath THEN << Compressed(recached) >>
                  ELSE IF path \in sources THEN << PCode, PCode, Last(bin[path]) >>
                  ELSE IF path = CachePath THEN << PCode >>
                  ELSE bin[path]]
  BY DEF HostSave
<1>2. DirPath \in DOMAIN bin /\ IsContainer(bin[DirPath]) /\ IsDir(plain)
  BY DEF HostSave, Readable, IsFile
<1>3. /\ DOMAIN recached = DOMAIN plain
      /\ \A i \in DOMAIN plain : recached[i].id = plain[i].id
  BY DEF Rec
<1> HIDE DEF sources, recached
<1>4. bin'[DirPath] = << Compressed(recached) >> /\ DirPath \in DOMAIN bin'
  BY <1>1, <1>2
<1>5. DirPlain(bin') = recached /\ IsContainer(bin'[DirPath])
  BY <1>4, OneContainer DEF DirPlain
<1>6. IsDir(recached)
  BY <1>4, <1>5, HostIsFile DEF IsFile
<1>7. Len(DirModules(plain)) < CountLimit
  BY <1>2 DEF FewModules
<1> HIDE DEF plain
<1>8. At(recached, {"MODULENAME"}) = At(plain, {"MODULENAME"})
  BY <1>3 DEF At
<1>9. Len(DirModules(recached)) = Len(DirModules(plain))
  BY <1>2, <1>6, <1>8, EntriesCounted
<1> QED
  BY <1>5, <1>7, <1>9 DEF FewModules

\* An edit adds a module only below the bound.
LEMMA EditCounts ==
  ASSUME MaxModules \in Nat, MaxModules < CountLimit, TypeInv, Edit,
         Len(proj.Modules) < CountLimit
  PROVE  Len(proj'.Modules) < CountLimit
<1> DEFINE ms == proj.Modules
<1>1. /\ ms \in Seq(ModuleType) /\ Len(ms) \in Nat /\ DOMAIN ms = 1 .. Len(ms)
      /\ \A k \in DOMAIN ms : ms[k] \in ModuleType
  BY TypeOKOf, SpecsType DEF TypeInv, Edit, IsProject
<1>2. proj = [f \in Fields |-> proj[f]]
  BY DEF TypeInv, CarryInv, Carries, Edit
<1>3. CountLimit \in Nat
  BY CountLimitAssumption DEF CountLimitAssumption
<1>4. \A new : [proj EXCEPT !.Modules = new].Modules = new
  BY <1>2 DEF Fields
<1>5. \A c : [proj EXCEPT !.CodePage = c].Modules = ms
  BY <1>2 DEF Fields
<1>6. ASSUME NEW k \in DOMAIN ms, NEW v
      PROVE  Len([ms EXCEPT ![k] = v]) = Len(ms)
  <2>1. [ms EXCEPT ![k] = v] \in [1 .. Len(ms) -> ModuleType \cup {v}]
    BY <1>1
  <2>2. [ms EXCEPT ![k] = v] \in Seq(ModuleType \cup {v})
    BY <1>1, <2>1, SeqDef
  <2> QED
    BY <1>1, <2>1, <2>2, LenProperties
<1>7. ASSUME NEW k \in DOMAIN ms, NEW v, proj' = [proj EXCEPT !.Modules = [ms EXCEPT ![k] = v]]
      PROVE  Len(proj'.Modules) < CountLimit
  BY <1>4, <1>6, <1>7
<1>8. ASSUME NEW k \in DOMAIN ms, NEW t \in Texts, EditSource(k, t)
      PROVE  Len(proj'.Modules) < CountLimit
  BY <1>7, <1>8 DEF EditSource, Becomes
<1>9. ASSUME NEW k \in DOMAIN ms, NEW n \in Names, EditStreamName(k, n) \/ Rename(k, n)
      PROVE  Len(proj'.Modules) < CountLimit
  BY <1>7, <1>9 DEF EditStreamName, Rename, Becomes
<1>10. ASSUME NEW k \in DOMAIN ms, NEW type \in ModuleTypes, Retype(k, type)
       PROVE  Len(proj'.Modules) < CountLimit
  BY <1>7, <1>10 DEF Retype, Becomes
<1>11. ASSUME NEW k \in DOMAIN ms, NEW n \in Names, NEW stream \in Names, AddModule(k, n, stream)
       PROVE  Len(proj'.Modules) < CountLimit
  <2> DEFINE m == [ms[k] EXCEPT !.Name = n, !.StreamName = stream]
  <2>1. Len(ms) < MaxModules /\ proj'.Modules = Append(ms, m)
    BY <1>4, <1>11 DEF AddModule, Becomes
  <2>2. m \in ModuleType
    BY <1>1, NamesAssumption DEF NamesAssumption, ModuleType
  <2> HIDE DEF m
  <2>3. Len(Append(ms, m)) = Len(ms) + 1
    BY <1>1, <2>2, AppendProperties
  <2> QED
    BY <1>1, <1>3, <2>1, <2>3
<1>12. ASSUME NEW k \in DOMAIN ms, RemoveModule(k)
       PROVE  Len(proj'.Modules) < CountLimit
  <2>1. proj'.Modules = SubSeq(ms, 1, k - 1) \o SubSeq(ms, k + 1, Len(ms))
    BY <1>4, <1>12 DEF RemoveModule, Becomes, RemoveAt
  <2>2. /\ k \in 1 .. Len(ms) /\ k - 1 \in Int /\ k + 1 \in Int /\ Len(ms) \in Int
        /\ \A i \in 1 .. k - 1 : ms[i] \in ModuleType
        /\ \A i \in k + 1 .. Len(ms) : ms[i] \in ModuleType
    BY <1>1
  <2> DEFINE a == SubSeq(ms, 1, k - 1)
             b == SubSeq(ms, k + 1, Len(ms))
  <2>3. /\ a \in Seq(ModuleType) /\ Len(a) = (IF 1 <= k - 1 THEN k - 1 - 1 + 1 ELSE 0)
        /\ b \in Seq(ModuleType) /\ Len(b) = (IF k + 1 <= Len(ms) THEN Len(ms) - (k + 1) + 1 ELSE 0)
    BY <2>2, SubSeqProperties
  <2> HIDE DEF a, b
  <2>4. Len(a \o b) = Len(a) + Len(b)
    BY <2>3, ConcatProperties
  <2>5. Len(a) + Len(b) < CountLimit
    BY <1>1, <1>3, <2>2, <2>3
  <2> QED
    BY <2>1, <2>4, <2>5 DEF a, b
<1>13. ASSUME NEW c \in CodePages, EditCodePage(c)
       PROVE  Len(proj'.Modules) < CountLimit
  BY <1>5, <1>13 DEF EditCodePage, Becomes
<1> QED
  BY <1>8, <1>9, <1>10, <1>11, <1>12, <1>13 DEF Edit

\* The MODULES record of a built stream stands at RefEnd.
LEMMA BuiltCount ==
  ASSUME NEW p, IsProject(p), Spanned(p), Len(p.Modules) < CountLimit
  PROVE  BuiltDir(p)[RefEnd(BuiltDir(p))].val = Len(p.Modules)
<1> DEFINE a == p.ProjectInfoRaw
           b == p.ReferencesRaw
           c == BuildProjectModules(Specs(p))
           r == a \o b \o c
           n == Len(p.Modules)
<1>1. BuiltDir(p) = r
  BY DEF BuiltDir, Specs
<1>2. Specs(p) \in Seq(ModuleSpecs) /\ Len(Specs(p)) = n /\ n \in Nat
  BY SpecsType
<1>3. /\ IsDir(c) /\ Len(c) = 6 * n + 3 /\ c[1].val = n % CountLimit
      /\ At(c, {"REFERENCENAME"}) = {} /\ At(c, {"PROJECTMODULES"}) = {1}
  <2>1. IsDir(c) /\ Len(c) = 6 * Len(Specs(p)) + 3 /\ c[1].val = Len(Specs(p)) % CountLimit
    BY <1>2, BuiltRecords
  <2>2. At(c, {"REFERENCENAME"}) = {} /\ At(c, {"PROJECTMODULES"}) = {1}
    BY <1>2, BuiltAt
  <2> HIDE DEF c
  <2> QED
    BY <1>2, <2>1, <2>2
<1>4. /\ IsDir(a) /\ IsDir(b)
      /\ At(a, {"REFERENCENAME"}) = {} /\ At(a, {"PROJECTMODULES"}) = {}
      /\ At(b, {"PROJECTMODULES"}) = {}
      /\ b # << >> => b[1].id = "REFERENCENAME"
  BY DEF Spanned
<1> HIDE DEF a, b, c
<1>5. RefEnd(r) = Len(a) + Len(b) + 1
  <2>1. 1 \in At(c, {"PROJECTMODULES"})
    BY <1>3
  <2> QED
    BY <1>3, <1>4, <2>1, SpansOf
<1>6. Parts(r, a, b, c)
  BY <1>3, <1>4, PartsAt
<1> HIDE DEF r, n
<1>7. r[RefEnd(r)] = c[1]
  <2>1. 1 \in 1 .. Len(c)
    BY <1>2, <1>3
  <2>2. r[1 + (Len(a) + Len(b))] = c[1]
    BY <1>6, <2>1 DEF Parts
  <2>3. 1 + (Len(a) + Len(b)) = Len(a) + Len(b) + 1
    BY <1>6 DEF Parts
  <2> QED
    BY <1>5, <2>2, <2>3
<1>8. n % CountLimit = n
  <2>1. CountLimit \in Nat \ {0} /\ n < CountLimit
    BY CountLimitAssumption DEF CountLimitAssumption, n
  <2> QED
    BY <1>2, <2>1
<1> QED
  BY <1>1, <1>3, <1>7, <1>8 DEF n

\* What SelfConsistent says of a file.
Agrees(b) ==
  LET plain == DirPlain(b)
      dm    == DirModules(plain)
  IN  /\ {dm[k].Name : k \in DOMAIN dm} = DOMAIN PT!Kinds(Lines(b))
      /\ {path \in DOMAIN b : firstSegment(path) = "VBA"}
           = {DirPath, StubPath} \cup {ModulePath(dm[k].StreamName) : k \in DOMAIN dm}
      /\ \A k \in DOMAIN dm : dm[k].Offset = 0
      /\ plain[RefEnd(plain)].val = Len(dm)

\* What Write returns for a Project that satisfies the invariants.
LEMMA WrittenAgrees ==
  ASSUME NEW p, IsProject(p), Carries(p), Spanned(p), Writable(p),
         IsFiniteSet(DOMAIN orig), Len(p.Modules) < CountLimit,
         NEW b, b = Assembled(p)
  PROVE  Agrees(b)
<1> DEFINE plain == DirPlain(b)
           dm == DirModules(plain)
           n == Len(p.Modules)
<1>1. \A path \in DOMAIN p.RawStreams : firstSegment(path) \notin {"VBA", "PROJECT"}
  BY DEF Carries, Opaque
<1>2. IsFiniteSet(DOMAIN p.RawStreams)
  <2>1. DOMAIN p.RawStreams \subseteq DOMAIN orig
    BY DEF Carries, Opaque
  <2> QED
    BY <2>1, FS_Subset
<1>3. b[ProjectPath] = p.ProjectStreamRaw /\ b[DirPath] = << Compressed(BuiltDir(p)) >>
  BY <1>1, <1>2, AssembledAt
<1>4. DOMAIN b = DOMAIN p.RawStreams \cup OwnPaths(p)
  BY DEF Assembled
<1>5. plain = BuiltDir(p)
  BY <1>3, OneContainer DEF DirPlain
<1> HIDE DEF plain
<1>6. dm = [k \in 1 .. n |->
              [Name |-> p.Modules[k].Name, StreamName |-> p.Modules[k].StreamName,
               Offset |-> 0, TypeID |-> moduleTypeID(p.Modules[k].Type)]]
  BY <1>5, BuiltSpans
<1>7. n \in Nat /\ DOMAIN p.Modules = 1 .. n
  BY SpecsType
<1>8. IsDir(plain) /\ plain[RefEnd(plain)].val = n
  BY <1>5, BuiltSpans, BuiltCount
<1>9. DOMAIN dm = 1 .. Len(dm) /\ Len(dm) \in Nat
  BY <1>8, EntriesCounted
<1> HIDE DEF dm, n
<1>10. /\ DOMAIN dm = 1 .. n
       /\ \A k \in 1 .. n : /\ dm[k].Name = p.Modules[k].Name
                            /\ dm[k].StreamName = p.Modules[k].StreamName
                            /\ dm[k].Offset = 0
  BY <1>6
<1>11. Len(dm) = n
  <2>1. 1 .. Len(dm) = 1 .. n /\ Len(dm) \in Nat /\ n \in Nat
    BY <1>7, <1>9, <1>10
  <2> QED
    BY <2>1
<1>12. {dm[k].Name : k \in DOMAIN dm} = DOMAIN PT!Kinds(Lines(b))
  <2>1. Lines(b) = p.ProjectStreamRaw
    BY <1>3 DEF Lines
  <2>2. /\ \A k \in DOMAIN p.Modules : p.Modules[k].Name \in DOMAIN PT!Kinds(p.ProjectStreamRaw)
        /\ DOMAIN PT!Kinds(p.ProjectStreamRaw) \subseteq {p.Modules[k].Name : k \in DOMAIN p.Modules}
    BY DEF Writable, checkModuleSet
  <2>3. {dm[k].Name : k \in DOMAIN dm} = {p.Modules[k].Name : k \in DOMAIN p.Modules}
    BY <1>7, <1>10
  <2>4. {p.Modules[k].Name : k \in DOMAIN p.Modules} \subseteq DOMAIN PT!Kinds(p.ProjectStreamRaw)
    BY <2>2
  <2> QED
    BY <2>1, <2>2, <2>3, <2>4
<1>13. {path \in DOMAIN b : firstSegment(path) = "VBA"}
         = {DirPath, StubPath} \cup {ModulePath(dm[k].StreamName) : k \in DOMAIN dm}
  <2>1. {ModulePath(dm[k].StreamName) : k \in DOMAIN dm}
          = {ModulePath(p.Modules[k].StreamName) : k \in DOMAIN p.Modules}
    BY <1>7, <1>10
  <2>2. "VBA" # "PROJECT"
    OBVIOUS
  <2> QED
    BY <1>1, <1>4, <2>1, <2>2, PathsKnown DEF OwnPaths
<1>14. \A k \in DOMAIN dm : dm[k].Offset = 0
  BY <1>10
<1> QED
  BY <1>8, <1>11, <1>12, <1>13, <1>14 DEF Agrees, plain, dm

\* A written file agrees with itself whatever the edits, as long as neither
\* the files nor the bound on edits let a Project have 2^16 modules.
THEOREM SelfConsistentHolds ==
  ASSUME MaxModules \in Nat, MaxModules < CountLimit, \A b \in Inputs : FewModules(b)
  PROVE  Spec => []SelfConsistent
<1>1. Init => CountInv
  BY DEF Init, CountInv
<1>2. TypeInv /\ SpanInv /\ CountInv /\ [Next]_vars => CountInv'
  <2> SUFFICES ASSUME TypeInv, SpanInv, CountInv, [Next]_vars
               PROVE  CountInv'
    OBVIOUS
  <2>1. CASE Read
    <3>1. Len(Decomposed(bin).Modules) = Len(DirModules(DirPlain(bin)))
      <4> DEFINE dm == DirModules(DirPlain(bin))
                 ms == Decomposed(bin).Modules
      <4>1. /\ Len(dm) \in Nat /\ DOMAIN dm = 1 .. Len(dm)
        BY <2>1, EntriesCounted DEF Read, Readable, TypeInv, TypeOK, IsFile
      <4>2. ms \in Seq(ModuleType)
        BY <2>1, ReadType DEF Read, TypeInv, TypeOK, IsProject
      <4>3. DOMAIN ms = DOMAIN dm
        BY DEF Decomposed
      <4> HIDE DEF dm, ms
      <4>4. Len(ms) \in Nat /\ DOMAIN ms = 1 .. Len(ms)
        BY <4>2, LenProperties
      <4>5. Len(ms) = Len(dm)
        BY <4>1, <4>3, <4>4
      <4> QED
        BY <4>5 DEF dm, ms
    <3>2. DirPath \in DOMAIN bin /\ IsContainer(bin[DirPath])
      BY <2>1 DEF Read, Readable
    <3> QED
      BY <2>1, <3>1, <3>2 DEF Read, CountInv, FewModules
  <2>2. CASE ReadFails \/ WriteFails
    BY <2>2 DEF ReadFails, WriteFails, CountInv, FewModules
  <2>3. CASE Edit
    <3>1. UNCHANGED << bin, orig >>
      BY <2>3 DEF Edit, EditSource, EditStreamName, Rename, Retype, AddModule, RemoveModule,
                  EditCodePage, Becomes
    <3>2. Len(proj'.Modules) < CountLimit
      BY <2>3, EditCounts DEF CountInv, Edit
    <3> QED
      BY <3>1, <3>2 DEF CountInv, FewModules
  <2>4. CASE Write
    <3>1. /\ proj # NoProject /\ Writable(proj) /\ bin' = Assembled(proj) /\ UNCHANGED << proj, orig >>
          /\ Len(proj.Modules) < CountLimit
      BY <2>4 DEF Write, CountInv
    <3>2. IsProject(proj) /\ Spanned(proj) /\ Carries(proj)
      BY <3>1, TypeOKOf DEF TypeInv, SpanInv, CarryInv
    <3>3. \A path \in DOMAIN proj.RawStreams : firstSegment(path) \notin {"VBA", "PROJECT"}
      BY <3>2 DEF Carries, Opaque
    <3>4. IsFiniteSet(DOMAIN proj.RawStreams)
      <4>1. DOMAIN proj.RawStreams \subseteq DOMAIN orig
        BY <3>2 DEF Carries, Opaque
      <4> QED
        BY <4>1, FS_Subset DEF SpanInv
    <3>5. Assembled(proj)[DirPath] = << Compressed(BuiltDir(proj)) >>
      BY <3>1, <3>2, <3>3, <3>4, AssembledAt
    <3>6. DirPlain(bin') = BuiltDir(proj)
      BY <3>1, <3>5, OneContainer DEF DirPlain
    <3>7. Len(DirModules(BuiltDir(proj))) = Len(proj.Modules)
      <4> DEFINE dm == DirModules(BuiltDir(proj))
      <4>1. IsDir(BuiltDir(proj)) /\ DOMAIN dm = 1 .. Len(proj.Modules)
        BY <3>2, BuiltSpans
      <4>2. DOMAIN dm = 1 .. Len(dm) /\ Len(dm) \in Nat
        BY <4>1, EntriesCounted
      <4>3. Len(proj.Modules) \in Nat
        BY <3>2, SpecsType
      <4> HIDE DEF dm
      <4>4. Len(dm) = Len(proj.Modules)
        BY <4>1, <4>2, <4>3
      <4> QED
        BY <4>4 DEF dm
    <3> QED
      BY <3>1, <3>6, <3>7 DEF CountInv, FewModules
  <2>5. CASE HostSave
    <3>1. FewModules(bin')
      BY <2>5, HostCounts DEF TypeInv, TypeOK, CountInv
    <3> QED
      BY <2>5, <3>1 DEF HostSave, CountInv
  <2>6. CASE UNCHANGED vars
    BY <2>6 DEF vars, CountInv, FewModules
  <2> QED
    BY <2>1, <2>2, <2>3, <2>4, <2>5, <2>6 DEF Next
<1>3. TypeInv /\ SpanInv /\ CountInv => SelfConsistent
  <2> SUFFICES ASSUME TypeInv, SpanInv, CountInv, last = "write"
               PROVE  SelfConsistent
    BY DEF SelfConsistent
  <2>1. /\ proj # NoProject /\ Writable(proj) /\ bin = Assembled(proj)
        /\ Len(proj.Modules) < CountLimit /\ IsFiniteSet(DOMAIN orig)
    BY DEF SpanInv, CountInv
  <2>2. IsProject(proj) /\ Spanned(proj) /\ Carries(proj)
    BY <2>1, TypeOKOf DEF TypeInv, SpanInv, CarryInv
  <2>3. Agrees(bin)
    BY <2>1, <2>2, WrittenAgrees
  <2> QED
    BY <2>3, Zenon DEF SelfConsistent, Agrees
<1> QED
  BY <1>1, <1>2, <1>3, TypeCorrect, CarryInvariant, SpanInvariant, PTL DEF Spec, TypeInv

-----------------------------------------------------------------------------
(***************************************************************************)
(* Source edits can be saved: for every set of coherent files, every text  *)
(* and codepage table, and every sequence of edits of sources and of the   *)
(* codepage.                                                               *)
(***************************************************************************)

\* What of the modules Write compares with PROJECT and with the other streams:
\* in a Project, and as Read finds it in a file.
Shape(p) ==
  [k \in DOMAIN p.Modules |-> [Name       |-> p.Modules[k].Name,
                               StreamName |-> p.Modules[k].StreamName,
                               Type       |-> p.Modules[k].Type]]

Slots(b) ==
  LET dm == DirModules(DirPlain(b))
  IN  [k \in DOMAIN dm |-> [Name       |-> dm[k].Name,
                            StreamName |-> StreamOf(dm[k]),
                            Type       |-> classify(b, dm[k].Name)]]

\* SourceEditsSavable is not inductive: the Project comes from a file that an
\* earlier Write or the host made.  All files list the modules of the first.
SlotInv ==
  /\ orig \in Inputs
  /\ Slots(bin) = Slots(orig)
  /\ bin # orig \/ proj # NoProject => Readable(orig)
  /\ proj # NoProject => Shape(proj) = Slots(orig)

\* The key of a module line is one of the four.
LEMMA KindsAreKeys ==
  ASSUME NEW lines \in PT!Lines, NEW name \in DOMAIN PT!Kinds(lines)
  PROVE  PT!Kinds(lines)[name] \in PT!ModuleKeys
<1> DEFINE at == PT!At(lines, PT!ModuleKeys)
           hits == {i \in at : lines[i].val = name}
<1>1. Len(lines) \in Nat /\ at \in SUBSET (1 .. Len(lines))
  BY LenProperties DEF PT!Lines, PT!At
<1>2. hits # {} /\ hits \in SUBSET (1 .. Len(lines))
  BY <1>1 DEF PT!Kinds
<1>3. Max(hits) \in hits
  BY <1>1, <1>2, MaxOfPositions
<1>4. PT!Max(hits) = Max(hits)
  BY DEF PT!Max, Max
<1>5. PT!Kinds(lines)[name] = lines[PT!Max(hits)].key
  BY DEF PT!Kinds
<1>6. \A i \in hits : lines[i].key \in PT!ModuleKeys
  BY DEF PT!At
<1> QED
  BY <1>3, <1>4, <1>5, <1>6

\* A module that PROJECT lists is read as one of the kind that it states.
LEMMA KindOfSlot ==
  ASSUME NEW b, Lines(b) \in PT!Lines, NEW name \in DOMAIN PT!Kinds(Lines(b))
  PROVE  PT!Kinds(Lines(b))[name] = projectKind[classify(b, name)]
<1> DEFINE kinds == PT!Kinds(Lines(b))
<1>1. kinds[name] \in {"Module", "Class", "BaseClass", "Document"} /\ name \in DOMAIN kinds
  BY KindsAreKeys DEF PT!ModuleKeys
<1> HIDE DEF kinds
<1>2. classify(b, name) =
        CASE kinds[name] = "Module"    -> "ModuleStd"
          [] kinds[name] = "Class"     -> "ModuleClass"
          [] kinds[name] = "Document"  -> "ModuleDocument"
          [] kinds[name] = "BaseClass" -> "ModuleForm"
          [] OTHER -> IF FramePath(name) \in DOMAIN b THEN "ModuleForm" ELSE "ModuleClass"
  BY <1>1, Zenon DEF classify, kinds
<1>3. projectKind["ModuleStd"] = "Module" /\ projectKind["ModuleClass"] = "Class"
      /\ projectKind["ModuleDocument"] = "Document" /\ projectKind["ModuleForm"] = "BaseClass"
  BY DEF projectKind
<1>4. projectKind[classify(b, name)] = kinds[name]
  BY <1>1, <1>2, <1>3
<1> QED
  BY <1>4 DEF kinds

\* The paths that Write adds for the modules of a coherent file, with its
\* opaque streams, are streams of that file, and no path is added twice.
LEMMA AddedOnce ==
  ASSUME NEW b, IsFiniteSet(DOMAIN b), Coherent(b), Readable(b),
         NEW p, IsProject(p), p.RawStreams = Opaque(b), Shape(p) = Slots(b)
  PROVE  LET t == AddedPaths(p)
         IN  /\ \A i \in DOMAIN t : t[i] \in DOMAIN b
             /\ \A i, j \in DOMAIN t : t[i] = t[j] => i = j
<1> DEFINE t == AddedPaths(p)
           u == SetToSeq(DOMAIN p.RawStreams)
           l == Len(u)
           n == Len(p.Modules)
           dm == DirModules(DirPlain(b))
           path(k) == ModulePath(p.Modules[k].StreamName)
<1>1. /\ IsFiniteSet(DOMAIN p.RawStreams)
      /\ \A r \in DOMAIN p.RawStreams : r \in DOMAIN b /\ firstSegment(r) \notin {"VBA", "PROJECT"}
  <2>1. DOMAIN p.RawStreams = {q \in DOMAIN b : firstSegment(q) \notin {"VBA", "PROJECT"}}
    BY DEF Opaque
  <2> QED
    BY <2>1, FS_Subset
<1>2. /\ l \in Nat /\ n \in Nat /\ DOMAIN p.Modules = 1 .. n
      /\ DOMAIN t = 1 .. l + 3 + n
      /\ \A i \in 1 .. l : t[i] = u[i]
      /\ t[l + 1] = ProjectPath /\ t[l + 2] = StubPath /\ t[l + 3] = DirPath
      /\ \A k \in 1 .. n : t[l + 3 + k] = path(k)
  BY <1>1, AddedAt
<1>3. /\ \A i \in 1 .. l : u[i] \in DOMAIN p.RawStreams
      /\ \A i, j \in 1 .. l : u[i] = u[j] => i = j
  BY <1>1, SetToSeqOnce
<1>4. /\ DOMAIN dm = 1 .. n
      /\ \A k \in 1 .. n : p.Modules[k].StreamName = StreamOf(dm[k])
  <2>1. DOMAIN Shape(p) = DOMAIN p.Modules /\ DOMAIN Slots(b) = DOMAIN dm
    BY DEF Shape, Slots
  <2>2. /\ \A k \in DOMAIN p.Modules : Shape(p)[k].StreamName = p.Modules[k].StreamName
        /\ \A k \in DOMAIN dm : Slots(b)[k].StreamName = StreamOf(dm[k])
    BY DEF Shape, Slots
  <2> QED
    BY <1>2, <2>1, <2>2
<1>5. /\ \A k \in DOMAIN dm : ModulePath(StreamOf(dm[k])) \in DOMAIN b
      /\ {ProjectPath, DirPath} \subseteq DOMAIN b /\ IsContainer(b[DirPath])
  BY DEF Readable, ModuleReadable
<1>6. /\ \A k \in DOMAIN dm : ModulePath(StreamOf(dm[k])) \notin {DirPath, StubPath}
      /\ \A k, j \in DOMAIN dm : StreamOf(dm[k]) = StreamOf(dm[j]) => k = j
      /\ StubPath \in DOMAIN b
  BY <1>5 DEF Coherent
<1>7. /\ \A k \in 1 .. n : /\ path(k) \in DOMAIN b
                           /\ path(k) \notin {ProjectPath, StubPath, DirPath}
                           /\ firstSegment(path(k)) = "VBA"
      /\ \A k, j \in 1 .. n : path(k) = path(j) => k = j
  <2>1. \A s, r : ModulePath(s) = ModulePath(r) => s = r
    BY DEF ModulePath
  <2>2. \A s : firstSegment(ModulePath(s)) = "VBA" /\ ModulePath(s) # ProjectPath
    BY PathsKnown
  <2> HIDE DEF dm
  <2> QED
    BY <1>4, <1>5, <1>6, <2>1, <2>2
<1> HIDE DEF t, u, l, n, dm, path
<1>8. \A i \in DOMAIN t : \/ i \in 1 .. l /\ t[i] = u[i]
                          \/ i = l + 1 /\ t[i] = ProjectPath
                          \/ i = l + 2 /\ t[i] = StubPath
                          \/ i = l + 3 /\ t[i] = DirPath
                          \/ \E k \in 1 .. n : i = l + 3 + k /\ t[i] = path(k)
  <2> SUFFICES ASSUME NEW i \in DOMAIN t, ~(i \in 1 .. l + 3)
               PROVE  \E k \in 1 .. n : i = l + 3 + k /\ t[i] = path(k)
    BY <1>2
  <2>1. l \in Nat /\ n \in Nat /\ i \in Nat /\ i > l + 3 /\ i <= l + 3 + n
    <3>1. l \in Nat /\ n \in Nat /\ i \in 1 .. l + 3 + n
      BY <1>2
    <3> QED
      BY <3>1
  <2> DEFINE k == i - (l + 3)
  <2>2. k \in 1 .. n /\ i = l + 3 + k
    BY <2>1
  <2> HIDE DEF k
  <2>3. t[l + 3 + k] = path(k)
    BY <1>2, <2>2
  <2> QED
    BY <2>2, <2>3
<1>9. \A i \in DOMAIN t : t[i] \in DOMAIN b
  BY <1>1, <1>3, <1>5, <1>6, <1>7, <1>8
<1>10. ProjectPath # StubPath /\ ProjectPath # DirPath /\ StubPath # DirPath
  BY DEF ProjectPath, StubPath, DirPath
<1>11. \A i \in 1 .. l : firstSegment(u[i]) \notin {"VBA", "PROJECT"}
  BY <1>1, <1>3
<1>12. ASSUME NEW i \in DOMAIN t, NEW j \in DOMAIN t, t[i] = t[j]
       PROVE  i = j
  <2>1. CASE i \in 1 .. l /\ t[i] = u[i]
    BY <1>3, <1>7, <1>8, <1>11, <1>12, <2>1, PathsKnown
  <2>2. CASE i = l + 1 /\ t[i] = ProjectPath
    BY <1>7, <1>8, <1>10, <1>11, <1>12, <2>2, PathsKnown
  <2>3. CASE i = l + 2 /\ t[i] = StubPath
    BY <1>7, <1>8, <1>10, <1>11, <1>12, <2>3, PathsKnown
  <2>4. CASE i = l + 3 /\ t[i] = DirPath
    BY <1>7, <1>8, <1>10, <1>11, <1>12, <2>4, PathsKnown
  <2>5. CASE \E k \in 1 .. n : i = l + 3 + k /\ t[i] = path(k)
    BY <1>7, <1>8, <1>11, <1>12, <2>5, PathsKnown
  <2> QED
    BY <1>8, <2>1, <2>2, <2>3, <2>4, <2>5
<1> QED
  BY <1>9, <1>12 DEF t

\* Neither of the two checks that compare modules refuses such a Project.
LEMMA SlotsFit ==
  ASSUME NEW b, IsFiniteSet(DOMAIN b), Coherent(b), Readable(b),
         NEW p, IsProject(p), p.RawStreams = Opaque(b), p.ProjectStreamRaw = Lines(b),
         Shape(p) = Slots(b)
  PROVE  checkModuleSet(p) /\ ~TreeRejects(AddedPaths(p), TooLong)
<1> DEFINE dm == DirModules(DirPlain(b))
           kinds == PT!Kinds(Lines(b))
<1>1. {ProjectPath, DirPath} \subseteq DOMAIN b /\ IsContainer(b[DirPath])
  BY DEF Readable
<1>2. /\ Lines(b) \in PT!Lines
      /\ DOMAIN kinds = {dm[k].Name : k \in DOMAIN dm}
      /\ \A path \in DOMAIN b : ~BadPath(path, TooLong)
      /\ \A path, other \in DOMAIN b : path # other => ~IsPrefix(path, other)
  BY <1>1 DEF Coherent
<1>3. /\ DOMAIN dm = DOMAIN p.Modules
      /\ \A k \in DOMAIN dm : /\ p.Modules[k].Name = dm[k].Name
                              /\ p.Modules[k].Type = classify(b, dm[k].Name)
  <2>1. DOMAIN Shape(p) = DOMAIN p.Modules /\ DOMAIN Slots(b) = DOMAIN dm
    BY DEF Shape, Slots
  <2>2. /\ \A k \in DOMAIN p.Modules : /\ Shape(p)[k].Name = p.Modules[k].Name
                                       /\ Shape(p)[k].Type = p.Modules[k].Type
        /\ \A k \in DOMAIN dm : /\ Slots(b)[k].Name = dm[k].Name
                                /\ Slots(b)[k].Type = classify(b, dm[k].Name)
    BY DEF Shape, Slots
  <2> QED
    BY <2>1, <2>2
<1>4. \A name \in DOMAIN kinds : kinds[name] = projectKind[classify(b, name)]
  BY <1>2, KindOfSlot
<1> HIDE DEF dm, kinds
<1>5. checkModuleSet(p)
  <2>1. PT!Kinds(p.ProjectStreamRaw) = kinds
    BY DEF kinds
  <2> QED
    BY <1>2, <1>3, <1>4, <2>1 DEF checkModuleSet
<1>6. /\ \A i \in DOMAIN AddedPaths(p) : AddedPaths(p)[i] \in DOMAIN b
      /\ \A i, j \in DOMAIN AddedPaths(p) : AddedPaths(p)[i] = AddedPaths(p)[j] => i = j
  BY AddedOnce
<1>7. ~TreeRejects(AddedPaths(p), TooLong)
  <2> DEFINE t == AddedPaths(p)
  <2>1. \A i \in DOMAIN t : ~BadPath(t[i], TooLong)
    BY <1>2, <1>6
  <2>2. \A i, j \in DOMAIN t : i # j => ~Clash(t[i], t[j])
    BY <1>2, <1>6 DEF Clash
  <2> HIDE DEF t
  <2>3. ~TreeRejects(t, TooLong)
    BY <2>1, <2>2 DEF TreeRejects
  <2> QED
    BY <2>3 DEF t
<1> QED
  BY <1>5, <1>7

\* The entries of the file that Write returns are the modules of the Project,
\* if only those without a name have no stream name.
LEMMA WrittenSlots ==
  ASSUME NEW p, IsProject(p), Carries(p), Spanned(p), Writable(p), IsFiniteSet(DOMAIN orig),
         \A k \in DOMAIN p.Modules : p.Modules[k].StreamName = "" => p.Modules[k].Name = ""
  PROVE  Slots(Assembled(p)) = Shape(p)
<1> DEFINE b == Assembled(p)
           dm == DirModules(DirPlain(b))
<1>1. \A path \in DOMAIN p.RawStreams : firstSegment(path) \notin {"VBA", "PROJECT"}
  BY DEF Carries, Opaque
<1>2. IsFiniteSet(DOMAIN p.RawStreams)
  <2>1. DOMAIN p.RawStreams \subseteq DOMAIN orig
    BY DEF Carries, Opaque
  <2> QED
    BY <2>1, FS_Subset
<1>3. b[DirPath] = << Compressed(BuiltDir(p)) >> /\ Lines(b) = p.ProjectStreamRaw
  BY <1>1, <1>2, AssembledAt DEF Lines
<1>4. checkModuleSet(p)
  BY DEF Writable
<1> HIDE DEF b
<1>5. DirPlain(b) = BuiltDir(p)
  BY <1>3, OneContainer DEF DirPlain
<1>6. dm = [k \in 1 .. Len(p.Modules) |->
              [Name |-> p.Modules[k].Name, StreamName |-> p.Modules[k].StreamName,
               Offset |-> 0, TypeID |-> moduleTypeID(p.Modules[k].Type)]]
  BY <1>5, BuiltSpans
<1>7. DOMAIN p.Modules = 1 .. Len(p.Modules)
  BY SpecsType
<1> HIDE DEF dm
<1>8. /\ DOMAIN dm = DOMAIN p.Modules
      /\ \A k \in DOMAIN p.Modules : /\ dm[k].Name = p.Modules[k].Name
                                     /\ dm[k].StreamName = p.Modules[k].StreamName
  BY <1>6, <1>7
<1>9. \A k \in DOMAIN p.Modules : StreamOf(dm[k]) = p.Modules[k].StreamName
  BY <1>8 DEF StreamOf
<1>10. \A k \in DOMAIN p.Modules : classify(b, dm[k].Name) = p.Modules[k].Type
  BY <1>3, <1>4, <1>8, ClassifyKeeps
<1>11. Slots(b) = [k \in DOMAIN dm |-> [Name       |-> dm[k].Name,
                                        StreamName |-> StreamOf(dm[k]),
                                        Type       |-> classify(b, dm[k].Name)]]
  BY DEF Slots, dm
<1>12. Slots(b) = Shape(p)
  BY <1>8, <1>9, <1>10, <1>11 DEF Shape
<1> QED
  BY <1>12 DEF b

\* The host's save keeps the entries but for their offsets.
LEMMA HostSlots ==
  ASSUME IsFile(bin), Keeps(bin), HostSave
  PROVE  Slots(bin') = Slots(bin)
<1> DEFINE plain == DirPlain(bin)
           dm == DirModules(plain)
           sources == {ModulePath(StreamOf(dm[k])) : k \in DOMAIN dm}
           new == WithOffset(plain, PCodeLen)
           ndm == DirModules(new)
           b == bin'
<1>1. b = [path \in DOMAIN bin \cup {CachePath} |->
                  IF path = DirPath THEN << Compressed(new) >>
                  ELSE IF path \in sources THEN << PCode, PCode, Last(bin[path]) >>
                  ELSE IF path = CachePath THEN << PCode >>
                  ELSE bin[path]]
  BY DEF HostSave, WithOffset
<1>2. DirPath \in DOMAIN bin /\ IsContainer(bin[DirPath]) /\ ProjectPath \in DOMAIN bin
  BY DEF HostSave, Readable
<1>3. /\ DOMAIN ndm = DOMAIN dm
      /\ \A k \in DOMAIN dm : ndm[k].Name = dm[k].Name /\ ndm[k].StreamName = dm[k].StreamName
  <2>1. IsDir(plain)
    BY <1>2 DEF IsFile
  <2>2. PCodeLen \in Nat
    BY DEF PCodeLen
  <2> QED
    BY <2>1, <2>2, NamesKept
<1>4. Lines(b) = Lines(bin)
  BY <1>2, HostKeeps DEF Keeps, HostSave
<1> HIDE DEF b, sources, dm, new, ndm
<1>5. DirPlain(b) = new
  <2>1. b[DirPath] = << Compressed(new) >>
    BY <1>1, <1>2
  <2> QED
    BY <2>1, OneContainer DEF DirPlain
<1>6. \A name : classify(b, name) = classify(bin, name)
  <2>1. \A name : FramePath(name) \in DOMAIN b <=> FramePath(name) \in DOMAIN bin
    <3>1. \A name : FramePath(name) # CachePath
      BY DEF FramePath, CachePath
    <3> QED
      BY <1>1, <3>1
  <2> QED
    BY <1>4, <2>1, Zenon DEF classify
<1>7. \A k \in DOMAIN dm : StreamOf(ndm[k]) = StreamOf(dm[k])
  BY <1>3 DEF StreamOf
<1>8. /\ Slots(b) = [k \in DOMAIN ndm |-> [Name       |-> ndm[k].Name,
                                           StreamName |-> StreamOf(ndm[k]),
                                           Type       |-> classify(b, ndm[k].Name)]]
      /\ Slots(bin) = [k \in DOMAIN dm |-> [Name       |-> dm[k].Name,
                                            StreamName |-> StreamOf(dm[k]),
                                            Type       |-> classify(bin, dm[k].Name)]]
  BY <1>5 DEF Slots, dm, ndm
<1>9. Slots(b) = Slots(bin)
  BY <1>3, <1>6, <1>7, <1>8
<1> QED
  BY <1>9 DEF b

\* Read takes the modules as they are listed.
LEMMA ReadShape ==
  ASSUME NEW b
  PROVE  Shape(Decomposed(b)) = Slots(b)
<1> DEFINE dm == DirModules(DirPlain(b))
<1>1. Decomposed(b).Modules = [k \in DOMAIN dm |-> Module(b, dm[k])]
  BY DEF Decomposed
<1> HIDE DEF dm
<1>2. \A k \in DOMAIN dm : /\ Module(b, dm[k]).Name = dm[k].Name
                           /\ Module(b, dm[k]).StreamName = StreamOf(dm[k])
                           /\ Module(b, dm[k]).Type = classify(b, dm[k].Name)
  BY DEF Module
<1> QED
  BY <1>1, <1>2 DEF Shape, Slots, dm

\* An edit of a source or of the codepage keeps the shape.
LEMMA EditShape ==
  ASSUME TypeInv, Edits \subseteq {"Source", "CodePage"}, Edit
  PROVE  Shape(proj') = Shape(proj)
<1>1. /\ IsProject(proj) /\ proj = [f \in Fields |-> proj[f]]
  BY TypeOKOf DEF TypeInv, CarryInv, Carries, Edit
<1>2. CASE \E k \in DOMAIN proj.Modules : \E t \in Texts : EditSource(k, t)
  <2>1. PICK k \in DOMAIN proj.Modules, t \in Texts : EditSource(k, t)
    BY <1>2
  <2> DEFINE ms == proj.Modules
             new == [ms EXCEPT ![k] = [ms[k] EXCEPT !.Source = t]]
  <2>2. proj' = [proj EXCEPT !.Modules = new]
    BY <2>1 DEF EditSource, Becomes
  <2>3. proj'.Modules = new
    <3> HIDE DEF new
    <3> QED
      BY <1>1, <2>2 DEF Fields
  <2>4. ms[k] \in ModuleType
    BY <1>1, SpecsType
  <2>5. LET m == [ms[k] EXCEPT !.Source = t]
        IN  m.Name = ms[k].Name /\ m.StreamName = ms[k].StreamName /\ m.Type = ms[k].Type
    BY <2>4 DEF ModuleType
  <2>6. /\ DOMAIN new = DOMAIN ms
        /\ \A j \in DOMAIN ms : new[j] = IF j = k THEN [ms[k] EXCEPT !.Source = t] ELSE ms[j]
    OBVIOUS
  <2> HIDE DEF new, ms
  <2>7. \A j \in DOMAIN ms : /\ new[j].Name = ms[j].Name
                             /\ new[j].StreamName = ms[j].StreamName
                             /\ new[j].Type = ms[j].Type
    BY <2>5, <2>6
  <2> QED
    BY <2>3, <2>6, <2>7 DEF Shape, ms
<1>3. CASE \E c \in CodePages : EditCodePage(c)
  <2>1. proj'.Modules = proj.Modules
    BY <1>1, <1>3 DEF EditCodePage, Becomes, Fields
  <2> QED
    BY <2>1 DEF Shape
<1> QED
  BY <1>2, <1>3 DEF Edit, EditStreamName, Rename, Retype, AddModule, RemoveModule

\* Every step keeps SlotInv.
LEMMA SlotStep ==
  ASSUME Edits \subseteq {"Source", "CodePage"}, TypeInv, SpanInv, SlotInv, [Next]_vars
  PROVE  SlotInv'
<1>1. CASE Read
  <2>1. Readable(bin) /\ proj' = Decomposed(bin) /\ UNCHANGED << bin, orig >>
    BY <1>1 DEF Read
  <2>2. Shape(proj') = Slots(orig)
    BY <2>1, ReadShape DEF SlotInv
  <2>3. Readable(orig)
    BY <2>1 DEF SlotInv
  <2> QED
    BY <2>1, <2>2, <2>3 DEF SlotInv
<1>2. CASE ReadFails \/ WriteFails
  BY <1>2 DEF ReadFails, WriteFails, SlotInv
<1>3. CASE Edit
  <2>1. UNCHANGED << bin, orig >> /\ proj # NoProject
    BY <1>3 DEF Edit, EditSource, EditStreamName, Rename, Retype, AddModule, RemoveModule,
                EditCodePage, Becomes
  <2>2. Shape(proj') = Shape(proj)
    BY <1>3, EditShape
  <2> QED
    BY <2>1, <2>2 DEF SlotInv
<1>4. CASE Write
  <2>1. proj # NoProject /\ Writable(proj) /\ bin' = Assembled(proj) /\ UNCHANGED << proj, orig >>
    BY <1>4 DEF Write
  <2>2. /\ IsProject(proj) /\ Spanned(proj) /\ Carries(proj) /\ IsFiniteSet(DOMAIN orig)
        /\ Shape(proj) = Slots(orig) /\ Readable(orig)
    BY <2>1, TypeOKOf DEF TypeInv, SpanInv, CarryInv, SlotInv
  <2>3. \A k \in DOMAIN proj.Modules : proj.Modules[k].StreamName = "" => proj.Modules[k].Name = ""
    <3> DEFINE dm == DirModules(DirPlain(orig))
    <3>1. DOMAIN Shape(proj) = DOMAIN proj.Modules /\ DOMAIN Slots(orig) = DOMAIN dm
      BY DEF Shape, Slots
    <3>2. /\ \A k \in DOMAIN proj.Modules : /\ Shape(proj)[k].Name = proj.Modules[k].Name
                                            /\ Shape(proj)[k].StreamName = proj.Modules[k].StreamName
          /\ \A k \in DOMAIN dm : /\ Slots(orig)[k].Name = dm[k].Name
                                  /\ Slots(orig)[k].StreamName = StreamOf(dm[k])
      BY DEF Shape, Slots
    <3> HIDE DEF dm
    <3> QED
      BY <2>2, <3>1, <3>2 DEF StreamOf
  <2>4. Slots(bin') = Slots(orig)
    BY <2>1, <2>2, <2>3, WrittenSlots
  <2> QED
    BY <2>1, <2>2, <2>4 DEF SlotInv
<1>5. CASE HostSave
  <2>1. IsFile(bin) /\ Keeps(bin)
    BY DEF TypeInv, TypeOK, CarryInv
  <2>2. Slots(bin') = Slots(bin) /\ UNCHANGED << proj, orig >> /\ Readable(bin)
    BY <1>5, <2>1, HostSlots DEF HostSave
  <2> QED
    BY <2>2 DEF SlotInv
<1>6. CASE UNCHANGED vars
  BY <1>6 DEF vars, SlotInv
<1> QED
  BY <1>1, <1>2, <1>3, <1>4, <1>5, <1>6 DEF Next

\* However often the sources are edited, saved and read again, the modules
\* keep the names, streams and kinds that they have in the first file.
THEOREM SlotInvariant ==
  ASSUME Edits \subseteq {"Source", "CodePage"}
  PROVE  Spec => []SlotInv
<1>1. Init => SlotInv
  BY DEF Init, SlotInv
<1>2. TypeInv /\ SpanInv /\ SlotInv /\ [Next]_vars => SlotInv'
  BY SlotStep
<1> QED
  BY <1>1, <1>2, TypeCorrect, CarryInvariant, SpanInvariant, PTL DEF Spec, TypeInv

\* What the documentation calls fully supported is: from coherent files, a
\* caller who edits sources and the codepage is refused only for protection,
\* for a name that is not ASCII, for a source without an encoding, for data
\* that Compress refuses, or for a file whose FAT the header cannot list.
THEOREM SourceEditsSavableHolds ==
  ASSUME Edits \subseteq {"Source", "CodePage"}, \A b \in Inputs : Coherent(b)
  PROVE  Spec => []SourceEditsSavable
<1>1. TypeInv /\ SpanInv /\ SlotInv => SourceEditsSavable
  <2> SUFFICES ASSUME TypeInv, SpanInv, SlotInv, proj # NoProject, WithinLimits(proj)
               PROVE  Writable(proj)
    BY DEF SourceEditsSavable
  <2>1. /\ IsProject(proj) /\ IsFiniteSet(DOMAIN orig) /\ Readable(orig) /\ Coherent(orig)
        /\ proj.RawStreams = Opaque(orig) /\ proj.ProjectStreamRaw = Lines(orig)
        /\ Shape(proj) = Slots(orig)
    BY TypeOKOf DEF TypeInv, CarryInv, Carries, SpanInv, SlotInv
  <2>2. checkModuleSet(proj) /\ ~TreeRejects(AddedPaths(proj), TooLong)
    BY <2>1, SlotsFit
  <2> QED
    BY <2>2 DEF Writable, WithinLimits
<1> QED
  BY <1>1, SlotInvariant, TypeCorrect, CarryInvariant, SpanInvariant, PTL DEF TypeInv

-----------------------------------------------------------------------------
(***************************************************************************)
(* VbaImport implements EditContract, and the history of its imports does  *)
(* not show: for every set of files, texts and codepage tables, and every  *)
(* sequence of imports, reads, writes and saves by the host.               *)
(***************************************************************************)

Named(p) ==
  \A k \in DOMAIN p.Modules : p.Modules[k].Name # "" /\ p.Modules[k].StreamName # ""

IsRecord(p) == p = [f \in Fields |-> p[f]]

StreamsAreCells(b) == \A path \in DOMAIN b : firstSegment(path) = "VBA" => IsCells(b[path])

\* The mapping needs to know that the spans of the Project are those of the
\* file, so that a Write changes no payload, and that the file is as the host
\* relies on, so that its save changes nothing that Read sees.
ContractInv ==
  /\ view = View(bin, proj)
  /\ HostEntries(bin) /\ StreamsAreCells(bin)
  /\ proj # NoProject =>
       /\ CodePageKept /\ Named(proj) /\ Readable(bin)
       /\ ProjectInfoRaw(DirPlain(bin)) = proj.ProjectInfoRaw
       /\ RefsRaw(DirPlain(bin)) = proj.ReferencesRaw

-----------------------------------------------------------------------------
(***************************************************************************)
(* A save by the host.                                                     *)
(***************************************************************************)

\* The last cell of a stream, as Read takes it at an offset that leaves one.
LEMMA LastCell ==
  ASSUME NEW cells, IsCells(cells), NEW o \in Nat, o <= Len(cells),
         Len(SubSeq(cells, o + 1, Len(cells))) = 1
  PROVE  /\ SubSeq(cells, o + 1, Len(cells)) = << Last(cells) >>
         /\ Len(cells) \in Nat \ {0}
<1> DEFINE n == Len(cells)
           S == {cells[i] : i \in 1 .. n}
           t == SubSeq(cells, o + 1, n)
<1>1. n \in Nat
  BY DEF IsCells
<1>2. \A i \in o + 1 .. n : cells[i] \in S
  BY <1>1
<1> HIDE DEF S, n
<1>3. /\ t \in Seq(S) /\ Len(t) = (IF o + 1 <= n THEN n - (o + 1) + 1 ELSE 0)
      /\ \A i \in 1 .. n - (o + 1) + 1 : t[i] = cells[o + 1 + i - 1]
  BY <1>1, <1>2, SubSeqProperties
<1>4. Len(t) = 1
  BY DEF n
<1> HIDE DEF t
<1>5. o + 1 = n
  <2>1. (IF o + 1 <= n THEN n - (o + 1) + 1 ELSE 0) = 1
    BY <1>3, <1>4
  <2> QED
    BY <1>1, <2>1
<1>6. 1 \in 1 .. n - (o + 1) + 1 /\ o + 1 + 1 - 1 = n
  BY <1>1, <1>5
<1>7. t[1] = cells[n]
  BY <1>3, <1>6
<1>8. t = << t[1] >>
  BY <1>3, <1>4, LenProperties
<1>9. t = << Last(cells) >>
  BY <1>7, <1>8 DEF Last, n
<1> QED
  BY <1>1, <1>5, <1>9 DEF t, n

\* Short sequences of cells.
LEMMA ShortCells ==
  ASSUME NEW x, NEW y, NEW z
  PROVE  /\ IsCells(<< x >>) /\ IsCells(<< x, y, z >>)
         /\ Len(<< x, y, z >>) = 3 /\ SubSeq(<< x, y, z >>, 2 + 1, 3) = << z >>
<1>1. IsCells(<< x >>)
  BY DEF IsCells
<1>2. IsCells(<< x, y, z >>) /\ Len(<< x, y, z >>) = 3
  BY DEF IsCells
<1>3. SubSeq(<< x, y, z >>, 2 + 1, 3) = << z >>
  <2> DEFINE s == << x, y, z >>
  <2>1. Last(s) = z
    BY DEF Last
  <2>2. /\ SubSeq(s, 3, 3) \in Seq({x, y, z}) /\ Len(SubSeq(s, 3, 3)) = 1
        /\ SubSeq(s, 3, 3)[1] = z
    <3>1. \A i \in 3 .. 3 : s[i] \in {x, y, z}
      OBVIOUS
    <3>2. /\ SubSeq(s, 3, 3) \in Seq({x, y, z})
          /\ Len(SubSeq(s, 3, 3)) = (IF 3 <= 3 THEN 3 - 3 + 1 ELSE 0)
          /\ \A i \in 1 .. 3 - 3 + 1 : SubSeq(s, 3, 3)[i] = s[3 + i - 1]
      <4> HIDE DEF s
      <4> QED
        BY <3>1, SubSeqProperties
    <3>3. s[3] = z
      OBVIOUS
    <3> HIDE DEF s
    <3> QED
      BY <3>2, <3>3
  <2> HIDE DEF s
  <2>3. SubSeq(s, 3, 3) = << z >>
    <3> DEFINE t == SubSeq(s, 3, 3)
    <3>1. t \in Seq({x, y, z}) /\ Len(t) = 1 /\ t[1] = z
      BY <2>2
    <3> HIDE DEF t
    <3>2. t = << t[1] >>
      BY <3>1, LenProperties
    <3> QED
      BY <3>1, <3>2 DEF t
  <2>4. 2 + 1 = 3
    OBVIOUS
  <2> QED
    BY <2>3, <2>4 DEF s
<1> QED
  BY <1>1, <1>2, <1>3

\* The host's save changes where the sources stand and nothing that Read sees.
LEMMA HostInvisible ==
  ASSUME IsFile(bin), Ordered(bin), HostEntries(bin), StreamsAreCells(bin), Keeps(bin), HostSave
  PROVE  /\ Readable(bin') /\ Decomposed(bin') = Decomposed(bin)
         /\ HostEntries(bin') /\ StreamsAreCells(bin')
<1> DEFINE plain == DirPlain(bin)
           dm == DirModules(plain)
           sources == {ModulePath(StreamOf(dm[k])) : k \in DOMAIN dm}
           new == WithOffset(plain, PCodeLen)
           ndm == DirModules(new)
           b == bin'
           cp == CodePage(plain)
<1>1. b = [path \in DOMAIN bin \cup {CachePath} |->
                  IF path = DirPath THEN << Compressed(new) >>
                  ELSE IF path \in sources THEN << PCode, PCode, Last(bin[path]) >>
                  ELSE IF path = CachePath THEN << PCode >>
                  ELSE bin[path]]
  BY DEF HostSave, WithOffset
<1>2. /\ {ProjectPath, DirPath} \subseteq DOMAIN bin /\ IsContainer(bin[DirPath])
      /\ PT!CmgReadable(Lines(bin))
      /\ \A k \in DOMAIN dm : ModuleReadable(bin, dm[k], cp)
  BY DEF HostSave, Readable
<1>3. IsDir(plain) /\ IsOrdered(plain) /\ HasOffsets(plain)
  BY <1>2 DEF IsFile, Ordered, HostEntries
<1>4. \A k \in DOMAIN dm : dm[k].Name # "" /\ ModulePath(StreamOf(dm[k])) # DirPath
  BY <1>2 DEF HostEntries
<1>5. Opaque(b) = Opaque(bin) /\ Lines(b) = Lines(bin) /\ ProjectPath \in DOMAIN b
  BY <1>2, HostKeeps DEF Keeps, HostSave
<1>6. dm \in Seq([Name : STRING, StreamName : STRING, Offset : Nat, TypeID : Nat])
  BY <1>3, StringsAssumption, DirModulesType DEF StringsAssumption
<1>7. \A k \in DOMAIN dm : dm[k].Offset \in Nat
  <2> DEFINE D == [Name : STRING, StreamName : STRING, Offset : Nat, TypeID : Nat]
  <2>1. dm \in Seq(D)
    BY <1>6
  <2> HIDE DEF dm, D
  <2>2. \A k \in DOMAIN dm : dm[k] \in D
    BY <2>1, ElementOfSeq, LenProperties
  <2> QED
    BY <2>2 DEF D
<1>8. /\ IsDir(new) /\ HasOffsets(new)
      /\ ProjectInfoRaw(new) = ProjectInfoRaw(plain) /\ RefsRaw(new) = RefsRaw(plain)
      /\ RefNames(new) = RefNames(plain) /\ CodePage(new) = cp
      /\ ndm = [k \in DOMAIN dm |-> [Name |-> dm[k].Name, StreamName |-> dm[k].StreamName,
                                     Offset |-> PCodeLen, TypeID |-> dm[k].TypeID]]
  BY <1>3, Reoffset DEF PCodeLen
<1> HIDE DEF b, sources, dm, new, ndm
<1>9. b[DirPath] = << Compressed(new) >> /\ DirPath \in DOMAIN b
  BY <1>1, <1>2
<1>10. DirPlain(b) = new /\ IsContainer(b[DirPath])
  BY <1>9, OneContainer DEF DirPlain
<1>11. /\ DOMAIN ndm = DOMAIN dm
       /\ \A k \in DOMAIN dm : /\ ndm[k].Name = dm[k].Name /\ ndm[k].Offset = 2
                               /\ StreamOf(ndm[k]) = StreamOf(dm[k])
  BY <1>8 DEF PCodeLen, StreamOf
<1> HIDE DEF plain, cp
<1>12. ASSUME NEW k \in DOMAIN dm
       PROVE  /\ Source(b, ndm[k]) = Source(bin, dm[k])
              /\ ModuleReadable(b, ndm[k], cp)
  <2> DEFINE path == ModulePath(StreamOf(dm[k]))
             raw == bin[path]
             o == dm[k].Offset
             x == Last(raw)
  <2>1. /\ path \in DOMAIN bin /\ o <= Len(raw) /\ Source(bin, dm[k]) = SubSeq(raw, o + 1, Len(raw))
        /\ IsContainer(Source(bin, dm[k])) /\ cp \in CodePages
        /\ Source(bin, dm[k])[1].of \in Bytes
        /\ Decoding[cp][Source(bin, dm[k])[1].of] # NoText
    BY <1>2 DEF ModuleReadable, Source
  <2>2. IsCells(raw)
    BY <2>1, PathsKnown DEF StreamsAreCells
  <2>3. path \in sources /\ path # DirPath
    BY <1>4 DEF sources
  <2>4. b[path] = << PCode, PCode, x >> /\ path \in DOMAIN b
    BY <1>1, <2>1, <2>3
  <2>5. Source(bin, dm[k]) = << x >>
    <3>1. Len(SubSeq(raw, o + 1, Len(raw))) = 1
      BY <2>1 DEF IsContainer
    <3> HIDE DEF raw, o
    <3>2. SubSeq(raw, o + 1, Len(raw)) = << Last(raw) >>
      BY <1>7, <2>1, <2>2, <3>1, LastCell DEF o
    <3> QED
      BY <2>1, <3>2
  <2>6. /\ Source(b, ndm[k]) = SubSeq(b[path], 2 + 1, Len(b[path]))
        /\ ModulePath(StreamOf(ndm[k])) = path /\ ndm[k].Offset = 2
    BY <1>11 DEF Source
  <2> HIDE DEF path, raw, x
  <2>7. Source(b, ndm[k]) = << x >> /\ Len(b[path]) = 3
    BY <2>4, <2>6, ShortCells
  <2>8. ndm[k].Offset <= Len(b[path])
    BY <2>6, <2>7
  <2> QED
    BY <2>1, <2>4, <2>5, <2>6, <2>7, <2>8 DEF ModuleReadable
<1>13. Readable(b)
  <2>1. PT!CmgReadable(Lines(b))
    BY <1>2, <1>5
  <2>2. \A k \in DOMAIN DirModules(DirPlain(b)) :
          ModuleReadable(b, DirModules(DirPlain(b))[k], CodePage(DirPlain(b)))
    BY <1>8, <1>10, <1>11, <1>12 DEF ndm
  <2> QED
    BY <1>5, <1>9, <1>10, <2>1, <2>2 DEF Readable
<1>14. \A name : classify(b, name) = classify(bin, name)
  <2>1. \A name : FramePath(name) \in DOMAIN b <=> FramePath(name) \in DOMAIN bin
    <3>1. \A name : FramePath(name) # CachePath
      BY DEF FramePath, CachePath
    <3> QED
      BY <1>1, <3>1
  <2> QED
    BY <1>5, <2>1, Zenon DEF classify
<1>15. \A k \in DOMAIN dm : Module(b, ndm[k]) = Module(bin, dm[k])
  <2>1. CodePage(DirPlain(b)) = CodePage(DirPlain(bin))
    BY <1>8, <1>10 DEF cp, plain
  <2> QED
    BY <1>11, <1>12, <1>14, <2>1 DEF Module
<1>16. Decomposed(b) = Decomposed(bin)
  <2>1. [k \in DOMAIN ndm |-> Module(b, ndm[k])] = [k \in DOMAIN dm |-> Module(bin, dm[k])]
    BY <1>11, <1>15
  <2>2. /\ DirModules(DirPlain(b)) = ndm /\ DirModules(DirPlain(bin)) = dm
        /\ RefNames(DirPlain(b)) = RefNames(DirPlain(bin))
        /\ RefsRaw(DirPlain(b)) = RefsRaw(DirPlain(bin))
        /\ ProjectInfoRaw(DirPlain(b)) = ProjectInfoRaw(DirPlain(bin))
        /\ CodePage(DirPlain(b)) = CodePage(DirPlain(bin))
    BY <1>8, <1>10 DEF plain, cp, ndm, dm
  <2> QED
    BY <1>5, <2>1, <2>2 DEF Decomposed
<1>17. HostEntries(b)
  BY <1>4, <1>8, <1>10, <1>11 DEF HostEntries, ndm
<1>18. StreamsAreCells(b)
  <2> SUFFICES ASSUME NEW path \in DOMAIN b, firstSegment(path) = "VBA"
               PROVE  IsCells(b[path])
    BY DEF StreamsAreCells
  <2>1. CASE path = DirPath
    BY <1>9, <2>1, ShortCells
  <2>2. CASE path # DirPath /\ path \in sources
    <3>1. b[path] = << PCode, PCode, Last(bin[path]) >>
      BY <1>1, <2>2
    <3>2. IsCells(<< PCode, PCode, Last(bin[path]) >>)
      BY ShortCells
    <3> QED
      BY <3>1, <3>2, Zenon
  <2>3. CASE path # DirPath /\ path \notin sources /\ path = CachePath
    <3>1. b[path] = << PCode >>
      BY <1>1, <2>3
    <3> QED
      BY <3>1, ShortCells
  <2>4. CASE path # DirPath /\ path \notin sources /\ path # CachePath
    <3>1. b[path] = bin[path] /\ path \in DOMAIN bin
      BY <1>1, <2>4
    <3> QED
      BY <3>1 DEF StreamsAreCells
  <2> QED
    BY <2>1, <2>2, <2>3, <2>4
<1> QED
  BY <1>13, <1>16, <1>17, <1>18 DEF b
-----------------------------------------------------------------------------
(***************************************************************************)
(* Read and Write.                                                         *)
(***************************************************************************)

\* What Read returns for a file as the host relies on.
LEMMA ReadShows ==
  ASSUME NEW b, IsFile(b), Ordered(b), HostEntries(b), Readable(b)
  PROVE  LET d == Decomposed(b)
         IN  /\ d.CodePage = CodePage(d.ProjectInfoRaw) /\ Named(d)
             /\ d.ProjectInfoRaw = ProjectInfoRaw(DirPlain(b))
             /\ d.ReferencesRaw = RefsRaw(DirPlain(b))
             /\ IsProject(d) /\ IsRecord(d)
<1> DEFINE plain == DirPlain(b)
           dm == DirModules(plain)
           d == Decomposed(b)
<1>1. /\ DirPath \in DOMAIN b /\ IsContainer(b[DirPath])
      /\ IsDir(plain) /\ IsOrdered(plain)
  BY DEF Readable, IsFile, Ordered
<1>2. \A k \in DOMAIN dm : dm[k].Name # ""
  BY <1>1 DEF HostEntries
<1>3. CodePage(plain) = CodePage(ProjectInfoRaw(plain))
  BY <1>1, ReadSplit
<1>4. /\ d.Modules = [k \in DOMAIN dm |-> Module(b, dm[k])]
      /\ d.CodePage = CodePage(plain)
      /\ d.ProjectInfoRaw = ProjectInfoRaw(plain)
      /\ d.ReferencesRaw = RefsRaw(plain)
      /\ d = [f \in Fields |-> d[f]]
  BY DEF Decomposed, Fields
<1>5. IsProject(d)
  BY ReadType
<1> HIDE DEF d, dm
<1>6. \A k \in DOMAIN dm : /\ Module(b, dm[k]).Name = dm[k].Name
                           /\ Module(b, dm[k]).StreamName = StreamOf(dm[k])
  BY DEF Module
<1>7. \A k \in DOMAIN dm : StreamOf(dm[k]) # ""
  BY <1>2 DEF StreamOf
<1>8. Named(d)
  <2> SUFFICES ASSUME NEW k \in DOMAIN d.Modules
               PROVE  d.Modules[k].Name # "" /\ d.Modules[k].StreamName # ""
    BY DEF Named
  <2>1. k \in DOMAIN dm /\ d.Modules[k] = Module(b, dm[k])
    BY <1>4
  <2>2. /\ Module(b, dm[k]).Name # ""
        /\ Module(b, dm[k]).StreamName # ""
    BY <1>2, <1>6, <1>7, <2>1
  <2> QED
    BY <2>1, <2>2
<1>9. /\ d.CodePage = CodePage(d.ProjectInfoRaw) /\ Named(d)
      /\ d.ProjectInfoRaw = ProjectInfoRaw(DirPlain(b))
      /\ d.ReferencesRaw = RefsRaw(DirPlain(b))
      /\ IsProject(d) /\ IsRecord(d)
  BY <1>3, <1>4, <1>5, <1>8 DEF IsRecord
<1> QED
  BY <1>9 DEF d

\* What Write returns for a Project whose spans have no MODULEOFFSET is such a
\* file.
LEMMA WrittenEntries ==
  ASSUME NEW p, IsProject(p), Carries(p), Spanned(p), Writable(p), Named(p),
         IsFiniteSet(DOMAIN orig),
         At(p.ProjectInfoRaw, {"MODULEOFFSET"}) = {},
         At(p.ReferencesRaw, {"MODULEOFFSET"}) = {}
  PROVE  HostEntries(Assembled(p)) /\ StreamsAreCells(Assembled(p))
<1> DEFINE b == Assembled(p)
           plain == DirPlain(b)
           dm == DirModules(plain)
<1>1. /\ \A path \in DOMAIN p.RawStreams : firstSegment(path) \notin {"VBA", "PROJECT"}
      /\ DOMAIN p.RawStreams \subseteq DOMAIN orig
  BY DEF Carries, Opaque
<1>2. IsFiniteSet(DOMAIN p.RawStreams)
  BY <1>1, FS_Subset
<1>3. /\ DOMAIN b = DOMAIN p.RawStreams \cup OwnPaths(p)
      /\ \A path \in DOMAIN b : b[path] = Content(p, path)
  BY DEF Assembled
<1>4. b[DirPath] = << Compressed(BuiltDir(p)) >>
  BY <1>1, <1>2, AssembledAt
<1> HIDE DEF b
<1>5. plain = BuiltDir(p)
  BY <1>4, OneContainer DEF DirPlain
<1> HIDE DEF plain
<1>6. /\ HasOffsets(plain)
      /\ dm = [k \in 1 .. Len(p.Modules) |->
                 [Name |-> p.Modules[k].Name, StreamName |-> p.Modules[k].StreamName,
                  Offset |-> 0, TypeID |-> moduleTypeID(p.Modules[k].Type)]]
  BY <1>5, BuiltSpans
<1>7. DOMAIN p.Modules = 1 .. Len(p.Modules)
  BY SpecsType
<1> HIDE DEF dm
<1>8. /\ DOMAIN dm = DOMAIN p.Modules
      /\ \A k \in DOMAIN dm : /\ dm[k].Name = p.Modules[k].Name
                              /\ dm[k].StreamName = p.Modules[k].StreamName
  BY <1>6, <1>7
<1>9. \A k \in DOMAIN dm : /\ dm[k].Name # ""
                           /\ StreamOf(dm[k]) = p.Modules[k].StreamName
  BY <1>8 DEF Named, StreamOf
<1>10. \A k \in DOMAIN p.Modules : ModulePath(p.Modules[k].StreamName) # DirPath
  BY <1>2, PathsApart DEF Writable
<1>11. HostEntries(b)
  BY <1>6, <1>8, <1>9, <1>10 DEF HostEntries, plain, dm
<1>12. ASSUME NEW path \in DOMAIN b, firstSegment(path) = "VBA"
       PROVE  IsCells(b[path])
  <2>1. path \notin DOMAIN p.RawStreams /\ path # ProjectPath
    BY <1>1, <1>12, PathsKnown
  <2>2. \/ Content(p, path) = Stub
        \/ \E x : Content(p, path) = << Compressed(x) >>
    BY <2>1 DEF Content
  <2> QED
    BY <1>3, <2>2, ShortCells DEF Stub
<1> QED
  BY <1>11, <1>12 DEF StreamsAreCells, b
-----------------------------------------------------------------------------
(***************************************************************************)
(* An edit of one source.                                                  *)
(***************************************************************************)

\* A Project is told apart from NoProject, and so is its document.
ProjectsKnown ==
  \A p : IsProject(p) /\ IsRecord(p) => NoProject \notin {p, Document(p)}

SourceSet(p, k, x) == [p EXCEPT !.Modules[k].Source = x]

\* q is p with the source x in its module k.
Replaces(q, p, k, x) ==
  /\ IsProject(q) /\ Spanned(q) /\ Named(q) /\ q.CodePage = p.CodePage
  /\ q.ProjectInfoRaw = p.ProjectInfoRaw /\ q.ReferencesRaw = p.ReferencesRaw
  /\ \E ms : q = [p EXCEPT !.Modules = ms]
  /\ k \in DOMAIN Document(p)
  /\ Document(q) = [Document(p) EXCEPT ![k].source = x]
  /\ DOMAIN q.Modules = DOMAIN p.Modules
  /\ \A j \in DOMAIN p.Modules :
       /\ q.Modules[j].Name = p.Modules[j].Name
       /\ q.Modules[j].Type = p.Modules[j].Type
       /\ q.Modules[j].Source = IF j = k THEN x ELSE p.Modules[j].Source

LEMMA SourceSetIs ==
  ASSUME NEW p, IsProject(p), IsRecord(p), Spanned(p), Named(p),
         NEW k \in DOMAIN p.Modules, NEW x \in Texts
  PROVE  Replaces(SourceSet(p, k, x), p, k, x)
<1> USE DEF IsRecord
<1> DEFINE ms == p.Modules
           new == [ms EXCEPT ![k].Source = x]
           q == SourceSet(p, k, x)
<1>1. q = [p EXCEPT !.Modules = new]
  BY DEF SourceSet
<1> HIDE DEF q
<1>2. /\ ms \in Seq(ModuleType) /\ Len(ms) \in Nat /\ DOMAIN ms = 1 .. Len(ms)
      /\ \A j \in DOMAIN ms : ms[j] \in ModuleType
  BY SpecsType DEF IsProject
<1>3. [ms[k] EXCEPT !.Source = x] \in ModuleType
  BY <1>2 DEF ModuleType
<1>4. new = [ms EXCEPT ![k] = [ms[k] EXCEPT !.Source = x]]
  OBVIOUS
<1>5. new \in Seq(ModuleType)
  <2> HIDE DEF ms, new
  <2> QED
    BY <1>2, <1>3, <1>4, ExceptSeq DEF ms
<1>6. IsProject(q)
  <2> HIDE DEF new
  <2> QED
    BY <1>1, <1>5, EditType
<1>7. /\ q.Modules = new /\ q.CodePage = p.CodePage
      /\ q.ProjectInfoRaw = p.ProjectInfoRaw /\ q.ReferencesRaw = p.ReferencesRaw
      /\ q.References = p.References
  <2> HIDE DEF new
  <2> QED
    BY <1>1 DEF Fields
<1>8. Spanned(q)
  BY <1>7 DEF Spanned
<1>9. /\ DOMAIN new = DOMAIN ms
      /\ \A j \in DOMAIN ms :
           /\ new[j].Name = ms[j].Name /\ new[j].StreamName = ms[j].StreamName
           /\ new[j].Type = ms[j].Type
           /\ new[j].Source = IF j = k THEN x ELSE ms[j].Source
  <2>1. DOMAIN new = DOMAIN ms
    BY <1>2
  <2>2. ASSUME NEW j \in DOMAIN ms
        PROVE  new[j] = IF j = k THEN [ms[k] EXCEPT !.Source = x] ELSE ms[j]
    BY <1>2, <1>4
  <2>3. LET m == [ms[k] EXCEPT !.Source = x]
        IN  /\ m.Name = ms[k].Name /\ m.StreamName = ms[k].StreamName
            /\ m.Type = ms[k].Type /\ m.Source = x
    BY <1>2 DEF ModuleType
  <2> HIDE DEF new, ms
  <2> QED
    BY <2>1, <2>2, <2>3
<1> HIDE DEF new
<1>10. Named(q)
  BY <1>7, <1>9 DEF Named
<1>11. k \in DOMAIN Document(p) /\ DOMAIN Document(p) = DOMAIN ms
  BY DEF Document
<1>12. Document(q) = [Document(p) EXCEPT ![k].source = x]
  <2> DEFINE row(m) == [name |-> m.Name, kind |-> m.Type, source |-> m.Source]
  <2>1. /\ Document(p) = [j \in DOMAIN ms |-> row(ms[j])]
        /\ Document(q) = [j \in DOMAIN new |-> row(new[j])]
    BY <1>7 DEF Document
  <2>2. ASSUME NEW j \in DOMAIN ms
        PROVE  row(new[j]) = IF j = k THEN [row(ms[j]) EXCEPT !.source = x] ELSE row(ms[j])
    BY <1>9
  <2> HIDE DEF row
  <2>3. Document(q) = [j \in DOMAIN ms |->
                         IF j = k THEN [row(ms[j]) EXCEPT !.source = x] ELSE row(ms[j])]
    BY <1>9, <2>1, <2>2
  <2> DEFINE d == Document(p)
  <2>4. /\ d = [j \in DOMAIN ms |-> row(ms[j])] /\ k \in DOMAIN d
        /\ [d EXCEPT ![k].source = x] = [d EXCEPT ![k] = [d[k] EXCEPT !.source = x]]
    BY <2>1
  <2> HIDE DEF d, ms
  <2>5. [d EXCEPT ![k].source = x] = [j \in DOMAIN ms |->
                         IF j = k THEN [row(ms[j]) EXCEPT !.source = x] ELSE row(ms[j])]
    BY <2>4
  <2> QED
    BY <2>3, <2>5 DEF d
<1> QED
  BY <1>1, <1>6, <1>7, <1>8, <1>9, <1>10, <1>11, <1>12 DEF q, Replaces
\* An assignment to one source keeps the invariants of VbaProject.
LEMMA SourceStep ==
  ASSUME TypeInv, SpanInv, ContractInv, proj # NoProject, ProjectsKnown,
         NEW k \in DOMAIN proj.Modules, NEW x \in Texts, Becomes(SourceSet(proj, k, x))
  PROVE  /\ TypeInv' /\ SpanInv' /\ bin' = bin
         /\ proj' # NoProject /\ Named(proj') /\ proj'.CodePage = proj.CodePage
         /\ proj'.ProjectInfoRaw = proj.ProjectInfoRaw
         /\ proj'.ReferencesRaw = proj.ReferencesRaw
         /\ k \in DOMAIN Document(proj)
         /\ Document(proj') = [Document(proj) EXCEPT ![k].source = x]
<1>1. /\ IsProject(proj) /\ Carries(proj) /\ Spanned(proj) /\ Named(proj)
      /\ proj = [f \in Fields |-> proj[f]]
  BY TypeOKOf DEF TypeInv, CarryInv, Carries, SpanInv, ContractInv
<1>2. proj' = SourceSet(proj, k, x) /\ UNCHANGED << bin, orig >> /\ last' = "edit"
  BY DEF Becomes
<1>3. /\ IsProject(proj') /\ Spanned(proj') /\ Named(proj')
      /\ proj'.CodePage = proj.CodePage
      /\ proj'.ProjectInfoRaw = proj.ProjectInfoRaw
      /\ proj'.ReferencesRaw = proj.ReferencesRaw
      /\ \E ms : proj' = [proj EXCEPT !.Modules = ms]
      /\ k \in DOMAIN Document(proj)
      /\ Document(proj') = [Document(proj) EXCEPT ![k].source = x]
  <2>1. Replaces(SourceSet(proj, k, x), proj, k, x)
    BY <1>1, SourceSetIs DEF IsRecord
  <2>2. Replaces(proj', proj, k, x)
    BY <1>2, <2>1
  <2> QED
    BY <2>2 DEF Replaces
<1>4. Carries(proj') /\ Carries(proj)'
  <2>1. \A v : Carries([proj EXCEPT !["Modules"] = v])
    BY <1>1, EditCarries
  <2>2. Carries(proj')
    BY <1>3, <2>1
  <2> QED
    BY <1>2, <2>2 DEF Carries
<1>5. proj' # NoProject
  BY <1>3, <1>4 DEF Carries, IsRecord, ProjectsKnown
<1>6. TypeOK'
  BY <1>2, <1>3, TypeOKOf DEF TypeInv, TypeOK, IsProject, ModuleType, Outcomes
<1>7. CarryInv'
  BY <1>2, <1>4 DEF TypeInv, CarryInv, Keeps
<1>8. SpanInv'
  BY <1>2, <1>3 DEF SpanInv, Ordered, Spanned
<1> QED
  BY <1>2, <1>3, <1>5, <1>6, <1>7, <1>8 DEF TypeInv

\* An import assigns a text to one source, or fails and changes nothing.
LEMMA ImportSets ==
  ASSUME TypeInv, proj # NoProject, NEW k \in DOMAIN proj.Modules,
         NEW disk \in Disks[proj.Modules[k].Type], NEW existing \in Existing(k),
         Import(k, disk, existing)
  PROVE  \E x \in Texts : Becomes(SourceSet(proj, k, x))
<1>1. proj.Modules[k].Type \in ModuleTypes /\ proj.Modules[k].Source \in Texts
  <2>1. IsProject(proj)
    BY TypeOKOf DEF TypeInv
  <2>2. proj.Modules[k] \in ModuleType
    BY <2>1, SpecsType
  <2> QED
    BY <2>2 DEF ModuleType
<1>2. existing \in Texts \cup {<< >>}
  BY <1>1 DEF Existing
<1>3. NormalizeModuleSource(proj.Modules[k].Type, disk, existing) \in Texts
  BY <1>1, <1>2, ImportsAssumption DEF ImportsAssumption, Import
<1> QED
  BY <1>3 DEF Import, SourceSet

-----------------------------------------------------------------------------
(***************************************************************************)
(* The refinement.                                                         *)
(***************************************************************************)

LEMMA ViewIs ==
  \A b, p :
    /\ View(b, p).stored = IF Readable(b) THEN Document(Decomposed(b)) ELSE NoProject
    /\ View(b, p).buffer = IF p = NoProject THEN NoProject ELSE Document(p)
    /\ View(b, p).payload = Payload(b)
    /\ View(b, p).locked = (ProjectPath \in DOMAIN b /\ PT!IsProtected(Lines(b)))
PROOF BY Zenon DEF View

ContractNext == [Contract!Open \/ Contract!EditOne \/ Contract!Save]_(Contract!vars)

\* What is left alone when the file is.
LEMMA SameFile ==
  ASSUME view = View(bin, proj), view' = View(bin', proj'), bin' = bin
  PROVE  /\ view'.stored = view.stored /\ view'.payload = view.payload
         /\ view'.locked = view.locked
         /\ proj' = proj => view'.buffer = view.buffer
PROOF BY ViewIs

\* A file of the same first file that reads with the same spans.
LEMMA SamePayload ==
  ASSUME Keeps(bin), Keeps(bin)', orig' = orig, Readable(bin), Readable(bin'),
         ProjectInfoRaw(DirPlain(bin')) = ProjectInfoRaw(DirPlain(bin)),
         RefsRaw(DirPlain(bin')) = RefsRaw(DirPlain(bin)),
         view = View(bin, proj), view' = View(bin', proj')
  PROVE  view'.payload = view.payload /\ view'.locked = view.locked
<1>1. /\ Opaque(bin') = Opaque(bin)
      /\ ProjectPath \in DOMAIN bin /\ ProjectPath \in DOMAIN bin'
      /\ Lines(bin') = Lines(bin)
  BY DEF Keeps, Readable
<1>2. Payload(bin') = Payload(bin)
  BY <1>1 DEF Payload
<1> QED
  BY <1>1, <1>2, ViewIs
Inv == TypeInv /\ SpanInv /\ ContractInv

LEMMA InitMaps ==
  ASSUME Init, view = View(bin, proj)
  PROVE  Inv /\ Contract!Init
<1>1. TypeInv
  BY InputsAssumption
     DEF InputsAssumption, Init, TypeInv, TypeOK, CarryInv, Keeps, Outcomes
<1>2. SpanInv
  BY HostFilesAssumption DEF HostFilesAssumption, Init, SpanInv, Ordered
<1>3. ContractInv
  BY HostEntriesAssumption
     DEF HostEntriesAssumption, Init, ContractInv, StreamsAreCells
<1>4. Contract!Init
  BY ViewIs DEF Contract!Init, Init
<1> QED
  BY <1>1, <1>2, <1>3, <1>4 DEF Inv

\* An assignment to one source, by an edit or an import, is EditOne.
LEMMA SourceMaps ==
  ASSUME ProjectsKnown, Inv, view' = View(bin', proj'), proj # NoProject,
         NEW k \in DOMAIN proj.Modules, NEW x \in Texts, Becomes(SourceSet(proj, k, x))
  PROVE  Inv' /\ Contract!EditOne
<1>1. /\ TypeInv' /\ SpanInv' /\ bin' = bin
      /\ proj' # NoProject /\ Named(proj') /\ proj'.CodePage = proj.CodePage
      /\ proj'.ProjectInfoRaw = proj.ProjectInfoRaw
      /\ proj'.ReferencesRaw = proj.ReferencesRaw
      /\ k \in DOMAIN Document(proj)
      /\ Document(proj') = [Document(proj) EXCEPT ![k].source = x]
  BY SourceStep DEF Inv
<1>2. ContractInv'
  BY <1>1 DEF Inv, ContractInv, CodePageKept, Named, StreamsAreCells
<1>3. Document(proj) # NoProject
  BY TypeOKOf DEF Inv, TypeInv, CarryInv, Carries, IsRecord, ProjectsKnown
<1>4. /\ view'.stored = view.stored /\ view'.payload = view.payload
      /\ view'.locked = view.locked
      /\ view.buffer = Document(proj) /\ view'.buffer = Document(proj')
  <2>1. view = View(bin, proj)
    BY DEF Inv, ContractInv
  <2>2. bin' = bin /\ proj' # NoProject
    BY <1>1
  <2>3. /\ view'.stored = view.stored /\ view'.payload = view.payload
        /\ view'.locked = view.locked
    BY <2>1, <2>2, SameFile
  <2> QED
    BY <2>1, <2>2, <2>3, ViewIs
<1>5. Contract!EditOne
  <2> DEFINE d == Document(proj)
             e == Document(proj')
  <2>1. k \in DOMAIN d /\ e = [d EXCEPT ![k].source = x]
    BY <1>1
  <2>2. view.buffer = d /\ view'.buffer = e /\ d # NoProject
    BY <1>3, <1>4
  <2> HIDE DEF d, e
  <2>3. \E j \in DOMAIN view.buffer, t \in Texts :
          view'.buffer = [view.buffer EXCEPT ![j].source = t]
    <3>1. k \in DOMAIN view.buffer /\ view'.buffer = [view.buffer EXCEPT ![k].source = x]
      BY <2>1, <2>2, Zenon
    <3> QED
      BY <3>1, Zenon
  <2> QED
    BY <1>4, <2>2, <2>3 DEF Contract!EditOne
<1> QED
  BY <1>1, <1>2, <1>5 DEF Inv

LEMMA ReadMaps ==
  ASSUME ProjectsKnown, Inv, view' = View(bin', proj'), Read
  PROVE  ContractInv' /\ Contract!Open
<1>1. /\ Readable(bin) /\ proj' = Decomposed(bin) /\ bin' = bin /\ orig' = orig
      /\ view = View(bin, proj) /\ HostEntries(bin) /\ StreamsAreCells(bin)
      /\ IsFile(bin) /\ Ordered(bin)
  BY DEF Read, Inv, TypeInv, TypeOK, SpanInv, ContractInv
<1> DEFINE d == Decomposed(bin)
<1>2. /\ d.CodePage = CodePage(d.ProjectInfoRaw) /\ Named(d)
      /\ d.ProjectInfoRaw = ProjectInfoRaw(DirPlain(bin))
      /\ d.ReferencesRaw = RefsRaw(DirPlain(bin))
      /\ IsProject(d) /\ IsRecord(d)
  BY <1>1, ReadShows
<1>3. NoProject # d /\ NoProject # Document(d)
  BY <1>2 DEF ProjectsKnown
<1> HIDE DEF d
<1>4. proj' = d
  BY <1>1 DEF d
<1>5. ContractInv'
  BY <1>1, <1>2, <1>4 DEF ContractInv, CodePageKept, Named, StreamsAreCells
<1>6. /\ view'.stored = view.stored /\ view'.payload = view.payload
      /\ view'.locked = view.locked
      /\ view.stored = Document(d) /\ view'.buffer = Document(d)
  BY <1>1, <1>3, <1>4, SameFile, ViewIs DEF d
<1>7. Contract!Open
  BY <1>3, <1>6 DEF Contract!Open
<1> QED
  BY <1>5, <1>7

\* Read finds in the file that Write returns the Project that the caller holds.
LEMMA WriteShows ==
  ASSUME Inv, Write
  PROVE  Readable(bin') /\ Decomposed(bin') = proj
<1>1. proj # NoProject /\ Writable(proj) /\ bin' = Assembled(proj)
  BY DEF Write
<1>2. /\ IsProject(proj) /\ Carries(proj) /\ Spanned(proj) /\ Named(proj)
      /\ ProjectPath \in DOMAIN orig /\ IsFiniteSet(DOMAIN orig) /\ PT!CmgReadable(Lines(orig))
      /\ proj.CodePage = CodePage(proj.ProjectInfoRaw)
  BY <1>1, TypeOKOf DEF Inv, TypeInv, CarryInv, SpanInv, ContractInv, CodePageKept
<1> QED
  BY <1>1, <1>2, WrittenReadsBack DEF Named

LEMMA WriteMaps ==
  ASSUME ProjectsKnown, Inv, view' = View(bin', proj'), Write
  PROVE  ContractInv' /\ Contract!Save
<1>1. /\ proj # NoProject /\ Writable(proj) /\ bin' = Assembled(proj)
      /\ proj' = proj /\ orig' = orig
  BY DEF Write
<1>2. /\ IsProject(proj) /\ Carries(proj) /\ Spanned(proj) /\ Named(proj)
      /\ ProjectPath \in DOMAIN orig /\ IsFiniteSet(DOMAIN orig)
      /\ proj.CodePage = CodePage(proj.ProjectInfoRaw)
      /\ view = View(bin, proj) /\ Keeps(bin)
      /\ Readable(bin) /\ HostEntries(bin) /\ IsFile(bin) /\ Ordered(bin)
      /\ ProjectInfoRaw(DirPlain(bin)) = proj.ProjectInfoRaw
      /\ RefsRaw(DirPlain(bin)) = proj.ReferencesRaw
  BY <1>1, TypeOKOf DEF Inv, TypeInv, CarryInv, SpanInv, ContractInv, CodePageKept
<1>3. Readable(bin') /\ Decomposed(bin') = proj
  BY WriteShows
<1>4. /\ ProjectInfoRaw(DirPlain(bin')) = proj.ProjectInfoRaw
      /\ RefsRaw(DirPlain(bin')) = proj.ReferencesRaw
  BY <1>3 DEF Decomposed
<1>5. HostEntries(bin') /\ StreamsAreCells(bin')
  <2> DEFINE r == DirPlain(bin)
  <2>1. IsDir(r) /\ IsOrdered(r) /\ HasOffsets(r)
    BY <1>2 DEF Readable, IsFile, Ordered, HostEntries
  <2>2. \A i \in At(r, {"MODULEOFFSET"}) : i > RefEnd(r)
    BY <2>1 DEF HasOffsets
  <2>3. /\ At(ProjectInfoRaw(r), {"MODULEOFFSET"}) = {}
        /\ At(RefsRaw(r), {"MODULEOFFSET"}) = {}
    BY <2>1, <2>2, ReadSplit
  <2> QED
    BY <1>1, <1>2, <2>3, WrittenEntries
<1>6. ContractInv'
  BY <1>1, <1>2, <1>3, <1>4, <1>5 DEF ContractInv, CodePageKept, Named, StreamsAreCells
<1>7. view'.payload = view.payload /\ view'.locked = view.locked
  <2>1. Keeps(bin)'
    BY <1>1, <1>2, AssembledKeeps DEF Keeps
  <2> QED
    BY <1>1, <1>2, <1>3, <1>4, <2>1, SamePayload
<1>8. /\ view'.stored = Document(proj) /\ view.buffer = Document(proj)
      /\ view'.buffer = Document(proj)
  BY <1>1, <1>2, <1>3, ViewIs
<1>9. view.buffer # NoProject
  BY <1>2, <1>8 DEF Carries, IsRecord, ProjectsKnown
<1>10. ~view.locked
  <2>1. ~PT!IsProtected(Lines(bin))
    BY <1>1, <1>2 DEF Writable, Carries, Keeps
  <2> QED
    BY <1>2, <2>1, ViewIs
<1> QED
  BY <1>6, <1>7, <1>8, <1>9, <1>10 DEF Contract!Save

\* What the host does not show, and the calls that fail, are stutters.
LEMMA HostStutters ==
  ASSUME Inv, view' = View(bin', proj'), HostSave
  PROVE  ContractInv' /\ UNCHANGED Contract!vars
<1>1. /\ IsFile(bin) /\ Ordered(bin) /\ HostEntries(bin) /\ StreamsAreCells(bin)
      /\ Keeps(bin) /\ view = View(bin, proj) /\ Readable(bin)
      /\ proj' = proj /\ orig' = orig
  BY DEF Inv, TypeInv, TypeOK, CarryInv, SpanInv, ContractInv, HostSave
<1>2. /\ Readable(bin') /\ Decomposed(bin') = Decomposed(bin)
      /\ HostEntries(bin') /\ StreamsAreCells(bin')
  BY <1>1, HostInvisible
<1>3. /\ ProjectInfoRaw(DirPlain(bin')) = ProjectInfoRaw(DirPlain(bin))
      /\ RefsRaw(DirPlain(bin')) = RefsRaw(DirPlain(bin))
  <2>1. \A b : /\ Decomposed(b).ProjectInfoRaw = ProjectInfoRaw(DirPlain(b))
               /\ Decomposed(b).ReferencesRaw = RefsRaw(DirPlain(b))
    BY DEF Decomposed
  <2> QED
    BY <1>2, <2>1, Zenon
<1>4. ContractInv'
  BY <1>1, <1>2, <1>3 DEF Inv, ContractInv, CodePageKept, Named, StreamsAreCells
<1>5. view'.payload = view.payload /\ view'.locked = view.locked
  <2>1. Keeps(bin)'
    BY <1>1, HostKeeps
  <2> QED
    BY <1>1, <1>2, <1>3, <2>1, SamePayload
<1>6. view'.stored = view.stored /\ view'.buffer = view.buffer
  BY <1>1, <1>2, ViewIs
<1> QED
  BY <1>4, <1>5, <1>6 DEF Contract!vars

LEMMA IdleStutters ==
  ASSUME Inv, view' = View(bin', proj'), UNCHANGED << bin, proj, orig >>
  PROVE  ContractInv' /\ UNCHANGED Contract!vars
<1>1. ContractInv'
  BY DEF Inv, ContractInv, CodePageKept, Named, StreamsAreCells
<1>2. view = View(bin, proj)
  BY DEF Inv, ContractInv
<1> QED
  BY <1>1, <1>2, SameFile DEF Contract!vars

ViewNext == ImportNext /\ \E b \in {bin'}, p \in {proj'} : view' = View(b, p)

\* Every step keeps the invariant and is one of the contract, or a stutter.
LEMMA ViewStep ==
  ASSUME Edits \subseteq {"Source"}, ProjectsKnown, Inv, [ViewNext]_<< vars, view >>
  PROVE  Inv' /\ ContractNext
<1>1. ASSUME ImportNext, view' = View(bin', proj')
      PROVE  Inv' /\ ContractNext
  <2>1. ASSUME Next
        PROVE  TypeInv' /\ SpanInv'
    BY <2>1, TypeStep, CarryStep, SpanStep DEF Inv, TypeInv
  <2>2. CASE Read
    BY <1>1, <2>1, <2>2, ReadMaps DEF Next, Inv, ContractNext
  <2>3. CASE ReadFails \/ WriteFails
    BY <1>1, <2>1, <2>3, IdleStutters DEF Next, ReadFails, WriteFails, Inv, ContractNext
  <2>4. CASE Edit
    <3>1. PICK k \in DOMAIN proj.Modules, x \in Texts : Becomes(SourceSet(proj, k, x))
      BY <2>4 DEF Edit, EditSource, EditStreamName, Rename, Retype, AddModule,
                  RemoveModule, EditCodePage, SourceSet
    <3> QED
      BY <1>1, <2>4, <3>1, SourceMaps DEF Edit, ContractNext
  <2>5. CASE Write
    BY <1>1, <2>1, <2>5, WriteMaps DEF Next, Inv, ContractNext
  <2>6. CASE HostSave
    BY <1>1, <2>1, <2>6, HostStutters DEF Next, Inv, ContractNext
  <2>7. ASSUME proj # NoProject, NEW k \in DOMAIN proj.Modules,
               NEW disk \in Disks[proj.Modules[k].Type], NEW existing \in Existing(k),
               Import(k, disk, existing)
        PROVE  Inv' /\ ContractNext
    <3>1. PICK x \in Texts : Becomes(SourceSet(proj, k, x))
      BY <2>7, ImportSets DEF Inv
    <3> QED
      BY <1>1, <2>7, <3>1, SourceMaps DEF ContractNext
  <2>8. ASSUME NEW k, NEW disk, NEW existing, ImportFails(k, disk, existing)
        PROVE  Inv' /\ ContractNext
    <3>1. UNCHANGED << bin, proj, orig >> /\ last' = "edit"
      BY <2>8 DEF ImportFails, Becomes
    <3>2. TypeInv' /\ SpanInv'
      BY <3>1 DEF Inv, TypeInv, TypeOK, CarryInv, Keeps, Carries, SpanInv, Ordered,
                  Spanned, Outcomes
    <3> QED
      BY <1>1, <3>1, <3>2, IdleStutters DEF Inv, ContractNext
  <2> QED
    BY <1>1, <2>2, <2>3, <2>4, <2>5, <2>6, <2>7, <2>8 DEF ImportNext, Next
<1>2. CASE UNCHANGED << vars, view >>
  <2>1. UNCHANGED << bin, proj, last, orig, view >>
    BY <1>2 DEF vars
  <2>2. TypeInv' /\ SpanInv' /\ ContractInv'
    BY <2>1 DEF Inv, TypeInv, TypeOK, CarryInv, Keeps, Carries, SpanInv, Ordered, Spanned,
                ContractInv, CodePageKept, Named, StreamsAreCells
  <2> QED
    BY <2>1, <2>2 DEF Inv, ContractNext, Contract!vars
<1> QED
  BY <1>1, <1>2 DEF ViewNext

\* For every set of files, texts and codepage tables, and every history of
\* imports, reads, writes and saves by the host, of a caller who edits nothing
\* but sources: each Write that succeeds stores every module of the buffer and
\* touches nothing else, and all that the host puts in between is invisible.
THEOREM ImplementsContractHolds ==
  ASSUME Edits \subseteq {"Source"}, ProjectsKnown
  PROVE  ViewSpec => ImplementsContract
<1>1. Init /\ view = View(bin, proj) => Inv /\ Contract!Init
  BY InitMaps
<1>2. Inv /\ [ViewNext]_<< vars, view >> => Inv' /\ ContractNext
  BY ViewStep
<1> QED
  BY <1>1, <1>2, PTL DEF ViewSpec, ViewNext, ImplementsContract, Contract!Spec, ContractNext

-----------------------------------------------------------------------------
(***************************************************************************)
(* Imports: what normalisation makes of its own results.                   *)
(***************************************************************************)

\* The attribute lines at the start of a text, and what stands behind them.
LEMMA HeaderIs ==
  ASSUME NEW S, NEW e \in Seq(S)
  PROVE  LET h == Header(e)
         IN  /\ h \in Seq(S) /\ Len(h) \in Nat /\ Len(h) <= Len(e)
             /\ \A k \in 1 .. Len(h) : h[k] = e[k] /\ IsAttribute(h[k])
<1> DEFINE others == {k \in DOMAIN e : ~IsAttribute(e[k])}
           h == Header(e)
<1>1. Len(e) \in Nat /\ DOMAIN e = 1 .. Len(e) /\ \A k \in 1 .. Len(e) : e[k] \in S
  BY LenProperties, ElementOfSeq
<1>2. CASE others = {}
  <2>1. h = e
    BY <1>2 DEF Header
  <2> QED
    BY <1>1, <1>2, <2>1
<1>3. CASE others # {}
  <2> DEFINE m == Min(others)
  <2>1. others \in SUBSET (1 .. Len(e))
    BY <1>1
  <2>2. m \in others /\ \A k \in others : m <= k
    <3>1. \E x \in others : \A y \in others : x <= y
      <4> HIDE DEF others
      <4>1. others \in SUBSET Nat
        BY <1>1, <2>1
      <4> QED
        BY <1>3, <4>1, LeastOf
    <3> QED
      BY <3>1 DEF Min
  <2>3. h = SubSeq(e, 1, m - 1)
    BY <1>3 DEF Header
  <2>4. m \in 1 .. Len(e)
    BY <2>1, <2>2
  <2>5. \A k \in 1 .. m - 1 : IsAttribute(e[k])
    <3> SUFFICES ASSUME NEW k \in 1 .. m - 1, ~IsAttribute(e[k])
                 PROVE  FALSE
      OBVIOUS
    <3>1. k \in 1 .. Len(e) /\ ~(m <= k)
      BY <1>1, <2>4
    <3>2. k \in DOMAIN e
      BY <1>1, <3>1
    <3>3. k \in others
      BY <3>2
    <3> QED
      BY <2>2, <3>1, <3>3
  <2> HIDE DEF m, h
  <2>6. \A i \in 1 .. m - 1 : e[i] \in S
    BY <1>1, <2>4
  <2>7. /\ h \in Seq(S) /\ Len(h) = (IF 1 <= m - 1 THEN m - 1 - 1 + 1 ELSE 0)
        /\ \A i \in 1 .. m - 1 - 1 + 1 : h[i] = e[1 + i - 1]
    BY <2>3, <2>4, <2>6, SubSeqProperties
  <2>8. Len(h) = m - 1
    BY <2>4, <2>7
  <2>9. \A i \in 1 .. m - 1 : h[i] = e[i]
    BY <2>4, <2>7
  <2> QED
    BY <1>1, <2>4, <2>5, <2>7, <2>8, <2>9 DEF h
<1> QED
  BY <1>2, <1>3

\* Code that begins with no attribute leaves the header as it is.
LEMMA HeaderJoin ==
  ASSUME NEW S, NEW h \in Seq(S), \A k \in 1 .. Len(h) : IsAttribute(h[k]),
         NEW c \in Seq(S), c # << >> => ~IsAttribute(c[1])
  PROVE  Header(h \o c) = h
<1> DEFINE t == h \o c
           others == {k \in DOMAIN t : ~IsAttribute(t[k])}
<1>1. Len(h) \in Nat /\ Len(c) \in Nat
  BY LenProperties
<1>2. /\ t \in Seq(S) /\ Len(t) = Len(h) + Len(c)
      /\ \A i \in 1 .. Len(h) : t[i] = h[i]
      /\ \A i \in 1 .. Len(c) : t[Len(h) + i] = c[i]
  BY ConcatIndex
<1>3. DOMAIN t = 1 .. Len(h) + Len(c)
  BY <1>2, LenProperties
<1> HIDE DEF t
<1>4. ASSUME NEW k \in others
      PROVE  k \in Nat /\ k > Len(h)
  <2>1. k \in 1 .. Len(h) + Len(c) /\ ~IsAttribute(t[k])
    BY <1>3
  <2>2. k \notin 1 .. Len(h)
    BY <1>2, <2>1
  <2> QED
    BY <1>1, <2>1, <2>2
<1>5. CASE c = << >>
  <2>1. Len(c) = 0
    BY <1>5
  <2>2. others = {}
    BY <1>1, <1>3, <1>4, <2>1
  <2>3. t = h
    BY <1>5 DEF t
  <2> QED
    BY <2>2, <2>3 DEF Header, t
<1>6. CASE c # << >>
  <2>1. Len(c) >= 1
    BY <1>1, <1>6, LenProperties
  <2>2. Len(h) + 1 \in others
    BY <1>1, <1>2, <1>3, <1>6, <2>1
  <2>3. Min(others) = Len(h) + 1
    <3>1. \A k \in others : k \in Nat /\ Len(h) + 1 <= k
      BY <1>1, <1>3, <1>4
    <3> QED
      BY <1>1, <2>2, <3>1 DEF Min
  <2>4. Header(t) = SubSeq(t, 1, Len(h))
    <3>1. Header(t) = SubSeq(t, 1, Min(others) - 1)
      BY <2>2 DEF Header
    <3>2. Min(others) - 1 = Len(h)
      BY <1>1, <2>3
    <3> QED
      BY <3>1, <3>2
  <2> DEFINE u == SubSeq(t, 1, Len(h))
  <2>5. \A i \in 1 .. Len(h) : t[i] \in S
    BY <1>2, ElementOfSeq
  <2>6. /\ u \in Seq(S) /\ Len(u) = (IF 1 <= Len(h) THEN Len(h) - 1 + 1 ELSE 0)
        /\ \A i \in 1 .. Len(h) - 1 + 1 : u[i] = t[1 + i - 1]
    BY <1>1, <2>5, SubSeqProperties
  <2> HIDE DEF u
  <2>7. Len(u) = Len(h) /\ \A i \in 1 .. Len(h) : u[i] = h[i]
    BY <1>1, <1>2, <2>6
  <2>8. u = h
    BY <2>6, <2>7, SeqEqual
  <2> QED
    BY <2>4, <2>8 DEF u, t
<1> QED
  BY <1>5, <1>6

LEMMA TextIs ==
  ASSUME NEW t, IsText(t)
  PROVE  LET S == {t[k] : k \in DOMAIN t}
         IN  t \in Seq(S) /\ Len(t) \in Nat /\ Len(t) >= 1 /\ DOMAIN t = 1 .. Len(t)
<1> DEFINE S == {t[k] : k \in DOMAIN t}
<1>1. t \in Seq(S) /\ t # << >>
  BY DEF IsText
<1> HIDE DEF S
<1>2. Len(t) \in Nat /\ DOMAIN t = 1 .. Len(t)
  BY <1>1, LenProperties
<1>3. Len(t) # 0
  BY <1>1, <1>2
<1> QED
  BY <1>1, <1>2, <1>3 DEF S

\* The lines of a file are a text.
LEMMA DiskText ==
  ASSUME NEW disk, IsText(disk)
  PROVE  IsText(toCRLF(disk)) /\ Len(toCRLF(disk)) = Len(disk)
<1> DEFINE t == toCRLF(disk)
           S == {t[k] : k \in DOMAIN t}
<1>1. Len(disk) \in Nat /\ Len(disk) >= 1 /\ DOMAIN disk = 1 .. Len(disk)
  BY TextIs
<1>2. DOMAIN t = 1 .. Len(disk) /\ t = [k \in 1 .. Len(disk) |-> disk[k].line]
  BY <1>1 DEF toCRLF
<1>3. t \in [1 .. Len(disk) -> S]
  BY <1>2
<1> HIDE DEF t, S
<1>4. t \in Seq(S)
  BY <1>1, <1>3, SeqDef
<1>5. Len(t) = Len(disk) /\ t # << >>
  <2>1. Len(t) \in Nat /\ DOMAIN t = 1 .. Len(t)
    BY <1>4, LenProperties
  <2>2. Len(t) = Len(disk)
    BY <1>1, <1>2, <2>1
  <2> QED
    BY <1>1, <2>2
<1> QED
  BY <1>4, <1>5 DEF IsText, t, S


\* The code of a form is a part of its text.
LEMMA FormCodeIs ==
  ASSUME NEW S, NEW text \in Seq(S), FormAccepts(text)
  PROVE  FormCode(text) \in Seq(S)
<1> DEFINE n == Len(text)
           names == {k \in DOMAIN text : NamesVB(text[k])}
           l == Max(names)
           ends == {k \in l + 1 .. n : text[k].form # "blank"} \cup {n + 1}
           m == Min(ends)
<1>1. n \in Nat /\ DOMAIN text = 1 .. n /\ \A k \in 1 .. n : text[k] \in S
  BY LenProperties, ElementOfSeq
<1>2. l \in 1 .. n
  <2>1. names # {} /\ names \in SUBSET (1 .. n)
    BY <1>1 DEF FormAccepts
  <2> HIDE DEF names
  <2>2. Max(names) \in names
    BY <1>1, <2>1, MaxOfPositions
  <2> QED
    BY <2>1, <2>2
<1>3. m \in 1 .. n + 1
  <2> HIDE DEF l
  <2>1. ends \in SUBSET (1 .. n + 1) /\ ends # {}
    BY <1>1, <1>2
  <2> HIDE DEF ends
  <2>2. n + 1 \in Nat
    BY <1>1
  <2>3. Min(ends) \in ends
    BY <2>1, <2>2, MinOfPositions
  <2> QED
    BY <2>1, <2>3
<1>4. FormCode(text) = SubSeq(text, m, n)
  BY DEF FormCode, From
<1> HIDE DEF m, n
<1>5. \A i \in m .. n : text[i] \in S
  BY <1>1, <1>3
<1> QED
  BY <1>1, <1>3, <1>4, <1>5, SubSeqProperties

\* What a file leaves behind the header that the module keeps.
Behind(type, text) == IF type = "ModuleDocument" THEN text ELSE FormCode(text)

HeaderTypes == {"ModuleDocument", "ModuleForm"}

LEMMA BehindIs ==
  ASSUME NEW type \in HeaderTypes, NEW disk \in Disks[type], NEW existing,
         Accepts(type, disk, existing)
  PROVE  LET c == Behind(type, toCRLF(disk))
         IN  /\ NormalizeModuleSource(type, disk, existing) = Header(existing) \o c
             /\ Header(existing) # << >>
             /\ \E S : c \in Seq(S)
             /\ c # << >> => ~IsAttribute(c[1])
             /\ \A k \in DOMAIN c : c[k].form \notin {"VB_Name", "VERSION"}
<1> DEFINE text == toCRLF(disk)
           S == {text[k] : k \in DOMAIN text}
<1>1. IsText(disk) /\ Exported(type, disk) /\ type \in ModuleTypes
  BY TextsAssumption DEF TextsAssumption, HeaderTypes, ModuleTypes
<1>2. text \in Seq(S)
  BY <1>1, DiskText, TextIs
<1> HIDE DEF S
<1>3. CASE type = "ModuleDocument"
  <2>1. /\ NormalizeModuleSource(type, disk, existing) = Header(existing) \o text
        /\ Header(existing) # << >>
    BY <1>3 DEF NormalizeModuleSource, Accepts
  <2>2. /\ text # << >> => ~IsAttribute(text[1])
        /\ \A k \in DOMAIN text : text[k].form \notin {"VB_Name", "VERSION"}
    BY <1>1, <1>3 DEF Exported
  <2> QED
    BY <1>2, <1>3, <2>1, <2>2 DEF Behind
<1>4. CASE type = "ModuleForm"
  <2>1. /\ NormalizeModuleSource(type, disk, existing) = Header(existing) \o FormCode(text)
        /\ Header(existing) # << >> /\ FormAccepts(text)
    BY <1>4 DEF NormalizeModuleSource, Accepts
  <2>2. LET c == FormCode(text)
        IN  /\ c # << >> => ~IsAttribute(c[1])
            /\ \A k \in DOMAIN c : c[k].form \notin {"VB_Name", "VERSION"}
    BY <1>1, <1>4, <2>1 DEF Exported
  <2>3. FormCode(text) \in Seq(S)
    BY <1>2, <2>1, FormCodeIs
  <2> QED
    BY <1>4, <2>1, <2>2, <2>3 DEF Behind
<1> QED
  BY <1>3, <1>4 DEF HeaderTypes

\* A document or a form keeps its header through an import.
LEMMA HeaderKept ==
  ASSUME NEW type \in HeaderTypes, NEW disk \in Disks[type], NEW existing, IsText(existing),
         Accepts(type, disk, existing)
  PROVE  Header(NormalizeModuleSource(type, disk, existing)) = Header(existing)
<1> DEFINE c == Behind(type, toCRLF(disk))
           h == Header(existing)
           S == {existing[k] : k \in DOMAIN existing}
<1>1. /\ NormalizeModuleSource(type, disk, existing) = h \o c
      /\ c # << >> => ~IsAttribute(c[1])
      /\ \E T : c \in Seq(T)
  BY BehindIs
<1>2. PICK T : c \in Seq(T)
  BY <1>1
<1>3. existing \in Seq(S)
  BY DEF IsText
<1> HIDE DEF c, S
<1>4. h \in Seq(S) /\ \A k \in 1 .. Len(h) : IsAttribute(h[k])
  BY <1>3, HeaderIs
<1> HIDE DEF h
<1>5. h \in Seq(S \cup T) /\ c \in Seq(S \cup T)
  BY <1>2, <1>4
<1>6. Header(h \o c) = h
  BY <1>1, <1>4, <1>5, HeaderJoin
<1> QED
  BY <1>1, <1>6 DEF h

\* Normalisation sees of the existing source the header only.
LEMMA HeaderDecides ==
  ASSUME NEW type \in ModuleTypes, NEW disk, NEW d, NEW e,
         type \in HeaderTypes => Header(d) = Header(e)
  PROVE  /\ Accepts(type, disk, d) = Accepts(type, disk, e)
         /\ NormalizeModuleSource(type, disk, d) = NormalizeModuleSource(type, disk, e)
<1>1. type \in {"ModuleStd", "ModuleClass", "ModuleDocument", "ModuleForm"}
  BY DEF ModuleTypes
<1>2. CASE type \in HeaderTypes
  <2>1. Header(d) = Header(e)
    BY <1>2
  <2> QED
    BY <2>1 DEF Accepts, NormalizeModuleSource
<1>3. CASE type = "ModuleStd" \/ type = "ModuleClass"
  BY <1>3 DEF Accepts, NormalizeModuleSource
<1> QED
  BY <1>1, <1>2, <1>3 DEF HeaderTypes

\* A source that comes of the first source of its module in at most one import.
Derives(type, source, first) ==
  \/ source = first
  \/ \E disk \in Disks[type] :
       Accepts(type, disk, first) /\ source = NormalizeModuleSource(type, disk, first)

\* An import into such a source gives another.
LEMMA ImportDerives ==
  ASSUME NEW type \in ModuleTypes, NEW first \in Texts, NEW source, Derives(type, source, first),
         NEW disk \in Disks[type], NEW existing \in {<< >>, source},
         Accepts(type, disk, existing)
  PROVE  Derives(type, NormalizeModuleSource(type, disk, existing), first)
<1>1. IsText(first)
  BY TextsAssumption DEF TextsAssumption
<1>2. type \in HeaderTypes => Header(source) = Header(first)
  BY <1>1, HeaderKept DEF Derives
<1>3. Header(<< >>) = << >>
  BY DEF Header
<1>4. type \in HeaderTypes => existing = source
  <2> SUFFICES ASSUME type \in HeaderTypes, existing = << >>
               PROVE  FALSE
    OBVIOUS
  <2>1. Header(existing) # << >>
    BY BehindIs
  <2> QED
    BY <1>3, <2>1
<1>5. type \in HeaderTypes => Header(existing) = Header(first)
  BY <1>2, <1>4
<1>6. /\ Accepts(type, disk, existing) = Accepts(type, disk, first)
      /\ NormalizeModuleSource(type, disk, existing) = NormalizeModuleSource(type, disk, first)
  BY <1>5, HeaderDecides
<1> QED
  BY <1>6 DEF Derives

-----------------------------------------------------------------------------
(***************************************************************************)
(* The history of a source.                                                *)
(***************************************************************************)

HeldBy(b, p) ==
  (IF p = NoProject THEN {} ELSE ToSet(p.Modules))
    \cup (IF Readable(b) THEN ToSet(Decomposed(b).Modules) ELSE {})

\* The module comes of one of the same name in the file of the start.
Comes(m, first) ==
  \E k \in DOMAIN first : first[k].Name = m.Name /\ Derives(m.Type, m.Source, first[k].Source)

\* ImportsForgetHistory says nothing of a file that Read refuses: the induction
\* needs a first module to exist for each one held.
HistoryInv ==
  /\ orig \in Inputs
  /\ Readable(bin) => Readable(orig)
  /\ \A m \in HeldBy(bin, proj) : Comes(m, Decomposed(orig).Modules)

\* A module held is one of the Project, or one that Read finds.
LEMMA HeldIs ==
  \A b, p, m :
    m \in HeldBy(b, p) <=>
      \/ p # NoProject /\ \E k \in DOMAIN p.Modules : m = p.Modules[k]
      \/ Readable(b) /\ \E k \in DOMAIN Decomposed(b).Modules : m = Decomposed(b).Modules[k]
PROOF BY DEF HeldBy, ToSet

\* The modules that Read finds in a file of the start.
LEMMA FirstModules ==
  ASSUME NEW b, IsFile(b), Readable(b)
  PROVE  \A k \in DOMAIN Decomposed(b).Modules : Decomposed(b).Modules[k] \in ModuleType
<1>1. IsProject(Decomposed(b))
  BY ReadType
<1> QED
  BY <1>1, SpecsType

LEMMA HeldTypes ==
  ASSUME TypeInv, NEW m \in HeldBy(bin, proj)
  PROVE  m.Type \in ModuleTypes
<1>1. IsFile(bin) /\ (proj # NoProject => IsProject(proj))
  BY TypeOKOf DEF TypeInv
<1>2. m \in ModuleType
  BY <1>1, HeldIs, FirstModules, SpecsType
<1> QED
  BY <1>2 DEF ModuleType

\* A step that holds no other module.
LEMMA HistoryKept ==
  ASSUME HistoryInv, orig' = orig, Readable(bin') => Readable(orig),
         \A m \in HeldBy(bin', proj') : m \in HeldBy(bin, proj)
  PROVE  HistoryInv'
<1>1. \A m \in HeldBy(bin', proj') : Comes(m, Decomposed(orig).Modules)
  BY DEF HistoryInv
<1>2. \A m \in HeldBy(bin', proj') : Comes(m, Decomposed(orig').Modules)
  BY <1>1
<1> QED
  BY <1>2 DEF HistoryInv, HeldBy

LEMMA HistoryImport ==
  ASSUME Inv, HistoryInv, proj # NoProject, ProjectsKnown,
         NEW k \in DOMAIN proj.Modules, NEW disk \in Disks[proj.Modules[k].Type],
         NEW existing \in Existing(k), Import(k, disk, existing)
  PROVE  HistoryInv'
<1> DEFINE type == proj.Modules[k].Type
           x == NormalizeModuleSource(type, disk, existing)
           first == Decomposed(orig).Modules
<1>1. /\ IsProject(proj) /\ IsRecord(proj) /\ Spanned(proj) /\ Named(proj)
      /\ IsFile(orig) /\ Readable(orig)
  BY TypeOKOf DEF Inv, TypeInv, CarryInv, Carries, IsRecord, SpanInv, ContractInv, HistoryInv
<1>2. /\ proj.Modules[k] \in ModuleType
      /\ \A j \in DOMAIN first : first[j] \in ModuleType
  BY <1>1, SpecsType, FirstModules
<1>3. x \in Texts /\ bin' = bin /\ orig' = orig /\ proj' = SourceSet(proj, k, x)
  <2>1. existing \in Texts \cup {<< >>} /\ type \in ModuleTypes
    BY <1>2 DEF Existing, ModuleType
  <2> QED
    BY <2>1, ImportsAssumption DEF ImportsAssumption, Import, Becomes, SourceSet
<1>4. Replaces(proj', proj, k, x)
  BY <1>1, <1>3, SourceSetIs
<1>5. /\ DOMAIN proj'.Modules = DOMAIN proj.Modules
      /\ \A j \in DOMAIN proj.Modules :
           /\ proj'.Modules[j].Name = proj.Modules[j].Name
           /\ proj'.Modules[j].Type = proj.Modules[j].Type
           /\ proj'.Modules[j].Source = IF j = k THEN x ELSE proj.Modules[j].Source
  BY <1>4 DEF Replaces
<1>6. \A j \in DOMAIN proj.Modules : Comes(proj.Modules[j], first)
  BY HeldIs DEF HistoryInv
<1>7. ASSUME NEW j \in DOMAIN proj.Modules
      PROVE  Comes(proj'.Modules[j], first)
  <2>1. PICK i \in DOMAIN first : /\ first[i].Name = proj.Modules[j].Name
                                  /\ Derives(proj.Modules[j].Type, proj.Modules[j].Source,
                                             first[i].Source)
    BY <1>6 DEF Comes
  <2>2. CASE j = k
    <3>1. Accepts(type, disk, existing) /\ existing \in {<< >>, proj.Modules[k].Source}
      BY DEF Import, Existing
    <3>2. type \in ModuleTypes /\ first[i].Source \in Texts
      BY <1>2 DEF ModuleType
    <3>3. Derives(type, x, first[i].Source)
      BY <2>1, <2>2, <3>1, <3>2, ImportDerives
    <3> QED
      BY <1>5, <2>1, <2>2, <3>3 DEF Comes
  <2>3. CASE j # k
    BY <1>5, <2>1, <2>3 DEF Comes
  <2> QED
    BY <2>2, <2>3
<1> HIDE DEF first, x, type
<1>8. ASSUME NEW m \in HeldBy(bin', proj')
      PROVE  Comes(m, first)
  <2>1. CASE \E j \in DOMAIN proj'.Modules : m = proj'.Modules[j]
    BY <1>5, <1>7, <2>1
  <2>2. CASE ~ \E j \in DOMAIN proj'.Modules : m = proj'.Modules[j]
    <3>1. m \in HeldBy(bin, proj)
      BY <1>3, <2>2, HeldIs
    <3> QED
      BY <3>1 DEF HistoryInv, first
  <2> QED
    BY <2>1, <2>2
<1> QED
  BY <1>3, <1>8 DEF HistoryInv, HeldBy, first

\* Every step keeps the history of the modules that are held.
LEMMA HistoryStep ==
  ASSUME Edits = {}, ProjectsKnown, Inv, HistoryInv, [ViewNext]_<< vars, view >>
  PROVE  HistoryInv'
<1>1. Readable(bin) => Readable(orig)
  BY DEF HistoryInv
<1>2. CASE Read
  <2>1. /\ Readable(bin) /\ proj' = Decomposed(bin) /\ bin' = bin /\ orig' = orig
    BY <1>2 DEF Read
  <2>2. \A m \in HeldBy(bin', proj') : m \in HeldBy(bin, proj)
    BY <2>1, HeldIs
  <2> QED
    BY <1>1, <2>1, <2>2, HistoryKept
<1>3. CASE \/ ReadFails \/ WriteFails \/ UNCHANGED << vars, view >>
           \/ \E k, disk, existing : ImportFails(k, disk, existing)
  <2>1. UNCHANGED << bin, proj, orig >>
    BY <1>3 DEF ReadFails, WriteFails, ImportFails, Becomes, vars
  <2> QED
    BY <1>1, <2>1, HistoryKept
<1>4. CASE Edit
  BY <1>4 DEF Edit, EditSource, EditStreamName, Rename, Retype, AddModule, RemoveModule,
              EditCodePage
<1>5. CASE Write
  <2>1. Readable(bin') /\ Decomposed(bin') = proj
    BY <1>5, WriteShows
  <2>2. proj # NoProject /\ proj' = proj /\ orig' = orig /\ Readable(bin)
    BY <1>5 DEF Write, Inv, ContractInv
  <2>3. \A m \in HeldBy(bin', proj') : m \in HeldBy(bin, proj)
    BY <2>1, <2>2, HeldIs
  <2> QED
    BY <1>1, <2>2, <2>3, HistoryKept
<1>6. CASE HostSave
  <2>1. Readable(bin) /\ proj' = proj /\ orig' = orig
    BY <1>6 DEF HostSave
  <2>2. /\ IsFile(bin) /\ Ordered(bin) /\ HostEntries(bin) /\ StreamsAreCells(bin) /\ Keeps(bin)
    BY DEF Inv, TypeInv, TypeOK, CarryInv, SpanInv, ContractInv
  <2>3. Readable(bin') /\ Decomposed(bin') = Decomposed(bin)
    BY <1>6, <2>2, HostInvisible
  <2>4. \A m \in HeldBy(bin', proj') : m \in HeldBy(bin, proj)
    BY <2>1, <2>3, HeldIs
  <2> QED
    BY <1>1, <2>1, <2>4, HistoryKept
<1>7. ASSUME proj # NoProject, NEW k \in DOMAIN proj.Modules,
             NEW disk \in Disks[proj.Modules[k].Type], NEW existing \in Existing(k),
             Import(k, disk, existing)
      PROVE  HistoryInv'
  BY <1>7, HistoryImport
<1> QED
  BY <1>2, <1>3, <1>4, <1>5, <1>6, <1>7 DEF ViewNext, ImportNext, Next

LEMMA HistoryInit ==
  ASSUME Init
  PROVE  HistoryInv
<1>1. bin \in Inputs /\ proj = NoProject /\ orig = bin
  BY DEF Init
<1>2. ASSUME NEW m \in HeldBy(bin, proj)
      PROVE  Comes(m, Decomposed(orig).Modules)
  <2>1. PICK k \in DOMAIN Decomposed(bin).Modules : m = Decomposed(bin).Modules[k]
    BY <1>1, <1>2, HeldIs
  <2> QED
    BY <1>1, <2>1 DEF Comes, Derives
<1> QED
  BY <1>1, <1>2 DEF HistoryInv

\* The modules of a file that Read accepts have names of their own: Original is
\* the one with that name.
LEMMA OriginalIs ==
  ASSUME orig \in Inputs, Readable(orig), NEW k \in DOMAIN Decomposed(orig).Modules
  PROVE  Original(Decomposed(orig).Modules[k].Name) = Decomposed(orig).Modules[k]
<1> DEFINE mods == Decomposed(orig).Modules
           dm == DirModules(DirPlain(orig))
<1>1. mods = [j \in DOMAIN dm |-> Module(orig, dm[j])]
  BY DEF Decomposed
<1>2. DOMAIN mods = DOMAIN dm /\ \A j \in DOMAIN dm : mods[j].Name = dm[j].Name
  BY <1>1 DEF Module
<1>3. \A i, j \in DOMAIN dm : dm[i].Name = dm[j].Name => i = j
  BY NamesApartAssumption DEF NamesApartAssumption, Readable
<1> HIDE DEF dm
<1>4. (CHOOSE j \in DOMAIN mods : mods[j].Name = mods[k].Name) = k
  BY <1>2, <1>3
<1> QED
  BY <1>4 DEF Original

\* For every set of files and texts, and every history of imports, reads,
\* writes and saves by the host: each module held comes of one of the same name
\* in the file of the start, by at most one import.
THEOREM HistoryInvariant ==
  ASSUME Edits = {}, ProjectsKnown
  PROVE  ViewSpec => []HistoryInv
<1>1. Init /\ view = View(bin, proj) => Inv /\ HistoryInv
  BY InitMaps, HistoryInit
<1>2. Inv /\ HistoryInv /\ [ViewNext]_<< vars, view >> => Inv' /\ HistoryInv'
  BY ViewStep, HistoryStep
<1> QED
  BY <1>1, <1>2, PTL DEF ViewSpec, ViewNext

\* The history of imports, writes and host saves behind a module does not show
\* in its source: header lines never multiply, and code never becomes header.
THEOREM ImportsForgetHistoryHolds ==
  ASSUME Edits = {}, ProjectsKnown
  PROVE  ViewSpec => []ImportsForgetHistory
<1>1. TypeInv /\ ContractInv /\ HistoryInv => ImportsForgetHistory
  <2> SUFFICES ASSUME TypeInv, ContractInv, HistoryInv, NEW m \in Held
               PROVE  LET first == Original(m.Name)
                      IN  \/ m.Source = first.Source
                          \/ \E disk \in Disks[m.Type] :
                               /\ Accepts(m.Type, disk, first.Source)
                               /\ m.Source = NormalizeModuleSource(m.Type, disk, first.Source)
    BY DEF ImportsForgetHistory
  <2>1. m \in HeldBy(bin, proj)
    BY DEF Held, HeldBy
  <2>2. Readable(orig)
    BY <2>1, HeldIs DEF HistoryInv, ContractInv
  <2>3. PICK k \in DOMAIN Decomposed(orig).Modules :
               /\ Decomposed(orig).Modules[k].Name = m.Name
               /\ Derives(m.Type, m.Source, Decomposed(orig).Modules[k].Source)
    BY <2>1 DEF HistoryInv, Comes
  <2>4. Original(m.Name) = Decomposed(orig).Modules[k]
    BY <2>2, <2>3, OriginalIs DEF HistoryInv
  <2> QED
    BY <2>3, <2>4 DEF Derives
<1>2. Init /\ view = View(bin, proj) => Inv
  BY InitMaps
<1>3. Inv /\ [ViewNext]_<< vars, view >> => Inv'
  BY ViewStep
<1>4. Inv /\ HistoryInv => ImportsForgetHistory
  BY <1>1 DEF Inv
<1> QED
  BY <1>2, <1>3, <1>4, HistoryInvariant, PTL DEF ViewSpec, ViewNext

-----------------------------------------------------------------------------
(***************************************************************************)
(* The form of a source.                                                   *)
(***************************************************************************)

\* The sequence of joins that FlattenSeq goes through.
LEMMA FlattenExists ==
  ASSUME NEW parts
  PROVE  \A n \in Nat : \E f : f = [i \in 1 .. n |-> IF i = 1 THEN parts[i] ELSE f[i - 1] \o parts[i]]
<1> DEFINE Flat(f, n) == f = [i \in 1 .. n |-> IF i = 1 THEN parts[i] ELSE f[i - 1] \o parts[i]]
           Bad == {n \in Nat : ~ \E f : Flat(f, n)}
<1> SUFFICES ASSUME Bad # {}
             PROVE  FALSE
  OBVIOUS
<1>1. PICK n \in Bad : \A y \in Bad : n <= y
  <2>1. Bad \in SUBSET Nat
    OBVIOUS
  <2> HIDE DEF Bad
  <2> QED
    BY <2>1, LeastOf
<1>2. n \in Nat /\ ~ \E f : Flat(f, n)
  BY <1>1
<1>3. n # 0
  <2> SUFFICES ASSUME n = 0
               PROVE  \E f : Flat(f, n)
    BY <1>2
  <2> DEFINE e == [i \in 1 .. 0 |-> parts[i]]
  <2>1. e = [i \in 1 .. 0 |-> IF i = 1 THEN parts[i] ELSE e[i - 1] \o parts[i]]
    OBVIOUS
  <2> QED
    BY <2>1
<1>4. n - 1 \in Nat /\ n - 1 \notin Bad
  <2>1. n \in Nat /\ n # 0 /\ \A y \in Bad : n <= y
    BY <1>1, <1>2, <1>3
  <2> HIDE DEF Bad
  <2>2. n - 1 \in Nat /\ ~(n <= n - 1)
    BY <2>1
  <2> QED
    BY <2>1, <2>2
<1>5. PICK f : Flat(f, n - 1)
  BY <1>4
<1> DEFINE g == [i \in 1 .. n |-> IF i < n THEN f[i]
                                  ELSE IF n = 1 THEN parts[n] ELSE f[n - 1] \o parts[n]]
<1>6. \A i \in 1 .. n - 1 : f[i] = IF i = 1 THEN parts[i] ELSE f[i - 1] \o parts[i]
  <2> DEFINE body(i) == IF i = 1 THEN parts[i] ELSE f[i - 1] \o parts[i]
  <2>1. f = [i \in 1 .. n - 1 |-> body(i)]
    BY <1>5
  <2> HIDE DEF body
  <2>2. \A i \in 1 .. n - 1 : f[i] = body(i)
    BY <2>1
  <2> QED
    BY <2>2 DEF body
<1>7. ASSUME NEW i \in 1 .. n
      PROVE  g[i] = IF i = 1 THEN parts[i] ELSE g[i - 1] \o parts[i]
  <2>1. CASE i < n
    <3>1. i \in 1 .. n - 1 /\ g[i] = f[i]
      BY <1>2, <2>1
    <3>2. i # 1 => i - 1 \in 1 .. n /\ i - 1 < n /\ g[i - 1] = f[i - 1]
      BY <1>2, <2>1
    <3> HIDE DEF g
    <3> QED
      BY <1>6, <3>1, <3>2
  <2>2. CASE i = n
    <3>1. g[i] = IF n = 1 THEN parts[n] ELSE f[n - 1] \o parts[n]
      BY <1>2, <2>2
    <3>2. i # 1 => i - 1 \in 1 .. n /\ i - 1 < n /\ g[i - 1] = f[i - 1]
      BY <1>2, <2>2
    <3> HIDE DEF g
    <3> QED
      BY <2>2, <3>1, <3>2
  <2> QED
    BY <1>2, <2>1, <2>2
<1>8. g = [i \in 1 .. n |-> IF i = 1 THEN parts[i] ELSE g[i - 1] \o parts[i]]
  <2> DEFINE body(i) == IF i = 1 THEN parts[i] ELSE g[i - 1] \o parts[i]
  <2>1. g = [i \in 1 .. n |-> g[i]]
    OBVIOUS
  <2>2. \A i \in 1 .. n : g[i] = body(i)
    BY <1>7
  <2> HIDE DEF g, body
  <2>3. g = [i \in 1 .. n |-> body(i)]
    BY <2>1, <2>2
  <2> QED
    BY <2>3 DEF body
<1> QED
  BY <1>2, <1>8

\* A flattened sequence begins with what its first part begins with, and what
\* follows in the parts follows in it.
LEMMA FlattenHead ==
  ASSUME NEW S, NEW P \in SUBSET S, NEW n \in Nat \ {0}, NEW parts, Len(parts) = n,
         \A i \in 1 .. n : parts[i] \in Seq(S),
         parts[1] # << >>, \A k \in 2 .. Len(parts[1]) : parts[1][k] \in P,
         \A i \in 2 .. n : \A k \in 1 .. Len(parts[i]) : parts[i][k] \in P
  PROVE  LET w == FlattenSeq(parts)
         IN  /\ w \in Seq(S) /\ w # << >> /\ w[1] = parts[1][1]
             /\ \A k \in 2 .. Len(w) : w[k] \in P
<1> DEFINE Flat(f) == f = [i \in 1 .. Len(parts) |-> IF i = 1 THEN parts[i] ELSE f[i - 1] \o parts[i]]
           flatten == CHOOSE f : Flat(f)
           Good(w) == /\ w \in Seq(S) /\ w # << >> /\ w[1] = parts[1][1]
                      /\ \A k \in 2 .. Len(w) : w[k] \in P
           Bad == {i \in 1 .. n : ~Good(flatten[i])}
<1>1. FlattenSeq(parts) = flatten[n]
  BY DEF FlattenSeq
<1>2. Flat(flatten)
  <2>1. \E f : Flat(f)
    BY FlattenExists
  <2> HIDE DEF Flat
  <2> QED
    BY <2>1
<1>3. \A i \in 1 .. n : flatten[i] = IF i = 1 THEN parts[i] ELSE flatten[i - 1] \o parts[i]
  <2> HIDE DEF flatten
  <2> DEFINE body(i) == IF i = 1 THEN parts[i] ELSE flatten[i - 1] \o parts[i]
  <2>1. flatten = [i \in 1 .. n |-> body(i)]
    BY <1>2
  <2> HIDE DEF body
  <2>2. \A i \in 1 .. n : flatten[i] = body(i)
    BY <2>1
  <2> QED
    BY <2>2 DEF body
<1> HIDE DEF flatten
<1>4. Bad = {}
  <2> SUFFICES ASSUME Bad # {}
               PROVE  FALSE
    OBVIOUS
  <2>1. PICK i \in Bad : \A y \in Bad : i <= y
    <3>1. Bad \in SUBSET Nat
      OBVIOUS
    <3> HIDE DEF Bad
    <3> QED
      BY <3>1, LeastOf
  <2>2. i \in 1 .. n /\ ~Good(flatten[i])
    BY <2>1
  <2>3. i # 1
    <3>1. Good(parts[1])
      OBVIOUS
    <3> HIDE DEF Good
    <3> QED
      BY <1>3, <2>2, <3>1
  <2>4. i - 1 \in 1 .. n /\ i - 1 \notin Bad
    BY <2>1, <2>2, <2>3
  <2>5. Good(flatten[i - 1])
    BY <2>4
  <2>6. Good(flatten[i - 1] \o parts[i])
    <3> DEFINE a == flatten[i - 1]
               c == parts[i]
    <3>1. a \in Seq(S) /\ c \in Seq(S) /\ Len(a) \in Nat /\ Len(c) \in Nat /\ Len(a) >= 1
      <4>1. a \in Seq(S) /\ a # << >> /\ c \in Seq(S)
        BY <2>2, <2>5
      <4> HIDE DEF a, c
      <4>2. Len(a) # 0
        BY <4>1
      <4> QED
        BY <4>1, <4>2, LenProperties
    <3>2. /\ a[1] = parts[1][1] /\ \A k \in 2 .. Len(a) : a[k] \in P
          /\ \A k \in 1 .. Len(c) : c[k] \in P
      BY <2>2, <2>3, <2>5
    <3> HIDE DEF a, c
    <3> DEFINE w == a \o c
    <3>3. /\ w \in Seq(S) /\ Len(w) = Len(a) + Len(c)
          /\ \A k \in 1 .. Len(a) : w[k] = a[k]
          /\ \A k \in 1 .. Len(c) : w[Len(a) + k] = c[k]
      BY <3>1, ConcatIndex
    <3> HIDE DEF w
    <3>4. w # << >> /\ w[1] = parts[1][1]
      BY <3>1, <3>2, <3>3
    <3>5. ASSUME NEW k \in 2 .. Len(w)
          PROVE  w[k] \in P
      <4>0. k \in Nat /\ k >= 2 /\ k <= Len(a) + Len(c)
        BY <3>1, <3>3
      <4>1. CASE k <= Len(a)
        <5>1. k \in 1 .. Len(a) /\ k \in 2 .. Len(a)
          BY <3>1, <4>0, <4>1
        <5>2. w[k] = a[k] /\ a[k] \in P
          BY <3>2, <3>3, <5>1
        <5> QED
          BY <5>2
      <4>2. CASE k > Len(a)
        <5> DEFINE j == k - Len(a)
        <5>1. Len(a) \in Nat /\ Len(c) \in Nat
          BY <3>1
        <5>2. j \in 1 .. Len(c) /\ k = Len(a) + j
          BY <4>0, <4>2, <5>1
        <5> HIDE DEF j
        <5>3. w[k] = c[j] /\ c[j] \in P
          BY <3>2, <3>3, <5>2
        <5> QED
          BY <5>3
      <4> QED
        BY <3>1, <4>0, <4>1, <4>2
    <3> QED
      BY <3>3, <3>4, <3>5 DEF w, a, c
  <2> HIDE DEF Good
  <2> QED
    BY <1>3, <2>2, <2>3, <2>6
<1>5. Good(flatten[n])
  <2> HIDE DEF Good
  <2> QED
    BY <1>4
<1> QED
  BY <1>1, <1>5

\* What is injected behind a line: two lines at most, none of them a name.
LEMMA InjectedIs ==
  ASSUME NEW S, NEW line \in S
  PROVE  LET T == S \cup {Line("VB_Base", "class"), Line("VB_TemplateDerived", "False"),
                          Line("VB_Customizable", "False")}
             part == << line >> \o Injected(line)
         IN  /\ part \in Seq(T) /\ part # << >> /\ part[1] = line
             /\ \A k \in 2 .. Len(part) : part[k].form \notin {"VB_Name", "VERSION"}
<1> DEFINE a == Line("VB_Base", "class")
           b == Line("VB_TemplateDerived", "False")
           c == Line("VB_Customizable", "False")
           T == S \cup {a, b, c}
           part == << line >> \o Injected(line)
<1>1. \A l \in {a, b, c} : l.form \notin {"VB_Name", "VERSION"}
  BY DEF Line
<1> DEFINE inj == Injected(line)
<1> HIDE DEF a, b, c
<1>2. inj \in {<< >>, << a >>, << b, c >>}
  BY DEF Injected, a, b, c
<1> HIDE DEF inj
<1>3. << line >> \in Seq(T) /\ Len(<< line >>) = 1 /\ << line >>[1] = line
  OBVIOUS
<1>4. inj \in Seq(T) /\ \A k \in 1 .. Len(inj) : inj[k] \in {a, b, c}
  <2>1. a \in T /\ b \in T /\ c \in T
    OBVIOUS
  <2>2. CASE inj = << >>
    BY <2>2
  <2>3. CASE inj = << a >>
    BY <2>1, <2>3
  <2>4. CASE inj = << b, c >>
    BY <2>1, <2>4
  <2> QED
    BY <1>2, <2>2, <2>3, <2>4
<1>5. Len(inj) \in Nat
  BY <1>4, LenProperties
<1> HIDE DEF T
<1>6. /\ part \in Seq(T) /\ Len(part) = 1 + Len(inj) /\ part[1] = line
      /\ \A k \in 1 .. Len(inj) : part[1 + k] = inj[k]
  <2> DEFINE s == << line >>
  <2>1. s \in Seq(T) /\ Len(s) = 1 /\ s[1] = line
    BY <1>3
  <2> HIDE DEF s
  <2>2. /\ s \o inj \in Seq(T) /\ Len(s \o inj) = Len(s) + Len(inj)
        /\ \A k \in 1 .. Len(s) : (s \o inj)[k] = s[k]
        /\ \A k \in 1 .. Len(inj) : (s \o inj)[Len(s) + k] = inj[k]
    BY <1>4, <2>1, ConcatIndex
  <2>3. part = s \o inj
    BY DEF s, inj
  <2> HIDE DEF part
  <2> QED
    BY <2>1, <2>2, <2>3
<1> HIDE DEF part
<1>7. ASSUME NEW k \in 2 .. Len(part)
      PROVE  part[k].form \notin {"VB_Name", "VERSION"}
  <2>1. k - 1 \in 1 .. Len(inj) /\ k = 1 + (k - 1)
    BY <1>5, <1>6
  <2>2. part[k] = inj[k - 1]
    BY <1>6, <2>1
  <2> QED
    BY <1>1, <1>4, <2>1, <2>2
<1>8. part # << >>
  BY <1>5, <1>6
<1> QED
  BY <1>6, <1>7, <1>8 DEF part, T, a, b, c

\* A class whose attributes are in order stays so.
LEMMA ClassForm ==
  ASSUME NEW text, IsText(text), ClassAccepts(text), InBinForm(ClassBody(text))
  PROVE  InBinForm(normalizeClass(text))
<1> DEFINE S == {text[k] : k \in DOMAIN text}
           ends == {k \in DOMAIN text : text[k].form = "END"}
           body == ClassBody(text)
           n == Len(body)
           T == S \cup {Line("VB_Base", "class"), Line("VB_TemplateDerived", "False"),
                        Line("VB_Customizable", "False")}
           P == {l \in T : l.form \notin {"VB_Name", "VERSION"}}
           parts == [k \in DOMAIN body |-> << body[k] >> \o Injected(body[k])]
<1>1. text \in Seq(S) /\ Len(text) \in Nat /\ DOMAIN text = 1 .. Len(text)
  BY TextIs
<1>2. Min(ends) \in 1 .. Len(text)
  <2>1. ends # {} /\ ends \in SUBSET (1 .. Len(text))
    BY <1>1 DEF ClassAccepts, HasForm
  <2> HIDE DEF ends
  <2>2. Min(ends) \in ends
    BY <1>1, <2>1, MinOfPositions
  <2> QED
    BY <2>1, <2>2
<1>3. body = SubSeq(text, Min(ends) + 1, Len(text))
  BY DEF ClassBody, From
<1> DEFINE m == Min(ends)
<1>4. m \in 1 .. Len(text) /\ body = SubSeq(text, m + 1, Len(text))
  BY <1>2, <1>3
<1> HIDE DEF S, ends, body, m
<1>5. body \in Seq(S)
  <2>1. \A k \in m + 1 .. Len(text) : text[k] \in S
    BY <1>1, <1>4, ElementOfSeq
  <2> QED
    BY <1>1, <1>4, <2>1, SubSeqProperties
<1>6. n \in Nat /\ DOMAIN body = 1 .. n /\ \A k \in 1 .. n : body[k] \in S
  BY <1>5, LenProperties, ElementOfSeq
<1>7. n # 0
  BY <1>6 DEF ClassAccepts, HasForm, body
<1>8. body[1].form = "VB_Name" /\ \A k \in 2 .. n : body[k].form \notin {"VB_Name", "VERSION"}
  BY DEF InBinForm, body
<1> HIDE DEF n
<1>9. ASSUME NEW k \in 1 .. n
      PROVE  /\ parts[k] \in Seq(T) /\ parts[k] # << >> /\ parts[k][1] = body[k]
             /\ \A j \in 2 .. Len(parts[k]) : parts[k][j].form \notin {"VB_Name", "VERSION"}
  <2>1. parts[k] = << body[k] >> \o Injected(body[k]) /\ body[k] \in S
    BY <1>6
  <2> HIDE DEF parts, T
  <2> QED
    BY <2>1, InjectedIs DEF T
<1>10. Len(parts) = n
  BY <1>6
<1> HIDE DEF parts, T
<1>11. ASSUME NEW k \in 1 .. n, NEW j \in 2 .. Len(parts[k])
       PROVE  parts[k][j] \in P
  <2>1. parts[k] \in Seq(T) /\ j \in 1 .. Len(parts[k])
    <3>1. Len(parts[k]) \in Nat
      BY <1>9, LenProperties
    <3> QED
      BY <1>9, <3>1
  <2>2. parts[k][j] \in T
    BY <2>1, ElementOfSeq
  <2> QED
    BY <1>9, <2>2
<1>12. ASSUME NEW k \in 2 .. n, NEW j \in 1 .. Len(parts[k])
       PROVE  parts[k][j] \in P
  <2>1. k \in 1 .. n /\ Len(parts[k]) \in Nat
    BY <1>6, <1>9, LenProperties
  <2>2. CASE j = 1
    <3>1. parts[k][1] \in T
      BY <1>9, <2>1, <2>2, ElementOfSeq
    <3> QED
      BY <1>8, <1>9, <2>1, <2>2, <3>1
  <2>3. CASE j # 1
    <3>1. j \in 2 .. Len(parts[k])
      BY <2>1, <2>3
    <3> QED
      BY <1>11, <2>1, <3>1
  <2> QED
    BY <2>2, <2>3
<1>13. LET w == FlattenSeq(parts)
       IN  /\ w \in Seq(T) /\ w # << >> /\ w[1] = parts[1][1]
           /\ \A k \in 2 .. Len(w) : w[k] \in P
  <2>1. P \in SUBSET T /\ n \in Nat \ {0} /\ 1 \in 1 .. n
    BY <1>6, <1>7
  <2> HIDE DEF P
  <2> QED
    BY <1>9, <1>10, <1>11, <1>12, <2>1, FlattenHead
<1>14. normalizeClass(text) = FlattenSeq(parts)
  BY DEF normalizeClass, parts, body
<1>15. parts[1][1] = body[1]
  BY <1>6, <1>7, <1>9
<1> QED
  BY <1>8, <1>13, <1>14, <1>15 DEF InBinForm

\* The header of a source in the form of the stream, in front of code, is in
\* that form.
LEMMA HeaderForm ==
  ASSUME NEW existing, IsText(existing), InBinForm(existing), Header(existing) # << >>,
         NEW S, NEW c \in Seq(S), \A k \in DOMAIN c : c[k].form \notin {"VB_Name", "VERSION"}
  PROVE  InBinForm(Header(existing) \o c)
<1> DEFINE T == {existing[k] : k \in DOMAIN existing}
           h == Header(existing)
<1>1. existing \in Seq(T) /\ Len(existing) \in Nat
  BY TextIs
<1> HIDE DEF T
<1>2. /\ h \in Seq(T) /\ Len(h) \in Nat /\ Len(h) <= Len(existing)
      /\ \A k \in 1 .. Len(h) : h[k] = existing[k]
  BY <1>1, HeaderIs
<1> HIDE DEF h
<1>3. Len(h) >= 1
  BY <1>2, LenProperties DEF h
<1>4. h \in Seq(T \cup S) /\ c \in Seq(T \cup S) /\ Len(c) \in Nat /\ DOMAIN c = 1 .. Len(c)
  BY <1>2, LenProperties
<1> DEFINE w == h \o c
<1>5. /\ Len(w) = Len(h) + Len(c)
      /\ \A k \in 1 .. Len(h) : w[k] = h[k]
      /\ \A k \in 1 .. Len(c) : w[Len(h) + k] = c[k]
  BY <1>4, ConcatIndex
<1> HIDE DEF w
<1>6. w[1].form = "VB_Name"
  BY <1>2, <1>3, <1>5 DEF InBinForm
<1>7. ASSUME NEW k \in 2 .. Len(w)
      PROVE  w[k].form \notin {"VB_Name", "VERSION"}
  <2>1. CASE k <= Len(h)
    <3>1. k \in 1 .. Len(h) /\ k \in 2 .. Len(existing)
      BY <1>1, <1>2, <1>4, <1>5, <2>1
    <3>2. w[k] = existing[k]
      BY <1>2, <1>5, <3>1
    <3> QED
      BY <3>1, <3>2 DEF InBinForm
  <2>2. CASE k > Len(h)
    <3>1. k - Len(h) \in 1 .. Len(c) /\ k = Len(h) + (k - Len(h))
      BY <1>2, <1>4, <1>5, <2>2
    <3> QED
      BY <1>4, <1>5, <3>1
  <2> QED
    BY <1>2, <1>4, <1>5, <2>1, <2>2
<1> QED
  BY <1>6, <1>7 DEF InBinForm, w, h

\* An import on a source in the form of the stream gives such a source.
LEMMA ImportForm ==
  ASSUME NEW type \in ModuleTypes, NEW disk \in Disks[type], NEW existing, IsText(existing),
         InBinForm(existing), Accepts(type, disk, existing)
  PROVE  InBinForm(NormalizeModuleSource(type, disk, existing))
<1>1. /\ IsText(disk) /\ Exported(type, disk)
      /\ type \in {"ModuleStd", "ModuleClass", "ModuleDocument", "ModuleForm"}
  BY TextsAssumption DEF TextsAssumption, ModuleTypes
<1>2. CASE type = "ModuleStd"
  <2>1. StdAccepts(toCRLF(disk))
    BY <1>2 DEF Accepts
  <2>2. InBinForm(toCRLF(disk))
    BY <1>1, <1>2, <2>1 DEF Exported
  <2> QED
    BY <1>2, <2>2 DEF NormalizeModuleSource
<1>3. CASE type = "ModuleClass"
  <2>1. ClassAccepts(toCRLF(disk))
    BY <1>3 DEF Accepts
  <2>2. InBinForm(ClassBody(toCRLF(disk)))
    BY <1>1, <1>3, <2>1 DEF Exported
  <2>3. InBinForm(normalizeClass(toCRLF(disk)))
    BY <1>1, <2>1, <2>2, DiskText, ClassForm
  <2> QED
    BY <1>3, <2>3 DEF NormalizeModuleSource
<1>4. CASE type \in HeaderTypes
  <2> DEFINE c == Behind(type, toCRLF(disk))
  <2>1. /\ NormalizeModuleSource(type, disk, existing) = Header(existing) \o c
        /\ Header(existing) # << >>
        /\ \E S : c \in Seq(S)
        /\ \A k \in DOMAIN c : c[k].form \notin {"VB_Name", "VERSION"}
    BY <1>4, BehindIs
  <2> HIDE DEF c
  <2> QED
    BY <2>1, HeaderForm
<1> QED
  BY <1>1, <1>2, <1>3, <1>4 DEF HeaderTypes

\* Imports lead from a file in the form of the stream to such files, whatever
\* their history: a source has its VB_Name line first and once, and no VERSION
\* block.
THEOREM KeepsFormHolds ==
  ASSUME Edits = {}, ProjectsKnown
  PROVE  ViewSpec => []KeepsForm
<1>1. ASSUME TypeInv, ContractInv, HistoryInv
      PROVE  KeepsForm
  <2> SUFFICES ASSUME NEW m \in Held, InBinForm(Original(m.Name).Source)
               PROVE  InBinForm(m.Source)
    BY DEF KeepsForm
  <2>1. m \in HeldBy(bin, proj)
    BY DEF Held, HeldBy
  <2>2. Readable(orig) /\ IsFile(orig)
    BY <1>1, <2>1, HeldIs DEF HistoryInv, ContractInv, TypeInv, TypeOK
  <2>3. PICK k \in DOMAIN Decomposed(orig).Modules :
               /\ Decomposed(orig).Modules[k].Name = m.Name
               /\ Derives(m.Type, m.Source, Decomposed(orig).Modules[k].Source)
    BY <1>1, <2>1 DEF HistoryInv, Comes
  <2> DEFINE first == Decomposed(orig).Modules[k]
  <2>4. Original(m.Name) = first
    BY <1>1, <2>2, <2>3, OriginalIs DEF HistoryInv
  <2>5. InBinForm(first.Source) /\ IsText(first.Source)
    <3>1. first \in ModuleType
      BY <2>2, FirstModules
    <3> QED
      BY <2>4, <3>1, TextsAssumption DEF TextsAssumption, ModuleType
  <2>6. m.Type \in ModuleTypes
    BY <1>1, <2>1, HeldTypes
  <2> HIDE DEF first
  <2>7. Derives(m.Type, m.Source, first.Source)
    BY <2>3 DEF first
  <2> QED
    BY <2>5, <2>6, <2>7, ImportForm DEF Derives
<1>2. Init /\ view = View(bin, proj) => Inv
  BY InitMaps
<1>3. Inv /\ [ViewNext]_<< vars, view >> => Inv'
  BY ViewStep
<1>4. Inv /\ HistoryInv => KeepsForm
  BY <1>1 DEF Inv
<1> QED
  BY <1>2, <1>3, <1>4, HistoryInvariant, PTL DEF ViewSpec, ViewNext
=============================================================================
