---------------------------- MODULE MCReadBytes ----------------------------
(***************************************************************************)
(* Dir streams as a host writes them, whole, cut off at every byte and     *)
(* with one wrong byte; protection records of every seed.                  *)
(***************************************************************************)
EXTENDS ReadBytes, Bitwise

BitXor(a, b) == a ^^ b

RecordOf(id, payload) == << [id |-> id, payload |-> payload] >>

\* Information; PROJECTVERSION holds what could be taken for a size.
Info(cp) ==
  RecordOf(SysKind, LE(3, 4)) \o RecordOf(LCID, LE(9, 4)) \o RecordOf(CodePageId, LE(cp, 2))
    \o RecordOf(Version, LE(4, 4) \o << 7, 5, 11, 6, 1, 1 >>)

\* A reference, with its name a second time inside REFERENCECONTROL.
Ref(name) == RecordOf(ReferenceName, name) \o RecordOf(13, << 2 >>)
Control(name) == Ref(name) \o RecordOf(ReferenceName, name) \o RecordOf(48, << 1 >>)

\* A module as the host saves it, with its code behind p-code.
Entry(name, stream, type) ==
  RecordOf(ModuleName, name) \o RecordOf(StreamNameId, stream)
    \o RecordOf(ModuleOffset, LE(35, 4)) \o RecordOf(type, << >>) \o RecordOf(ModuleEnd, << >>)

Section(entries) ==
  RecordOf(ProjectModules, LE(2, 2)) \o RecordOf(ProjectCookie, << 3, 4 >>)
    \o FlattenSeq(entries) \o RecordOf(Terminator, << >>)

\* References or none, a stream name that differs, or is empty.
Full == Info(164) \o Control(<< 5 >>) \o Ref(<< 6, 7 >>)
          \o Section(<< Entry(<< 10 >>, << 11 >>, 33), Entry(<< 12, 10 >>, << >>, 34) >>)
Lean == Info(4) \o Section(<< Entry(<< 9, 9 >>, << 9, 9 >>, 34) >>)

\* Out of order: a reference behind the modules too.
Stray == Info(4) \o Ref(<< 5 >>) \o Section(<< Entry(<< 9 >>, << 9 >>, 34) >>) \o Ref(<< 6 >>)

DirOf(made, kind, bytes) == [made |-> made, kind |-> kind, plain |-> bytes]

MCWhole == {DirOf(made, "whole", Whole(made)) : made \in {Full, Lean, Stray}}

MCDirs ==
  MCWhole
    \cup {DirOf(Full, "cut", SubSeq(Whole(Full), 1, n)) : n \in 0 .. Len(Whole(Full)) - 1}
    \cup {DirOf(Full, "changed", [Whole(Full) EXCEPT ![n] = b]) :
            n \in DOMAIN Whole(Full), b \in {0, 1, 2, 9, 15}}

-----------------------------------------------------------------------------
Cmg(text, raw, made) == [caller |-> "isProtected", text |-> text, raw |-> raw, made |-> made]
Direct(raw, made)    == [caller |-> "DecryptData", text |-> "hex", raw |-> raw, made |-> made]

Ignored(seed) == [j \in 1 .. ignoredLen(seed) |-> (seed + j) % Base]

States == {<< a, 0, 0, 0 >> : a \in {0, 1, 2, 4, 8, 15}} \cup {<< 8, 1, 15, 7 >>}

\* As a tuple, in which TLC changes single bytes.
Sound(seed, key, data) ==
  SubSeq(Structure(seed, key, Ignored(seed), data), 1, 3 + ignoredLen(seed) + 4 + Len(data))

Keys == {0, 9}

Made(seed, key, data) == << [key |-> key, ignored |-> Ignored(seed), data |-> data] >>

\* Encryptions; one of them cut off, made longer or changed in one byte.
MCRecords ==
  {Cmg("empty", << >>, << >>), Cmg("other", << >>, << >>)}
    \cup {Cmg("hex", Sound(seed, key, state), Made(seed, key, state)) :
            seed \in Byte, key \in Keys, state \in States}
    \cup {Direct(Sound(seed, key, data), Made(seed, key, data)) :
            seed \in Byte, key \in Keys, data \in {<< >>, << 3 >>, << 1, 2, 3, 4, 5 >>}}
    \cup UNION {{Cmg("hex", raw, << >>), Direct(raw, << >>)} :
            raw \in UNION {{SubSeq(Sound(seed, 9, << 1, 0, 0, 0 >>), 1, n) :
                              n \in 0 .. 10 + ignoredLen(seed)} : seed \in {0, 6}}
                    \cup {Append(Sound(seed, 9, << 1, 0, 0, 0 >>), 5) : seed \in {0, 6}}
                    \cup UNION {{[Sound(seed, 9, << 0, 0, 0, 0 >>) EXCEPT ![n] = b] :
                              n \in 1 .. 11 + ignoredLen(seed), b \in Byte} : seed \in {0, 2}}}

\* Every dir stream without a record, and every record with a short stream.
MCInputs ==
  [dir : MCDirs, record : {Cmg("empty", << >>, << >>)}]
    \cup [dir : {DirOf(Lean, "whole", Whole(Lean))}, record : MCRecords]
=============================================================================
