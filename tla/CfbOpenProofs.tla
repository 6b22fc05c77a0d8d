--------------------------- MODULE CfbOpenProofs ---------------------------
(***************************************************************************)
(* Open on any value of the variable file: what it does when the chains    *)
(* and the directory of the file are cyclic, cut off or nonsense, and that *)
(* it computes what CfbReader and CfbWalk say of the file.                 *)
(***************************************************************************)
EXTENDS CfbOpenResult, CfbWalkProofs

Injective(s) == \A i, j \in DOMAIN s : s[i] = s[j] => i = j

IsFrame(f) == f = [idx |-> f.idx, prefix |-> f.prefix, stage |-> f.stage]

-----------------------------------------------------------------------------
(***************************************************************************)
(* Sequences whose elements are anything at all.                           *)
(***************************************************************************)

\* The elements of a sequence, and one more, make a set.
LEMMA Typed == ASSUME NEW s, IsSeq(s), NEW e
               PROVE  \E S : s \in Seq(S) /\ e \in S
<1> DEFINE S == {s[k] : k \in 1 .. Len(s)} \cup {e}
<1>1. [k \in 1 .. Len(s) |-> s[k]] \in Seq(S)
  BY IsASeq DEF IsSeq
<1> QED BY <1>1 DEF IsSeq

\* A longer sequence, place by place.
LEMMA Appended ==
  ASSUME NEW s, IsSeq(s), NEW e
  PROVE  /\ IsSeq(Append(s, e))
         /\ DOMAIN s = 1 .. Len(s)
         /\ DOMAIN Append(s, e) = 1 .. Len(s) + 1
         /\ Len(Append(s, e)) = Len(s) + 1
         /\ Append(s, e)[Len(s) + 1] = e
         /\ \A k \in 1 .. Len(s) : Append(s, e)[k] = s[k]
<1>1. PICK S : s \in Seq(S) /\ e \in S  BY Typed
<1> DEFINE t == Append(s, e)
<1>2. /\ t \in Seq(S) /\ Len(t) = Len(s) + 1 /\ t[Len(s) + 1] = e
      /\ \A k \in 1 .. Len(s) : t[k] = s[k]
  BY <1>1, AppendProperties
<1>3. /\ Len(t) \in Nat /\ DOMAIN t = 1 .. Len(t) /\ DOMAIN s = 1 .. Len(s)
      /\ t \in [1 .. Len(t) -> S]
  BY <1>1, <1>2, LenProperties
<1>4. t = [k \in 1 .. Len(t) |-> t[k]]  BY <1>3
<1> QED BY <1>2, <1>3, <1>4, Zenon DEF IsSeq

\* A sequence without its last element, place by place.
LEMMA Fronted ==
  ASSUME NEW s, IsSeq(s), s # << >>
  PROVE  /\ IsSeq(Front(s))
         /\ Len(s) \in Nat \ {0}
         /\ DOMAIN s = 1 .. Len(s)
         /\ Len(Front(s)) = Len(s) - 1
         /\ \A k \in 1 .. Len(s) - 1 : Front(s)[k] = s[k]
<1>1. PICK S : s \in Seq(S)  BY Typed
<1>2. Len(s) \in Nat \ {0}  BY <1>1 DEF IsSeq
<1>3. Front(s) = SubSeq(s, 1, Len(s) - 1)  BY DEF Front
<1>4. Front(s) \in Seq(S)  BY <1>1, <1>2, <1>3
<1> QED BY <1>1, <1>2, <1>3, <1>4 DEF IsSeq

\* The element at the end replaced: what MovedTo does to the stack.
LEMMA Replaced ==
  ASSUME NEW s, IsSeq(s), s # << >>, NEW e
  PROVE  /\ IsSeq(Append(Front(s), e))
         /\ Append(Front(s), e) # << >>
         /\ DOMAIN s = 1 .. Len(s)
         /\ Len(s) \in Nat \ {0}
         /\ Len(Append(Front(s), e)) = Len(s)
         /\ DOMAIN Append(Front(s), e) = 1 .. Len(s)
         /\ Append(Front(s), e)[Len(s)] = e
         /\ \A k \in 1 .. Len(s) - 1 : Append(Front(s), e)[k] = s[k]
<1>1. /\ IsSeq(Front(s)) /\ Len(s) \in Nat \ {0} /\ DOMAIN s = 1 .. Len(s)
      /\ Len(Front(s)) = Len(s) - 1
      /\ \A k \in 1 .. Len(s) - 1 : Front(s)[k] = s[k]
  BY Fronted
<1> DEFINE f == Front(s)
<1>2. IsSeq(f) /\ Len(f) = Len(s) - 1  BY <1>1
<1> HIDE DEF f
<1> DEFINE t == Append(f, e)
<1>3. /\ IsSeq(t)
      /\ DOMAIN t = 1 .. Len(f) + 1
      /\ Len(t) = Len(f) + 1
      /\ t[Len(f) + 1] = e
      /\ \A k \in 1 .. Len(f) : t[k] = f[k]
  <2>1. IsSeq(f)  BY <1>2
  <2> QED BY <2>1, Appended
<1>4. Len(f) + 1 = Len(s)  BY <1>1, <1>2
<1>5. \A k \in 1 .. Len(s) - 1 : t[k] = s[k]
  BY <1>1, <1>2, <1>3 DEF f
<1> HIDE DEF t
<1>6. t # << >>
  BY <1>1, <1>3, <1>4
<1>7. /\ IsSeq(t) /\ t # << >> /\ DOMAIN s = 1 .. Len(s) /\ Len(s) \in Nat \ {0}
      /\ Len(t) = Len(s) /\ DOMAIN t = 1 .. Len(s) /\ t[Len(s)] = e
      /\ \A k \in 1 .. Len(s) - 1 : t[k] = s[k]
  BY <1>1, <1>3, <1>4, <1>5, <1>6, Zenon
<1> QED BY <1>7 DEF t, f

-----------------------------------------------------------------------------
(***************************************************************************)
(* The inductive invariant.  NothingTwice speaks of what was returned; the *)
(* calls of walkDir that are open tell what can still be returned, and     *)
(* they must be apart from each other and from it.                         *)
(***************************************************************************)

Shapes == /\ IsSeq(out) /\ IsSeq(stack) /\ IsSeq(order)
          /\ \A p \in DOMAIN stack : IsFrame(stack[p])

ChainOK == /\ phase \in Phases
           /\ Injective(out)
           /\ phase \in Chains \ {"minicontent"} => ToSet(out) \subseteq DOMAIN Image

\* Before the walk nothing is visited.
Early == phase \notin {"walk", "content", "minicontent", "done", "error"} =>
           stack = << >> /\ visited = {} /\ order = << >>

FramesOK ==
  /\ visited \subseteq 0 .. Len(entries) - 1
  /\ \A p \in DOMAIN stack : /\ stack[p].stage \in {"left", "self", "right"}
                             /\ stack[p].stage # "left" => stack[p].idx \in visited
  /\ phase \in {"content", "minicontent"} =>
       stack # << >> /\ Top.stage = "self" /\ Me.type = "stream"

OrderOK ==
  \A i \in DOMAIN order :
    /\ order[i].idx \in visited
    /\ entries[order[i].idx + 1].type = "stream"

\* An entry is returned once, and not while a call is about to return it; two
\* calls are never about to return the same.
Apart ==
  /\ \A i, j \in DOMAIN order : order[i].idx = order[j].idx => i = j
  /\ \A p \in DOMAIN stack, i \in DOMAIN order :
       stack[p].stage = "self" => order[i].idx # stack[p].idx
  /\ \A p, q \in DOMAIN stack :
       stack[p].stage = "self" /\ stack[q].stage = "self" /\ stack[p].idx = stack[q].idx
         => p = q

IInv == Shapes /\ ChainOK /\ Early /\ FramesOK /\ OrderOK /\ Apart

\* The invariant holds before the call.
LEMMA InitIInv == Idle => IInv
<1> SUFFICES ASSUME Idle PROVE IInv  OBVIOUS
<1>1. IsSeq(<< >>)  BY DEF IsSeq
<1>2. DOMAIN << >> = {}  OBVIOUS
<1> QED
  BY <1>1, <1>2 DEF Idle, Blank, IInv, Shapes, ChainOK, Early, FramesOK, OrderOK,
       Apart, Injective, Phases, Chains

-----------------------------------------------------------------------------
(***************************************************************************)
(* The steps of the chains leave the walk alone.                           *)
(***************************************************************************)

walkVars == << stack, visited, found, entries >>

\* A step that leaves the walk alone keeps the invariant if its chain does.
LEMMA WalkKept ==
  ASSUME IInv, UNCHANGED walkVars, UNCHANGED file,
         phase' \in Phases,
         phase' \in {"content", "minicontent"} =>
           stack # << >> /\ Top.stage = "self" /\ Me.type = "stream",
         phase \in {"walk", "content", "minicontent", "done", "error"}
           => phase' \in {"walk", "content", "minicontent", "done", "error"},
         IsSeq(out') /\ Injective(out'),
         phase' \in Chains \ {"minicontent"} => ToSet(out') \subseteq DOMAIN Image
  PROVE  IInv'
<1>1. Shapes'  BY DEF IInv, Shapes, walkVars, found
<1>2. ChainOK'  BY DEF IInv, ChainOK, Image
<1>3. Early'  BY DEF IInv, Early, walkVars, found
<1>4. FramesOK'  BY DEF IInv, FramesOK, walkVars, Top, Me, Last
<1>5. OrderOK'  BY DEF IInv, OrderOK, walkVars, found
<1>6. Apart'  BY DEF IInv, Apart, walkVars, found
<1> QED BY <1>1, <1>2, <1>3, <1>4, <1>5, <1>6 DEF IInv

\* The chain that a loop begins with.
LEMMA EmptyChain == IsSeq(<< >>) /\ Injective(<< >>) /\ ToSet(<< >>) = {}
<1>1. DOMAIN << >> = {}  OBVIOUS
<1>2. IsSeq(<< >>)  BY DEF IsSeq
<1> QED BY <1>1, <1>2 DEF Injective, ToSet

\* A number that is not in a chain without repetitions can be added to it.
LEMMA LongerChain ==
  ASSUME NEW s, IsSeq(s), Injective(s), NEW n, n \notin ToSet(s)
  PROVE  /\ IsSeq(Append(s, n)) /\ Injective(Append(s, n))
         /\ ToSet(Append(s, n)) = ToSet(s) \cup {n}
<1> DEFINE t == Append(s, n)
<1>1. /\ IsSeq(t)
      /\ DOMAIN s = 1 .. Len(s)
      /\ DOMAIN t = 1 .. Len(s) + 1
      /\ t[Len(s) + 1] = n
      /\ \A j \in 1 .. Len(s) : t[j] = s[j]
  BY Appended
<1>2. Len(s) \in Nat  BY DEF IsSeq
<1> HIDE DEF t
<1>3. Injective(t)
  BY <1>1, <1>2 DEF Injective, ToSet
<1>4. ToSet(t) = ToSet(s) \cup {n}
  BY <1>1, <1>2 DEF ToSet
<1> QED BY <1>1, <1>3, <1>4 DEF t

\* Every step of a loop over a chain is such a step.
LEMMA ChainSteps ==
  ASSUME IInv,
         \/ BadHeader \/ ReadHeader \/ FollowDifat \/ EndDifat \/ AppendFat
         \/ FollowChain \/ StartDirectory \/ NoDirectory \/ ReadContainer
         \/ StartContent \/ Opened
  PROVE  IInv'
<1> USE DEF walkVars, found, chain, fatSt, mini
<1>0. IsSeq(out) /\ Injective(out) /\ phase \in Phases  BY DEF IInv, Shapes, ChainOK
<1>1. CASE BadHeader
  BY <1>0, <1>1, WalkKept DEF BadHeader, Phases, Chains
<1>2. CASE ReadHeader
  BY <1>0, <1>2, WalkKept DEF ReadHeader, Phases, Chains
<1>3. CASE FollowDifat
  BY <1>0, <1>3, WalkKept, LongerChain DEF FollowDifat, DifatGoesOn, Phases, Chains
<1>4. CASE EndDifat
  BY <1>0, <1>4, WalkKept DEF EndDifat, Phases, Chains
<1>5. CASE AppendFat
  BY <1>0, <1>5, WalkKept DEF AppendFat, Phases, Chains
<1>6. CASE FollowChain
  <2>1. IsSeq(out') /\ Injective(out') /\ ToSet(out') = ToSet(out) \cup {at}
    BY <1>0, <1>6, LongerChain DEF FollowChain, GoesOn
  <2>2. phase \in Chains \ {"minicontent"} => ToSet(out') \subseteq DOMAIN Image
    BY <1>6, <2>1 DEF FollowChain, GoesOn, Present, IInv, ChainOK
  <2> QED BY <1>0, <1>6, <2>1, <2>2, WalkKept DEF FollowChain, IInv, FramesOK
<1>7. CASE StartDirectory
  BY <1>7, WalkKept, EmptyChain DEF StartDirectory, StartChain, Phases, Chains
<1>8. CASE NoDirectory
  BY <1>0, <1>8, WalkKept DEF NoDirectory, ChainEnds, Phases, Chains
<1>9. CASE ReadContainer
  BY <1>9, WalkKept, EmptyChain DEF ReadContainer, ChainEnds, StartChain, Phases, Chains
<1>10. CASE StartContent
  BY <1>10, WalkKept, EmptyChain DEF StartContent, At, StartChain, Phases, Chains
<1>11. CASE Opened
  BY <1>0, <1>11, WalkKept DEF Opened, Phases, Chains
<1> QED BY <1>1, <1>2, <1>3, <1>4, <1>5, <1>6, <1>7, <1>8, <1>9, <1>10, <1>11

-----------------------------------------------------------------------------
(***************************************************************************)
(* The steps of the walk.                                                  *)
(***************************************************************************)

\* The directory is read, and the walk begins.
LEMMA StartWalkSteps ==
  ASSUME IInv, ReadDirectory \/ ReadMiniFat
  PROVE  IInv'
<1>1. CASE ReadDirectory
  <2> USE <1>1 DEF ReadDirectory, ChainEnds, StartChain, mini, found
  <2>1. stack = << >> /\ visited = {} /\ order = << >>
    BY DEF IInv, Early
  <2>2. stack' = << >> /\ visited' = {} /\ order' = << >> /\ out' = << >>
    BY <2>1
  <2>3. DOMAIN << >> = {}  OBVIOUS
  <2>4. phase' = "container"  OBVIOUS
  <2> QED
    BY <2>2, <2>3, <2>4, EmptyChain DEF IInv, Shapes, ChainOK, Early, FramesOK, OrderOK,
         Apart, Phases, Chains
<1>2. CASE ReadMiniFat
  <2> USE <1>2 DEF ReadMiniFat, ChainEnds, chain, found
  <2>1. visited = {} /\ order = << >> /\ phase' = "walk"
    BY DEF IInv, Early
  <2>2. visited' = {} /\ order' = << >> /\ out' = out
    BY <2>1
  <2>3. DOMAIN << >> = {}  OBVIOUS
  <2> DEFINE f == Frame(entries[1].child, << >>)
  <2>4. stack' = << f >>  OBVIOUS
  <2>5. IsFrame(f) /\ f.stage = "left"  BY DEF Frame, IsFrame
  <2> HIDE DEF f
  <2>6. IsSeq(stack') /\ DOMAIN stack' = {1} /\ stack'[1] = f
    BY <2>4 DEF IsSeq
  <2>7. Shapes'  BY <2>2, <2>5, <2>6, EmptyChain DEF IInv, Shapes
  <2>8. ChainOK'  BY <2>1, <2>2 DEF IInv, ChainOK, Phases, Chains
  <2>9. Early'  BY <2>1 DEF Early
  <2>10. FramesOK'  BY <2>1, <2>2, <2>5, <2>6 DEF FramesOK
  <2>11. OrderOK'  BY <2>2, <2>3 DEF OrderOK
  <2>12. Apart'  BY <2>2, <2>3, <2>5, <2>6 DEF Apart
  <2> QED BY <2>7, <2>8, <2>9, <2>10, <2>11, <2>12 DEF IInv
<1> QED BY <1>1, <1>2

\* The top of the stack is a frame, at any stage.
LEMMA TopFrame ==
  ASSUME Shapes, stack # << >>, NEW stage
  PROVE  LET f == [Top EXCEPT !.stage = stage]
         IN  IsFrame(Top) /\ IsFrame(f) /\ f.idx = Top.idx /\ f.stage = stage
<1>1. Len(stack) \in DOMAIN stack  BY Fronted DEF Shapes
<1>2. IsFrame(Top)  BY <1>1 DEF Shapes, Top, Last
<1> QED BY <1>2 DEF IsFrame

\* A place on the stack is below the top, the top or above it.
LEMMA Positions ==
  ASSUME NEW n \in Nat \ {0}
  PROVE  /\ \A p \in 1 .. n + 1 : p \in 1 .. n - 1 \/ p = n \/ p = n + 1
         /\ \A p \in 1 .. n : p \in 1 .. n - 1 \/ p = n
         /\ \A p \in 1 .. n - 1 : p \in 1 .. n
OBVIOUS

\* t is the stack with f in the place of its top and g above it.
IsDeeper(t, f, g) ==
  /\ IsSeq(t) /\ Len(stack) \in Nat \ {0} /\ DOMAIN stack = 1 .. Len(stack)
  /\ DOMAIN t = 1 .. Len(stack) + 1
  /\ \A p \in DOMAIN t : IsFrame(t[p])
  /\ t[Len(stack) + 1] = g
  /\ t[Len(stack)] = f
  /\ \A p \in 1 .. Len(stack) - 1 : t[p] = stack[p]

\* A call is made from the top frame.
LEMMA Deeper ==
  ASSUME Shapes, stack # << >>, NEW f, IsFrame(f), NEW g, IsFrame(g),
         NEW t, t = Append(Append(Front(stack), f), g)
  PROVE  IsDeeper(t, f, g)
<1> DEFINE n == Len(stack)
           s == Append(Front(stack), f)
<1>1. /\ IsSeq(s) /\ DOMAIN stack = 1 .. n /\ n \in Nat \ {0}
      /\ Len(s) = n /\ s[n] = f
      /\ \A p \in 1 .. n - 1 : s[p] = stack[p]
  BY Replaced DEF Shapes
<1>3. t = Append(s, g)  OBVIOUS
<1> HIDE DEF s
<1>4. /\ IsSeq(t) /\ DOMAIN t = 1 .. n + 1 /\ t[n + 1] = g /\ t[n] = f
      /\ \A p \in 1 .. n - 1 : t[p] = stack[p]
  <2>1. IsSeq(s)  BY <1>1
  <2>2. /\ IsSeq(t) /\ DOMAIN t = 1 .. Len(s) + 1 /\ t[Len(s) + 1] = g
        /\ \A p \in 1 .. Len(s) : t[p] = s[p]
    BY <2>1, <1>3, Appended
  <2>3. /\ DOMAIN t = 1 .. n + 1 /\ t[n + 1] = g /\ n \in 1 .. n
        /\ \A p \in 1 .. n : t[p] = s[p]
    BY <2>2, <1>1
  <2>4. t[n] = f  BY <2>3, <1>1, Zenon
  <2>5. \A p \in 1 .. n - 1 : t[p] = stack[p]
    <3>1. \A p \in 1 .. n - 1 : p \in 1 .. n  BY <1>1
    <3> QED BY <3>1, <2>3, <1>1, Zenon
  <2> QED BY <2>2, <2>3, <2>4, <2>5
<1>5. ASSUME NEW p \in DOMAIN t PROVE IsFrame(t[p])
  <2>1. CASE p \in 1 .. n - 1
    <3>1. p \in DOMAIN stack /\ t[p] = stack[p]  BY <2>1, <1>1, <1>4, Positions, Zenon
    <3> QED BY <3>1, Zenon DEF Shapes
  <2>2. CASE p = n  BY <2>2, <1>4
  <2>3. CASE p = n + 1  BY <2>3, <1>4
  <2> QED BY <1>1, <1>4, <2>1, <2>2, <2>3, Positions, Zenon
<1> QED BY <1>1, <1>4, <1>5 DEF IsDeeper

\* t is the stack with f in the place of its top.
IsBeside(t, f) ==
  /\ IsSeq(t) /\ Len(stack) \in Nat \ {0} /\ DOMAIN stack = 1 .. Len(stack)
  /\ DOMAIN t = 1 .. Len(stack) /\ t[Len(stack)] = f
  /\ \A p \in DOMAIN t : IsFrame(t[p])
  /\ \A p \in 1 .. Len(stack) - 1 : t[p] = stack[p]

\* The top frame gives way to another one.
LEMMA Sideways ==
  ASSUME Shapes, stack # << >>, NEW f, IsFrame(f), NEW t, t = Append(Front(stack), f)
  PROVE  IsBeside(t, f)
<1>1. /\ IsSeq(t) /\ DOMAIN stack = 1 .. Len(stack) /\ Len(stack) \in Nat \ {0}
      /\ DOMAIN t = 1 .. Len(stack) /\ t[Len(stack)] = f
      /\ \A p \in 1 .. Len(stack) - 1 : t[p] = stack[p]
  BY Replaced DEF Shapes
<1>2. ASSUME NEW p \in DOMAIN t PROVE IsFrame(t[p])
  <2>1. CASE p \in 1 .. Len(stack) - 1
    <3>1. p \in DOMAIN stack /\ t[p] = stack[p]  BY <2>1, <1>1, Positions, Zenon
    <3> QED BY <3>1, Zenon DEF Shapes
  <2>2. CASE p = Len(stack)  BY <2>2, <1>1
  <2> QED BY <1>1, <2>1, <2>2, Positions, Zenon
<1> QED BY <1>1, <1>2 DEF IsBeside

\* In every step that follows, the rest of the state is as it was.
LEMMA Chained ==
  ASSUME IInv, phase' = "walk", UNCHANGED << chain, entries >>
  PROVE  IsSeq(out') /\ ChainOK' /\ Early'
BY DEF IInv, Shapes, ChainOK, Early, chain, Phases, Chains

\* A step of the walk that returns nothing: of the frames, those below the top
\* are as they were, the top one may have moved on, and others are about to
\* visit a left subtree.
LEMMA Moved ==
  ASSUME IInv, phase' = "walk", UNCHANGED << chain, entries, order >>,
         IsSeq(stack'),
         visited \subseteq visited', visited' \subseteq 0 .. Len(entries) - 1,
         \A p \in DOMAIN stack' :
           /\ IsFrame(stack'[p])
           /\ \/ p \in DOMAIN stack /\ stack'[p] = stack[p]
              \/ stack'[p].stage = "left"
              \/ stack'[p].stage = "right" /\ stack'[p].idx \in visited'
              \/ /\ stack'[p].stage = "self" /\ p = Len(stack)
                 /\ stack'[p].idx \in visited' \ visited
  PROVE  IInv'
<1>1. Shapes'  BY Chained DEF Shapes, IInv
<1>2. ChainOK' /\ Early'  BY Chained
<1>3. FramesOK'
  <2>1. ASSUME NEW p \in DOMAIN stack'
        PROVE  /\ stack'[p].stage \in {"left", "self", "right"}
               /\ stack'[p].stage # "left" => stack'[p].idx \in visited'
    BY <2>1 DEF FramesOK, IInv
  <2> QED BY <2>1 DEF FramesOK
<1>4. OrderOK'  BY DEF OrderOK, IInv
<1>5. Apart'
  <2>1. ASSUME NEW p \in DOMAIN stack', stack'[p].stage = "self"
        PROVE  \/ p \in DOMAIN stack /\ stack'[p] = stack[p] /\ stack'[p].idx \in visited
               \/ p = Len(stack) /\ stack'[p].idx \notin visited
    BY <2>1 DEF FramesOK, IInv
  <2>2. \A i, j \in DOMAIN order' : order'[i].idx = order'[j].idx => i = j
    BY DEF Apart, IInv
  <2>3. ASSUME NEW p \in DOMAIN stack', NEW i \in DOMAIN order', stack'[p].stage = "self"
        PROVE  order'[i].idx # stack'[p].idx
    <3>1. order[i].idx \in visited  BY DEF OrderOK, IInv
    <3> QED BY <2>1, <2>3, <3>1 DEF Apart, IInv
  <2>4. ASSUME NEW p \in DOMAIN stack', NEW q \in DOMAIN stack',
               stack'[p].stage = "self", stack'[q].stage = "self",
               stack'[p].idx = stack'[q].idx
        PROVE  p = q
    BY <2>1, <2>4 DEF Apart, IInv
  <2> QED BY <2>2, <2>3, <2>4 DEF Apart
<1> QED BY <1>1, <1>2, <1>3, <1>4, <1>5 DEF IInv

\* The entry that the top frame is about.
LEMMA TopIn ==
  ASSUME IInv, stack # << >>
  PROVE  /\ Shapes /\ Len(stack) \in DOMAIN stack /\ Top = stack[Len(stack)]
         /\ Top.stage # "left" => Top.idx \in visited
<1>1. Shapes  BY DEF IInv
<1>2. Len(stack) \in DOMAIN stack /\ Top = stack[Len(stack)]
  BY <1>1, Fronted DEF Shapes, Top, Last
<1> QED BY <1>1, <1>2 DEF FramesOK, IInv

\* A new frame has its left subtree before it.
LEMMA FrameIs ==
  ASSUME NEW idx, NEW prefix
  PROVE  IsFrame(Frame(idx, prefix)) /\ Frame(idx, prefix).stage = "left"
BY DEF Frame, IsFrame

\* An entry is marked and its left subtree entered.
LEMMA VisitStep == ASSUME IInv, Visit PROVE IInv'
<1> DEFINE n == Len(stack)
<1>1. /\ phase' = "walk" /\ UNCHANGED << chain, entries, order >>
      /\ stack # << >> /\ Top.idx \notin visited /\ Top.idx \in 0 .. Len(entries) - 1
      /\ visited' = visited \cup {Top.idx}
      /\ stack' = Append(MovedTo("self"), Frame(Me.left, Top.prefix))
  BY DEF Visit, At, Visitable, found
<1>2. PICK g : IsFrame(g) /\ g.stage = "left" /\ stack' = Append(MovedTo("self"), g)
  BY <1>1, FrameIs
<1>3. Shapes  BY DEF IInv
<1>4. /\ IsSeq(stack') /\ n \in Nat \ {0} /\ DOMAIN stack = 1 .. n
      /\ DOMAIN stack' = 1 .. n + 1
      /\ \A p \in DOMAIN stack' : IsFrame(stack'[p])
      /\ stack'[n + 1] = g
      /\ stack'[n].idx = Top.idx /\ stack'[n].stage = "self"
      /\ \A p \in 1 .. n - 1 : stack'[p] = stack[p]
  <2>1. stack # << >> /\ IsFrame(g)  BY <1>1, <1>2
  <2>2. PICK f : /\ IsFrame(f) /\ f.idx = Top.idx /\ f.stage = "self"
                 /\ stack' = Append(Append(Front(stack), f), g)
    BY <2>1, <1>2, <1>3, TopFrame DEF MovedTo
  <2>3. IsDeeper(stack', f, g)  BY <2>1, <2>2, <1>3, Deeper
  <2>4. f.idx = Top.idx /\ f.stage = "self"  BY <2>2
  <2> QED BY <2>3, <2>4 DEF IsDeeper
<1>5. visited \subseteq visited' /\ visited' \subseteq 0 .. Len(entries) - 1
  BY <1>1 DEF FramesOK, IInv
<1>6. ASSUME NEW p \in DOMAIN stack'
      PROVE  \/ p \in DOMAIN stack /\ stack'[p] = stack[p]
             \/ stack'[p].stage = "left"
             \/ /\ stack'[p].stage = "self" /\ p = n
                /\ stack'[p].idx \in visited' \ visited
  <2>1. CASE p \in 1 .. n - 1  BY <2>1, <1>4
  <2>2. CASE p = n  BY <2>2, <1>1, <1>4
  <2>3. CASE p = n + 1  BY <2>3, <1>2, <1>4
  <2> QED BY <1>4, <2>1, <2>2, <2>3
<1> QED BY <1>1, <1>4, <1>5, <1>6, Moved

\* The call at the top returns.
LEMMA ReturnStep == ASSUME IInv, Return PROVE IInv'
<1>1. /\ phase' = "walk" /\ UNCHANGED << chain, entries, order >>
      /\ visited' = visited /\ stack # << >> /\ stack' = Front(stack)
  BY DEF Return, At, found
<1>2. /\ IsSeq(stack') /\ Len(stack) \in Nat \ {0} /\ DOMAIN stack = 1 .. Len(stack)
      /\ DOMAIN stack' = 1 .. Len(stack) - 1
      /\ \A p \in 1 .. Len(stack) - 1 : stack'[p] = stack[p]
  BY <1>1, Fronted DEF IInv, Shapes, IsSeq
<1>3. \A p \in DOMAIN stack' : p \in DOMAIN stack /\ IsFrame(stack'[p])
  BY <1>2 DEF IInv, Shapes
<1>4. visited' \subseteq 0 .. Len(entries) - 1
  BY <1>1 DEF FramesOK, IInv
<1> QED BY <1>1, <1>2, <1>3, <1>4, Moved

\* The child of a storage is entered.
LEMMA EnterStep == ASSUME IInv, EnterStorage PROVE IInv'
<1> DEFINE n == Len(stack)
<1>1. /\ phase' = "walk" /\ UNCHANGED << chain, entries, order >>
      /\ stack # << >> /\ Top.stage = "self" /\ visited' = visited
      /\ stack' = Append(MovedTo("right"), Frame(Me.child, Append(Top.prefix, Me.name)))
  BY DEF EnterStorage, At, found
<1>2. PICK g : IsFrame(g) /\ g.stage = "left" /\ stack' = Append(MovedTo("right"), g)
  BY <1>1, FrameIs
<1>3. Shapes /\ Top.idx \in visited  BY <1>1, TopIn
<1>4. /\ IsSeq(stack') /\ n \in Nat \ {0} /\ DOMAIN stack = 1 .. n
      /\ DOMAIN stack' = 1 .. n + 1
      /\ \A p \in DOMAIN stack' : IsFrame(stack'[p])
      /\ stack'[n + 1] = g
      /\ stack'[n].idx = Top.idx /\ stack'[n].stage = "right"
      /\ \A p \in 1 .. n - 1 : stack'[p] = stack[p]
  <2>1. stack # << >> /\ IsFrame(g)  BY <1>1, <1>2
  <2>2. PICK f : /\ IsFrame(f) /\ f.idx = Top.idx /\ f.stage = "right"
                 /\ stack' = Append(Append(Front(stack), f), g)
    BY <2>1, <1>2, <1>3, TopFrame DEF MovedTo
  <2>3. IsDeeper(stack', f, g)  BY <2>1, <2>2, <1>3, Deeper
  <2>4. f.idx = Top.idx /\ f.stage = "right"  BY <2>2
  <2> QED BY <2>3, <2>4 DEF IsDeeper
<1>5. visited' \subseteq 0 .. Len(entries) - 1
  BY <1>1 DEF FramesOK, IInv
<1>6. ASSUME NEW p \in DOMAIN stack'
      PROVE  \/ p \in DOMAIN stack /\ stack'[p] = stack[p]
             \/ stack'[p].stage = "left"
             \/ stack'[p].stage = "right" /\ stack'[p].idx \in visited'
  <2>1. CASE p \in 1 .. n - 1  BY <2>1, <1>4
  <2>2. CASE p = n  BY <2>2, <1>1, <1>3, <1>4
  <2>3. CASE p = n + 1  BY <2>3, <1>2, <1>4
  <2> QED BY <1>4, <2>1, <2>2, <2>3
<1> QED BY <1>1, <1>4, <1>5, <1>6, Moved

\* The top frame moves on or makes place for that of its right subtree.
LEMMA SidewaysSteps == ASSUME IInv, PassOther \/ TurnRight PROVE IInv'
<1> DEFINE n == Len(stack)
<1>1. /\ phase' = "walk" /\ UNCHANGED << chain, entries, order >>
      /\ stack # << >> /\ visited' = visited
      /\ Top.stage # "left"
  BY DEF PassOther, TurnRight, At, found
<1>2. Shapes /\ Top.idx \in visited  BY <1>1, TopIn
<1>3. \E f : /\ IsFrame(f) /\ stack' = Append(Front(stack), f)
            /\ f.stage \in {"left", "right"} /\ (f.stage = "right" => f.idx = Top.idx)
  <2>1. CASE PassOther
    BY <2>1, <1>1, <1>2, TopFrame DEF PassOther, MovedTo
  <2>2. CASE TurnRight
    BY <2>2, FrameIs DEF TurnRight
  <2> QED BY <2>1, <2>2
<1>4. PICK f : /\ IsFrame(f) /\ stack' = Append(Front(stack), f)
               /\ f.stage \in {"left", "right"} /\ (f.stage = "right" => f.idx = Top.idx)
  BY <1>3
<1>5. /\ IsSeq(stack') /\ n \in Nat \ {0} /\ DOMAIN stack = 1 .. n
      /\ DOMAIN stack' = 1 .. n /\ stack'[n] = f
      /\ \A p \in DOMAIN stack' : IsFrame(stack'[p])
      /\ \A p \in 1 .. n - 1 : stack'[p] = stack[p]
  <2>1. stack # << >> /\ IsFrame(f) /\ stack' = Append(Front(stack), f)  BY <1>1, <1>4
  <2>2. IsBeside(stack', f)  BY <2>1, <1>2, Sideways
  <2> QED BY <2>2 DEF IsBeside
<1>6. visited' \subseteq 0 .. Len(entries) - 1
  BY <1>1 DEF FramesOK, IInv
<1>7. ASSUME NEW p \in DOMAIN stack'
      PROVE  \/ p \in DOMAIN stack /\ stack'[p] = stack[p]
             \/ stack'[p].stage = "left"
             \/ stack'[p].stage = "right" /\ stack'[p].idx \in visited'
  <2>1. CASE p \in 1 .. n - 1  BY <2>1, <1>5
  <2>2. CASE p = n  BY <2>2, <1>1, <1>2, <1>4, <1>5
  <2> QED BY <1>5, <2>1, <2>2
<1> QED BY <1>1, <1>5, <1>6, <1>7, Moved

-----------------------------------------------------------------------------
(***************************************************************************)
(* The step that returns an entry: the call for it goes on to the right.   *)
(***************************************************************************)

\* A stream is returned, and no other call returns it.
LEMMA StoreStep == ASSUME IInv, StoreContent PROVE IInv'
<1> DEFINE n == Len(stack)
           m == Len(order)
<1>1. /\ phase' = "walk" /\ phase \in {"content", "minicontent"}
      /\ UNCHANGED << chain, entries >> /\ visited' = visited
      /\ stack' = MovedTo("right")
      /\ order' = Append(order, [idx |-> Top.idx, path |-> Append(Top.prefix, Me.name)])
  BY DEF StoreContent, ChainEnds
<1>2. stack # << >> /\ Top.stage = "self" /\ Me.type = "stream"
  BY <1>1 DEF FramesOK, IInv
<1>3. Shapes /\ n \in DOMAIN stack /\ Top = stack[n] /\ Top.idx \in visited
  BY <1>2, TopIn
<1>4. PICK f : /\ IsFrame(f) /\ f.idx = Top.idx /\ f.stage = "right"
               /\ stack' = Append(Front(stack), f)
  BY <1>1, <1>2, <1>3, TopFrame DEF MovedTo
<1>5. /\ IsSeq(stack') /\ n \in Nat \ {0} /\ DOMAIN stack = 1 .. n
      /\ DOMAIN stack' = 1 .. n /\ stack'[n] = f
      /\ \A p \in DOMAIN stack' : IsFrame(stack'[p])
      /\ \A p \in 1 .. n - 1 : stack'[p] = stack[p]
  <2>1. stack # << >> /\ IsFrame(f) /\ stack' = Append(Front(stack), f)  BY <1>2, <1>4
  <2>2. Shapes  BY <1>3
  <2>3. IsBeside(stack', f)  BY <2>1, <2>2, Sideways
  <2> QED BY <2>3 DEF IsBeside
<1>6. PICK r : r.idx = Top.idx /\ order' = Append(order, r)
  BY <1>1
<1>7. /\ IsSeq(order') /\ DOMAIN order = 1 .. m /\ m \in Nat
      /\ DOMAIN order' = 1 .. m + 1 /\ order'[m + 1] = r
      /\ \A i \in 1 .. m : order'[i] = order[i]
  BY <1>3, <1>6, Appended DEF Shapes, IsSeq
<1> HIDE DEF n, m
<1>8. ChainOK' /\ Early' /\ IsSeq(out')
  BY <1>1, Chained
<1>9. ASSUME NEW p \in DOMAIN stack'
      PROVE  \/ p # n /\ p \in DOMAIN stack /\ stack'[p] = stack[p]
             \/ stack'[p].stage = "right" /\ stack'[p].idx \in visited
  <2>1. CASE p \in 1 .. n - 1  BY <2>1, <1>5
  <2>2. CASE p = n  BY <2>2, <1>3, <1>4, <1>5
  <2> QED BY <1>5, <2>1, <2>2
<1>10. ASSUME NEW i \in DOMAIN order'
       PROVE  \/ i \in DOMAIN order /\ i # m + 1 /\ order'[i].idx = order[i].idx
              \/ i = m + 1 /\ order'[i].idx = Top.idx
  BY <1>6, <1>7
<1>11. Shapes'  BY <1>5, <1>7, <1>8 DEF Shapes
<1>12. FramesOK'  BY <1>1, <1>9 DEF FramesOK, IInv
<1>13. OrderOK'
  <2>1. entries[Top.idx + 1].type = "stream"  BY <1>2 DEF Me
  <2>2. ASSUME NEW i \in DOMAIN order'
        PROVE  order'[i].idx \in visited /\ entries[order'[i].idx + 1].type = "stream"
    BY <2>1, <1>3, <1>10 DEF OrderOK, IInv
  <2> QED BY <2>2, <1>1 DEF OrderOK
<1>14. \A i \in DOMAIN order : order[i].idx # Top.idx
  BY <1>2, <1>3 DEF Apart, IInv
<1>15. Apart'
  <2>1. \A i, j \in DOMAIN order' : order'[i].idx = order'[j].idx => i = j
    BY <1>10, <1>14 DEF Apart, IInv
  <2>2. ASSUME NEW p \in DOMAIN stack', stack'[p].stage = "self"
        PROVE  p # n /\ p \in DOMAIN stack /\ stack'[p] = stack[p]
    BY <2>2, <1>9
  <2>3. ASSUME NEW p \in DOMAIN stack', NEW i \in DOMAIN order', stack'[p].stage = "self"
        PROVE  order'[i].idx # stack'[p].idx
    <3>1. p # n /\ p \in DOMAIN stack /\ stack'[p] = stack[p]  BY <2>2, <2>3
    <3>2. stack[p].idx # Top.idx
      BY <2>3, <3>1, <1>2, <1>3 DEF Apart, IInv
    <3> QED BY <2>3, <3>1, <3>2, <1>10 DEF Apart, IInv
  <2>4. ASSUME NEW p \in DOMAIN stack', NEW q \in DOMAIN stack',
               stack'[p].stage = "self", stack'[q].stage = "self",
               stack'[p].idx = stack'[q].idx
        PROVE  p = q
    BY <2>2, <2>4 DEF Apart, IInv
  <2> QED BY <2>1, <2>3, <2>4 DEF Apart
<1> QED BY <1>8, <1>11, <1>12, <1>13, <1>15 DEF IInv

-----------------------------------------------------------------------------
(***************************************************************************)
(* The theorems.                                                           *)
(***************************************************************************)

\* The call of Open begins with nothing read.
LEMMA CallStep == ASSUME IInv, Call PROVE IInv'
BY DEF Call, chain, fatSt, mini, found, IInv, Shapes, ChainOK, Early, FramesOK,
       OrderOK, Apart, Phases, Chains

\* The invariant is about the state of Open alone.
LEMMA StutterStep == ASSUME IInv, UNCHANGED openVars PROVE IInv'
BY DEF openVars, chain, fatSt, mini, found, IInv, Shapes, ChainOK, Early, FramesOK,
       OrderOK, Apart, Image, Top, Me, Last

\* Open never loses the invariant, whatever the bytes of the file.
THEOREM OpenInvariant == OpenSpec => []IInv
<1>1. Idle => IInv  BY InitIInv
<1>2. IInv /\ [(Call /\ IsFile(file')) \/ OpenNext]_openVars => IInv'
  <2> SUFFICES ASSUME IInv, [(Call /\ IsFile(file')) \/ OpenNext]_openVars PROVE IInv'
    OBVIOUS
  <2>1. CASE \/ BadHeader \/ ReadHeader \/ FollowDifat \/ EndDifat \/ AppendFat
             \/ FollowChain \/ StartDirectory \/ NoDirectory \/ ReadContainer
             \/ StartContent \/ Opened
    BY <2>1, ChainSteps
  <2>2. CASE ReadDirectory \/ ReadMiniFat  BY <2>2, StartWalkSteps
  <2>3. CASE Visit  BY <2>3, VisitStep
  <2>4. CASE Return  BY <2>4, ReturnStep
  <2>5. CASE EnterStorage  BY <2>5, EnterStep
  <2>6. CASE PassOther \/ TurnRight  BY <2>6, SidewaysSteps
  <2>7. CASE StoreContent  BY <2>7, StoreStep
  <2>8. CASE UNCHANGED openVars  BY <2>8, StutterStep
  <2>9. CASE Call  BY <2>9, CallStep
  <2> QED
    BY <2>1, <2>2, <2>3, <2>4, <2>5, <2>6, <2>7, <2>8, <2>9 DEF OpenNext
<1> QED BY <1>1, <1>2, PTL DEF OpenSpec

\* Past the call, the file is one that was parsed, and it stays.
FileOK == /\ phase # "idle" => IsFile(file)
          /\ phase \notin {"idle", "header", "error"} => file.valid

\* Open changes nothing of the file.
LEMMA FileStays == OpenSpec => []FileOK
<1>1. Idle => FileOK  BY DEF Idle, FileOK
<1>2. FileOK /\ [(Call /\ IsFile(file')) \/ OpenNext]_openVars => FileOK'
  <2> SUFFICES ASSUME FileOK, [(Call /\ IsFile(file')) \/ OpenNext]_openVars PROVE FileOK'
    OBVIOUS
  <2> USE DEF FileOK
  <2>1. CASE Call /\ IsFile(file')  BY <2>1 DEF Call
  <2>2. CASE OpenNext
    BY <2>2
    DEF OpenNext, BadHeader, ReadHeader, FollowDifat, EndDifat, AppendFat, FollowChain,
        StartDirectory, NoDirectory, ReadDirectory, ReadContainer, ReadMiniFat, Visit, Return,
        EnterStorage, PassOther, StartContent, StoreContent, TurnRight, Opened, StartChain,
        ChainEnds, Chains, At
  <2>3. CASE UNCHANGED openVars  BY <2>3 DEF openVars
  <2> QED BY <2>1, <2>2, <2>3
<1> QED BY <1>1, <1>2, PTL DEF OpenSpec

\* Open's state has its types in every state, whatever the bytes of the file: a
\* call that is past its left subtree is about an entry that is marked, and only
\* streams are returned.
THEOREM TypeCorrect == OpenSpec => []TypeOK
<1>1. IInv /\ FileOK => TypeOK
  BY DEF IInv, Shapes, ChainOK, FramesOK, OrderOK, TypeOK, FileOK
<1> QED BY <1>1, OpenInvariant, FileStays, PTL

\* Whatever the bytes of the file, no chain that Open follows yields a sector
\* twice or one that the file does not have, and no directory entry is returned
\* as two streams: cyclic chains and directories cost no more than the file.
THEOREM NothingTwiceHolds == OpenSpec => []NothingTwice
<1>1. IInv => NothingTwice
  BY DEF IInv, ChainOK, Apart, Injective, NothingTwice
<1> QED BY <1>1, OpenInvariant, PTL

-----------------------------------------------------------------------------
(***************************************************************************)
(* Recursion over numbers, and walks along a successor function.           *)
(***************************************************************************)

\* f is what step makes of base, step by step.
IsIterated(f, S, base, step, n) ==
  /\ f \in [0 .. n -> S]
  /\ f[0] = base
  /\ \A i \in 1 .. n : f[i] = step[<< i, f[i - 1] >>]

\* A step can be repeated any number of times.
LEMMA Iterated ==
  ASSUME NEW S, NEW base \in S, NEW step \in [Nat \X S -> S]
  PROVE  \A n \in Nat : \E f : IsIterated(f, S, base, step, n)
<1> DEFINE T == {n \in Nat : \E f : IsIterated(f, S, base, step, n)}
<1>1. 0 \in T
  <2> DEFINE f == [i \in 0 .. 0 |-> base]
  <2>1. f \in [0 .. 0 -> S] /\ f[0] = base  OBVIOUS
  <2> HIDE DEF f
  <2> QED BY <2>1 DEF IsIterated
<1>2. ASSUME NEW n \in Nat, n \in T PROVE n + 1 \in T
  <2>1. PICK f : IsIterated(f, S, base, step, n)  BY <1>2
  <2>2. /\ f \in [0 .. n -> S] /\ f[0] = base
        /\ \A i \in 1 .. n : f[i] = step[<< i, f[i - 1] >>]
    BY <2>1 DEF IsIterated
  <2> DEFINE last == step[<< n + 1, f[n] >>]
             g == [i \in 0 .. n + 1 |-> IF i <= n THEN f[i] ELSE last]
  <2>3. last \in S  BY <2>2
  <2>4. /\ \A i \in 0 .. n + 1 : g[i] = IF i <= n THEN f[i] ELSE last
        /\ DOMAIN g = 0 .. n + 1
    <3> HIDE DEF last
    <3> QED OBVIOUS
  <2>5. g \in [0 .. n + 1 -> S]
    <3> HIDE DEF last
    <3> QED BY <2>2, <2>3
  <2>6. g[0] = base  BY <2>2, <2>4
  <2> HIDE DEF g
  <2>7. ASSUME NEW i \in 1 .. n + 1 PROVE g[i] = step[<< i, g[i - 1] >>]
    <3>1. g[i - 1] = f[i - 1]  BY <2>4
    <3>2. CASE i \in 1 .. n  BY <2>2, <2>4, <3>1, <3>2
    <3>3. CASE i = n + 1
      <4>1. g[i] = last /\ g[i - 1] = f[n]  BY <2>4, <3>1, <3>3
      <4> QED BY <3>3, <4>1
    <3> QED BY <3>2, <3>3
  <2>8. IsIterated(g, S, base, step, n + 1)  BY <2>5, <2>6, <2>7 DEF IsIterated
  <2> QED BY <2>8
<1> HIDE DEF T
<1>3. \A n \in Nat : n \in T  BY <1>1, <1>2, AllNumbers
<1> QED BY <1>3 DEF T

\* s is a walk from start along succ that meets nothing twice.
IsTrail(succ, start, s) ==
  /\ IsSeq(s) /\ Injective(s)
  /\ \A i \in 1 .. Len(s) : s[i] \in DOMAIN succ
  /\ Len(s) # 0 => s[1] = start
  /\ \A i \in 1 .. Len(s) - 1 : s[i + 1] = succ[s[i]]

\* Where it goes on.
Ahead(succ, start, s) == IF Len(s) = 0 THEN start ELSE succ[s[Len(s)]]

GoesOnFrom(succ, a, s) == a \in DOMAIN succ /\ a \notin ToSet(s)

\* The walk that Walked counts.
IsSteps(go, succ, start, n) ==
  go = [k \in 0 .. n |->
         IF k = 0 THEN start
         ELSE IF go[k - 1] \in DOMAIN succ THEN succ[go[k - 1]] ELSE go[k - 1]]

\* What the recursion says at each place.
LEMMA StepsAre ==
  ASSUME NEW go, NEW succ, NEW start, NEW n \in Nat
  PROVE  IsSteps(go, succ, start, n) <=>
           /\ go = [k \in 0 .. n |-> go[k]]
           /\ go[0] = start
           /\ \A k \in 1 .. n :
                go[k] = IF go[k - 1] \in DOMAIN succ THEN succ[go[k - 1]] ELSE go[k - 1]
<1> DEFINE body(k) == IF k = 0 THEN start
                      ELSE IF go[k - 1] \in DOMAIN succ THEN succ[go[k - 1]] ELSE go[k - 1]
<1>1. IsSteps(go, succ, start, n) <=> go = [k \in 0 .. n |-> body(k)]
  BY Zenon DEF IsSteps
<1>2. go = [k \in 0 .. n |-> body(k)] <=>
        go = [k \in 0 .. n |-> go[k]] /\ \A k \in 0 .. n : go[k] = body(k)
  <2> HIDE DEF body
  <2>1. ASSUME go = [k \in 0 .. n |-> body(k)]
        PROVE  go = [k \in 0 .. n |-> go[k]] /\ \A k \in 0 .. n : go[k] = body(k)
    BY <2>1
  <2>2. ASSUME go = [k \in 0 .. n |-> go[k]], \A k \in 0 .. n : go[k] = body(k)
        PROVE  go = [k \in 0 .. n |-> body(k)]
    BY <2>2
  <2> QED BY <2>1, <2>2
<1>3. (\A k \in 0 .. n : go[k] = body(k)) <=>
        /\ go[0] = start
        /\ \A k \in 1 .. n :
             go[k] = IF go[k - 1] \in DOMAIN succ THEN succ[go[k - 1]] ELSE go[k - 1]
  <2>1. \A k \in 0 .. n : k = 0 \/ k \in 1 .. n  OBVIOUS
  <2>2. 0 \in 0 .. n /\ \A k \in 1 .. n : k \in 0 .. n /\ k # 0  OBVIOUS
  <2> QED BY <2>1, <2>2, Zenon
<1> QED BY <1>1, <1>2, <1>3, Zenon

\* The successors can be followed any number of times.
LEMMA StepsExist ==
  ASSUME NEW succ, NEW start, NEW n \in Nat
  PROVE  \E go : IsSteps(go, succ, start, n)
<1> DEFINE S == {start} \cup DOMAIN succ \cup {succ[x] : x \in DOMAIN succ}
           next(x) == IF x \in DOMAIN succ THEN succ[x] ELSE x
           step == [p \in Nat \X S |-> next(p[2])]
<1>1. start \in S /\ \A x \in S : next(x) \in S  OBVIOUS
<1> HIDE DEF S, next
<1>2. step \in [Nat \X S -> S]  BY <1>1
<1>3. \A i \in Nat, x \in S : step[<< i, x >>] = next(x)  OBVIOUS
<1> HIDE DEF step
<1>4. PICK go : IsIterated(go, S, start, step, n)  BY <1>1, <1>2, Iterated
<1>5. /\ go \in [0 .. n -> S] /\ go[0] = start
      /\ \A k \in 1 .. n : go[k] = step[<< k, go[k - 1] >>]
  BY <1>4 DEF IsIterated
<1>6. \A k \in 1 .. n : k \in Nat /\ go[k - 1] \in S  BY <1>5
<1>7. \A k \in 1 .. n : go[k] = next(go[k - 1])  BY <1>3, <1>5, <1>6
<1>8. go = [k \in 0 .. n |-> go[k]]  BY <1>5
<1>9. IsSteps(go, succ, start, n)
  BY <1>5, <1>7, <1>8, StepsAre DEF next
<1> QED BY <1>9

\* The least element of a set of numbers, as Min chooses it.
LEMMA MinLeast ==
  ASSUME NEW T \in SUBSET Nat, T # {}
  PROVE  Min(T) \in T /\ \A y \in T : Min(T) <= y
BY LeastOf DEF Min

\* Walked is such a walk, and it goes as far as there is a way.
LEMMA WalkedTrail ==
  ASSUME NEW succ, IsFiniteSet(DOMAIN succ), NEW start
  PROVE  LET w == Walked(succ, start)
         IN  IsTrail(succ, start, w) /\ ~GoesOnFrom(succ, Ahead(succ, start, w), w)
<1> DEFINE c == Cardinality(DOMAIN succ)
           go == CHOOSE f : IsSteps(f, succ, start, c)
           stops == {n \in DOMAIN go : \/ go[n] \notin DOMAIN succ
                                       \/ \E m \in 0 .. n - 1 : go[m] = go[n]}
<1>1. c \in Nat  BY FS_CardinalityType
<1>2. Walked(succ, start) = [i \in 1 .. Min(stops) |-> go[i - 1]]
  BY DEF Walked, IsSteps
<1>3. IsSteps(go, succ, start, c)  BY <1>1, StepsExist
<1> HIDE DEF go
<1>4. /\ DOMAIN go = 0 .. c /\ go[0] = start
      /\ \A k \in 1 .. c : go[k] = IF go[k - 1] \in DOMAIN succ THEN succ[go[k - 1]] ELSE go[k - 1]
  <2> HIDE DEF c
  <2>1. /\ go = [k \in 0 .. c |-> go[k]] /\ go[0] = start
        /\ \A k \in 1 .. c :
             go[k] = IF go[k - 1] \in DOMAIN succ THEN succ[go[k - 1]] ELSE go[k - 1]
    BY <1>1, <1>3, StepsAre
  <2>2. DOMAIN go = 0 .. c  BY <2>1
  <2> QED BY <2>1, <2>2
<1>5. stops # {}
  <2> SUFFICES ASSUME stops = {} PROVE FALSE  OBVIOUS
  <2>1. \A n \in 0 .. c : go[n] \in DOMAIN succ /\ \A m \in 0 .. n - 1 : go[m] # go[n]
    BY <1>4
  <2> DEFINE f == [n \in 0 .. c |-> go[n]]
  <2>2. f \in [0 .. c -> DOMAIN succ]  BY <2>1
  <2>3. ASSUME NEW m \in 0 .. c, NEW n \in 0 .. c, f[m] = f[n] PROVE m = n
    <3>1. go[m] = go[n]  BY <2>3
    <3>2. m < n => m \in 0 .. n - 1  BY <1>1
    <3>3. n < m => n \in 0 .. m - 1  BY <1>1
    <3> QED BY <1>1, <2>1, <3>1, <3>2, <3>3
  <2> HIDE DEF f
  <2>4. f \in Injection(0 .. c, DOMAIN succ)  BY <2>2, <2>3 DEF Injection, IsInjective
  <2>5. Cardinality(0 .. c) <= c  BY <2>4, FS_Injection
  <2>6. Cardinality(0 .. c) = c + 1  BY <1>1, FS_Interval
  <2> QED BY <1>1, <2>5, <2>6
<1>6. stops \in SUBSET Nat  BY <1>1, <1>4
<1> DEFINE k == Min(stops)
<1>7. k \in stops /\ \A y \in stops : k <= y
  <2> HIDE DEF stops
  <2> QED BY <1>5, <1>6, MinLeast
<1>8. k \in 0 .. c /\ (go[k] \notin DOMAIN succ \/ \E m \in 0 .. k - 1 : go[m] = go[k])
  BY <1>4, <1>7
<1>9. \A n \in 0 .. k - 1 : go[n] \in DOMAIN succ /\ \A m \in 0 .. n - 1 : go[m] # go[n]
  <2> SUFFICES ASSUME NEW n \in 0 .. k - 1
               PROVE  go[n] \in DOMAIN succ /\ \A m \in 0 .. n - 1 : go[m] # go[n]
    OBVIOUS
  <2>1. n \notin stops
    <3> HIDE DEF stops, k, c
    <3>1. n < k  BY <1>1, <1>8
    <3> QED BY <1>1, <1>7, <1>8, <3>1
  <2>2. n \in DOMAIN go  BY <1>1, <1>4, <1>8
  <2> QED BY <2>1, <2>2
<1> DEFINE w == Walked(succ, start)
<1>10. w = [i \in 1 .. k |-> go[i - 1]]  BY <1>2
<1> HIDE DEF stops, k, w, c
<1>11. k \in Nat  BY <1>1, <1>8
<1>12. Len(w) = k /\ DOMAIN w = 1 .. k /\ \A i \in 1 .. k : w[i] = go[i - 1]
  BY <1>10, <1>11
<1>13. IsSeq(w)  BY <1>10, <1>11, <1>12 DEF IsSeq
<1>14. Injective(w)
  <2> SUFFICES ASSUME NEW i \in 1 .. k, NEW j \in 1 .. k, w[i] = w[j] PROVE i = j
    BY <1>12 DEF Injective
  <2>1. go[i - 1] = go[j - 1]  BY <1>12
  <2>2. i < j => i - 1 \in 0 .. (j - 1) - 1  BY <1>11
  <2>3. j < i => j - 1 \in 0 .. (i - 1) - 1  BY <1>11
  <2>4. i - 1 \in 0 .. k - 1 /\ j - 1 \in 0 .. k - 1  BY <1>11
  <2> QED BY <1>9, <2>1, <2>2, <2>3, <2>4
<1>15. \A i \in 1 .. k : w[i] \in DOMAIN succ
  <2>1. \A i \in 1 .. k : i - 1 \in 0 .. k - 1  BY <1>11
  <2> QED BY <1>9, <1>12, <2>1
<1>16. k # 0 => w[1] = start  BY <1>4, <1>11, <1>12
<1>17. \A i \in 1 .. k : go[i] = succ[w[i]]
  <2> SUFFICES ASSUME NEW i \in 1 .. k PROVE go[i] = succ[w[i]]  OBVIOUS
  <2>1. i \in 1 .. c /\ w[i] = go[i - 1]  BY <1>1, <1>8, <1>12
  <2> QED BY <1>4, <1>15, <2>1
<1>18. \A i \in 1 .. k - 1 : w[i + 1] = succ[w[i]]
  <2> SUFFICES ASSUME NEW i \in 1 .. k - 1 PROVE w[i + 1] = succ[w[i]]  OBVIOUS
  <2>1. i \in 1 .. k /\ i + 1 \in 1 .. k /\ (i + 1) - 1 = i  BY <1>11
  <2>2. w[i + 1] = go[(i + 1) - 1]  BY <1>12, <2>1
  <2> QED BY <1>17, <2>1, <2>2
<1>19. Ahead(succ, start, w) = go[k]
  <2>1. CASE k = 0  BY <1>4, <1>12, <2>1 DEF Ahead
  <2>2. CASE k # 0
    <3>1. k \in 1 .. k  BY <1>11, <2>2
    <3>2. go[k] = succ[w[k]]  BY <1>17, <3>1
    <3> QED BY <1>12, <2>2, <3>2 DEF Ahead
  <2> QED BY <2>1, <2>2
<1>20. ~GoesOnFrom(succ, go[k], w)
  <2>1. ASSUME NEW m \in 0 .. k - 1, go[m] = go[k] PROVE go[k] \in ToSet(w)
    <3>1. m + 1 \in 1 .. k /\ (m + 1) - 1 = m  BY <1>11
    <3>2. w[m + 1] = go[k]  BY <1>12, <2>1, <3>1
    <3> QED BY <1>12, <3>1, <3>2 DEF ToSet
  <2> QED BY <1>8, <2>1 DEF GoesOnFrom
<1>21. IsTrail(succ, start, w)
  BY <1>12, <1>13, <1>14, <1>15, <1>16, <1>18 DEF IsTrail
<1> QED BY <1>19, <1>20, <1>21 DEF w

\* The empty walk.
LEMMA NoTrail ==
  ASSUME NEW succ, NEW start
  PROVE  IsTrail(succ, start, << >>) /\ Ahead(succ, start, << >>) = start
<1>1. IsSeq(<< >>) /\ Injective(<< >>)  BY EmptyChain
<1> QED BY <1>1 DEF IsTrail, Ahead

\* A walk goes on.
LEMMA TrailGrows ==
  ASSUME NEW succ, NEW start, NEW s, IsTrail(succ, start, s), NEW a,
         a = Ahead(succ, start, s), GoesOnFrom(succ, a, s)
  PROVE  /\ IsTrail(succ, start, Append(s, a))
         /\ Ahead(succ, start, Append(s, a)) = succ[a]
<1> DEFINE t == Append(s, a)
           n == Len(s)
<1>1. IsSeq(s) /\ n \in Nat  BY DEF IsTrail, IsSeq
<1>2. a \in DOMAIN succ /\ a \notin ToSet(s)  BY DEF GoesOnFrom
<1>3. IsSeq(t) /\ Injective(t)  BY <1>1, <1>2, LongerChain DEF IsTrail
<1>4. Len(t) = n + 1 /\ t[n + 1] = a /\ \A k \in 1 .. n : t[k] = s[k]
  BY <1>1, Appended
<1> HIDE DEF t
<1>5. \A i \in 1 .. n + 1 : t[i] \in DOMAIN succ
  <2>1. \A i \in 1 .. n + 1 : i \in 1 .. n \/ i = n + 1  BY <1>1
  <2> QED BY <1>2, <1>4, <2>1 DEF IsTrail
<1>6. t[1] = start
  <2>1. CASE n = 0  BY <1>4, <2>1 DEF Ahead
  <2>2. CASE n # 0
    <3>1. 1 \in 1 .. n  BY <1>1, <2>2
    <3> QED BY <1>4, <2>2, <3>1 DEF IsTrail
  <2> QED BY <2>1, <2>2
<1>7. \A i \in 1 .. n : t[i + 1] = succ[t[i]]
  <2> SUFFICES ASSUME NEW i \in 1 .. n PROVE t[i + 1] = succ[t[i]]  OBVIOUS
  <2>1. CASE i = n
    <3>1. n # 0  BY <2>1
    <3> QED BY <1>4, <2>1, <3>1 DEF Ahead
  <2>2. CASE i # n
    <3>1. i \in 1 .. n - 1 /\ i + 1 \in 1 .. n  BY <1>1, <2>2
    <3> QED BY <1>4, <3>1 DEF IsTrail
  <2> QED BY <2>1, <2>2
<1>8. IsTrail(succ, start, t)
  <2>1. (n + 1) - 1 = n  BY <1>1
  <2> QED BY <1>3, <1>4, <1>5, <1>6, <1>7, <2>1 DEF IsTrail
<1>9. Ahead(succ, start, t) = succ[a]  BY <1>1, <1>4 DEF Ahead
<1> QED BY <1>8, <1>9 DEF t

\* Two numbers one after the other.
LEMMA Between ==
  ASSUME NEW a \in Nat, NEW b \in Nat, a <= b
  PROVE  (a # b => a + 1 <= b) /\ (b <= a => a = b)
OBVIOUS

\* A walk is the beginning of every walk from the same start that goes on to
\* the end.
LEMMA TrailBegins ==
  ASSUME NEW succ, NEW start, NEW s, IsTrail(succ, start, s),
         NEW w, IsTrail(succ, start, w), ~GoesOnFrom(succ, Ahead(succ, start, w), w)
  PROVE  Len(s) <= Len(w) /\ \A i \in 1 .. Len(s) : s[i] = w[i]
<1> DEFINE T == {k \in Nat : k <= Len(s) => k <= Len(w) /\ \A i \in 1 .. k : s[i] = w[i]}
<1>1. Len(s) \in Nat /\ Len(w) \in Nat /\ DOMAIN s = 1 .. Len(s) /\ DOMAIN w = 1 .. Len(w)
  BY Appended DEF IsTrail, IsSeq
<1>2. 0 \in T  BY <1>1
<1>3. ASSUME NEW k \in Nat, k \in T PROVE k + 1 \in T
  <2> SUFFICES ASSUME k + 1 <= Len(s)
               PROVE  k + 1 <= Len(w) /\ \A i \in 1 .. k + 1 : s[i] = w[i]
    OBVIOUS
  <2>1. k <= Len(w) /\ \A i \in 1 .. k : s[i] = w[i]  BY <1>1, <1>3
  <2>2. k + 1 \in 1 .. Len(s)  BY <1>1
  <2>3. s[k + 1] = IF k = 0 THEN start ELSE succ[w[k]]
    <3>1. CASE k = 0  BY <1>1, <2>2, <3>1 DEF IsTrail
    <3>2. CASE k # 0
      <4>1. k \in 1 .. Len(s) - 1 /\ k \in 1 .. k  BY <1>1, <3>2
      <4> QED BY <2>1, <3>2, <4>1 DEF IsTrail
    <3> QED BY <3>1, <3>2
  <2>4. ~(k = Len(w))
    <3> SUFFICES ASSUME k = Len(w) PROVE FALSE  OBVIOUS
    <3>1. s[k + 1] = Ahead(succ, start, w)  BY <2>3 DEF Ahead
    <3>2. s[k + 1] \in DOMAIN succ  BY <2>2 DEF IsTrail
    <3>3. s[k + 1] \in ToSet(w)  BY <3>1, <3>2 DEF GoesOnFrom
    <3>4. PICK j \in 1 .. k : w[j] = s[k + 1]  BY <1>1, <3>3 DEF ToSet
    <3>5. s[j] = s[k + 1] /\ j \in 1 .. Len(s) /\ j # k + 1  BY <1>1, <2>1, <3>4
    <3> QED BY <1>1, <2>2, <3>5 DEF IsTrail, Injective
  <2>5. k + 1 <= Len(w)  BY <1>1, <2>1, <2>4, Between
  <2>6. w[k + 1] = IF k = 0 THEN start ELSE succ[w[k]]
    <3>1. CASE k = 0  BY <1>1, <2>5, <3>1 DEF IsTrail
    <3>2. CASE k # 0
      <4>1. k \in 1 .. Len(w) - 1  BY <1>1, <2>5, <3>2
      <4> QED BY <3>2, <4>1 DEF IsTrail
    <3> QED BY <3>1, <3>2
  <2>7. \A i \in 1 .. k + 1 : i \in 1 .. k \/ i = k + 1  OBVIOUS
  <2> QED BY <2>1, <2>3, <2>5, <2>6, <2>7
<1> HIDE DEF T
<1>4. Len(s) \in T  BY <1>1, <1>2, <1>3, AllNumbers
<1> QED BY <1>1, <1>4 DEF T

\* A walk that has come to its end is what Walked says.
LEMMA TrailEnds ==
  ASSUME NEW succ, IsFiniteSet(DOMAIN succ), NEW start, NEW s, IsTrail(succ, start, s),
         ~GoesOnFrom(succ, Ahead(succ, start, s), s)
  PROVE  s = Walked(succ, start)
<1> DEFINE w == Walked(succ, start)
<1>1. IsTrail(succ, start, w) /\ ~GoesOnFrom(succ, Ahead(succ, start, w), w)
  BY WalkedTrail
<1> HIDE DEF w
<1>2. Len(s) <= Len(w) /\ \A i \in 1 .. Len(s) : s[i] = w[i]  BY <1>1, TrailBegins
<1>3. Len(w) <= Len(s)  BY <1>1, TrailBegins
<1>4. /\ Len(s) \in Nat /\ Len(w) \in Nat
      /\ s = [k \in 1 .. Len(s) |-> s[k]] /\ w = [k \in 1 .. Len(w) |-> w[k]]
  BY <1>1 DEF IsTrail, IsSeq
<1>5. Len(s) = Len(w)  BY <1>2, <1>3, <1>4, Between
<1>6. [k \in 1 .. Len(s) |-> s[k]] = [k \in 1 .. Len(w) |-> w[k]]  BY <1>2, <1>5
<1> QED BY <1>4, <1>6 DEF w

-----------------------------------------------------------------------------
(***************************************************************************)
(* Sequences one after the other.                                          *)
(***************************************************************************)

\* The places of a sequence.
LEMMA SeqDomain ==
  ASSUME NEW s, IsSeq(s)
  PROVE  Len(s) \in Nat /\ DOMAIN s = 1 .. Len(s) /\ s = [k \in 1 .. Len(s) |-> s[k]]
BY DEF IsSeq

\* Two sequences with the same elements are the same.
LEMMA SeqAlike ==
  ASSUME NEW s, IsSeq(s), NEW t, IsSeq(t), Len(s) = Len(t),
         \A k \in 1 .. Len(s) : s[k] = t[k]
  PROVE  s = t
<1>1. [k \in 1 .. Len(s) |-> s[k]] = [k \in 1 .. Len(t) |-> t[k]]  OBVIOUS
<1> QED BY <1>1, SeqDomain

\* u is s and then t.
IsJoined(u, s, t) ==
  /\ IsSeq(u) /\ Len(u) = Len(s) + Len(t)
  /\ \A k \in 1 .. Len(s) : u[k] = s[k]
  /\ \A k \in 1 .. Len(t) : u[Len(s) + k] = t[k]

\* Two sequences, one after the other.
LEMMA Joined ==
  ASSUME NEW s, IsSeq(s), NEW t, IsSeq(t)
  PROVE  IsJoined(s \o t, s, t)
<1> DEFINE S == {s[k] : k \in 1 .. Len(s)} \cup {t[k] : k \in 1 .. Len(t)}
           u == s \o t
<1>1. [k \in 1 .. Len(s) |-> s[k]] \in Seq(S)  BY IsASeq DEF IsSeq
<1>2. [k \in 1 .. Len(t) |-> t[k]] \in Seq(S)  BY IsASeq DEF IsSeq
<1>3. s \in Seq(S) /\ t \in Seq(S)  BY <1>1, <1>2 DEF IsSeq
<1> HIDE DEF S
<1>4. /\ u \in Seq(S) /\ Len(u) = Len(s) + Len(t)
      /\ \A k \in 1 .. Len(s) : u[k] = s[k]
      /\ \A k \in 1 .. Len(t) : u[Len(s) + k] = t[k]
  BY <1>3, ConcatProperties
<1>5. Len(u) \in Nat /\ u \in [1 .. Len(u) -> S]  BY <1>4, LenProperties
<1>6. IsSeq(u)  BY <1>5 DEF IsSeq
<1> HIDE DEF u
<1>7. IsJoined(u, s, t)  BY <1>4, <1>6 DEF IsJoined
<1> QED BY <1>7 DEF u

\* Nothing is added by the empty sequence.
LEMMA JoinedNothing ==
  ASSUME NEW s, IsSeq(s) PROVE s \o << >> = s
<1>1. IsSeq(<< >>)  BY EmptyChain
<1> DEFINE u == s \o << >>
<1>2. IsJoined(u, s, << >>)  BY <1>1, Joined
<1> HIDE DEF u
<1>3. IsSeq(u) /\ Len(u) = Len(s) /\ \A k \in 1 .. Len(s) : u[k] = s[k]
  BY <1>2 DEF IsSeq, IsJoined
<1>4. u = s  BY <1>3, SeqAlike
<1> QED BY <1>4 DEF u

\* Three sequences are joined in either order.
LEMMA JoinedThree ==
  ASSUME NEW s, IsSeq(s), NEW t, IsSeq(t), NEW u, IsSeq(u)
  PROVE  (s \o t) \o u = s \o (t \o u)
<1> DEFINE S == {s[k] : k \in 1 .. Len(s)} \cup {t[k] : k \in 1 .. Len(t)}
                  \cup {u[k] : k \in 1 .. Len(u)}
<1>1. [k \in 1 .. Len(s) |-> s[k]] \in Seq(S)  BY IsASeq DEF IsSeq
<1>2. [k \in 1 .. Len(t) |-> t[k]] \in Seq(S)  BY IsASeq DEF IsSeq
<1>3. [k \in 1 .. Len(u) |-> u[k]] \in Seq(S)  BY IsASeq DEF IsSeq
<1>4. s \in Seq(S) /\ t \in Seq(S) /\ u \in Seq(S)  BY <1>1, <1>2, <1>3 DEF IsSeq
<1> HIDE DEF S
<1> QED BY <1>4, ConcatAssociative

\* A part of a sequence.
LEMMA PartOf ==
  ASSUME NEW s, IsSeq(s), NEW a \in Nat \ {0}, NEW b \in Nat, b <= Len(s), a <= b + 1
  PROVE  /\ IsSeq(SubSeq(s, a, b)) /\ Len(SubSeq(s, a, b)) = b - a + 1
         /\ \A k \in 1 .. b - a + 1 : SubSeq(s, a, b)[k] = s[a + k - 1]
<1>1. PICK S : s \in Seq(S)  BY Typed
<1> DEFINE t == SubSeq(s, a, b)
<1>2. t = [k \in 1 .. b - a + 1 |-> s[a + k - 1]]  BY <1>1
<1>3. b - a + 1 \in Nat  OBVIOUS
<1> HIDE DEF t
<1>4. Len(t) = b - a + 1  BY <1>2, <1>3
<1> QED BY <1>2, <1>3, <1>4 DEF IsSeq, t

-----------------------------------------------------------------------------
(***************************************************************************)
(* Parts of one length, one after the other.                               *)
(***************************************************************************)

IsParts(parts, n) == IsSeq(parts) /\ \A k \in 1 .. Len(parts) : IsSeq(parts[k]) /\ Len(parts[k]) = n

IsBlocks(b, parts, n) ==
  /\ IsSeq(b) /\ Len(b) = Len(parts) * n
  /\ \A k \in 1 .. Len(parts), i \in 1 .. n : b[(k - 1) * n + i] = parts[k][i]

\* A quotient and its remainder.
LEMMA Quotient ==
  ASSUME NEW n \in Nat \ {0}, NEW count \in Nat, NEW x \in Nat, x < count * n
  PROVE  x \div n \in 0 .. count - 1 /\ x % n \in 0 .. n - 1 /\ x = (x \div n) * n + (x % n)
<1> DEFINE q == x \div n
           r == x % n
<1>1. q \in Nat /\ r \in 0 .. n - 1 /\ x = n * q + r  OBVIOUS
<1> HIDE DEF q, r
<1>2. n * q = q * n  BY <1>1
<1>3. q < count
  <2> SUFFICES ASSUME q >= count PROVE FALSE  BY <1>1
  <2>1. n * q >= n * count /\ n * count = count * n  BY <1>1
  <2> QED BY <1>1, <2>1
<1> QED BY <1>1, <1>2, <1>3 DEF q, r

\* Where a number is among blocks.
LEMMA BlockOf ==
  ASSUME NEW n \in Nat, NEW count \in Nat, NEW x \in 1 .. count * n
  PROVE  \E k \in 1 .. count, i \in 1 .. n : x = (k - 1) * n + i
<1>1. n # 0  BY n = 0 => count * n = 0
<1> DEFINE q == (x - 1) \div n
           r == (x - 1) % n
<1>2. x - 1 \in Nat /\ x - 1 < count * n  OBVIOUS
<1>3. q \in 0 .. count - 1 /\ r \in 0 .. n - 1 /\ x - 1 = q * n + r  BY <1>1, <1>2, Quotient
<1> HIDE DEF q, r
<1>4. q + 1 \in 1 .. count /\ r + 1 \in 1 .. n /\ (q + 1) - 1 = q  BY <1>3
<1>5. q * n \in Nat  BY <1>3
<1>6. x = q * n + (r + 1)  BY <1>3, <1>5
<1> QED BY <1>4, <1>6

\* A place in a part is a place in the whole.
LEMMA InBlock ==
  ASSUME NEW n \in Nat, NEW count \in Nat, NEW k \in 1 .. count, NEW i \in 1 .. n
  PROVE  (k - 1) * n + i \in 1 .. count * n
<1>1. count * n = (k - 1) * n + n + (count - k) * n  OBVIOUS
<1>2. (k - 1) * n \in Nat /\ (count - k) * n \in Nat /\ count * n \in Nat  OBVIOUS
<1> QED BY <1>1, <1>2

\* One part more makes the whole longer by its length.
LEMMA BlockAfter == ASSUME NEW n \in Nat, NEW count \in Nat PROVE (count + 1) * n = count * n + n
OBVIOUS

\* The parts determine the whole.
LEMMA BlocksAlike ==
  ASSUME NEW n \in Nat, NEW parts, IsSeq(parts), NEW b, IsBlocks(b, parts, n),
         NEW c, IsBlocks(c, parts, n)
  PROVE  b = c
<1>1. Len(parts) \in Nat  BY DEF IsSeq
<1>2. IsSeq(b) /\ IsSeq(c) /\ Len(b) = Len(c)  BY DEF IsBlocks
<1>3. ASSUME NEW x \in 1 .. Len(b) PROVE b[x] = c[x]
  <2>1. x \in 1 .. Len(parts) * n  BY DEF IsBlocks
  <2>2. PICK k \in 1 .. Len(parts), i \in 1 .. n : x = (k - 1) * n + i  BY <1>1, <2>1, BlockOf
  <2> QED BY <2>2 DEF IsBlocks
<1> QED BY <1>2, <1>3, SeqAlike

\* No parts make nothing.
LEMMA NoBlocks == ASSUME NEW n \in Nat PROVE IsBlocks(<< >>, << >>, n)
<1>1. IsSeq(<< >>)  BY EmptyChain
<1>2. 0 * n = 0  OBVIOUS
<1> QED BY <1>1, <1>2 DEF IsBlocks

\* One part more is put at the end of the whole.
LEMMA BlocksGrow ==
  ASSUME NEW n \in Nat, NEW parts, IsSeq(parts), NEW b, IsBlocks(b, parts, n),
         NEW p, IsSeq(p), Len(p) = n
  PROVE  IsBlocks(b \o p, Append(parts, p), n)
<1> DEFINE m == Len(parts)
           c == b \o p
           more == Append(parts, p)
<1>1. m \in Nat /\ IsSeq(b) /\ Len(b) = m * n  BY DEF IsSeq, IsBlocks
<1>2. Len(more) = m + 1 /\ more[m + 1] = p /\ \A k \in 1 .. m : more[k] = parts[k]  BY Appended
<1>3. /\ IsSeq(c) /\ Len(c) = m * n + n
      /\ \A x \in 1 .. m * n : c[x] = b[x]
      /\ \A i \in 1 .. n : c[m * n + i] = p[i]
  <2>1. IsSeq(b)  BY <1>1
  <2>2. IsJoined(c, b, p)  BY <2>1, Joined
  <2> HIDE DEF c
  <2> QED BY <1>1, <2>2 DEF IsJoined
<1> HIDE DEF c, more
<1>4. Len(c) = Len(more) * n  BY <1>1, <1>2, <1>3, BlockAfter
<1>5. ASSUME NEW k \in 1 .. Len(more), NEW i \in 1 .. n
      PROVE  c[(k - 1) * n + i] = more[k][i]
  <2>1. CASE k \in 1 .. m
    <3>1. (k - 1) * n + i \in 1 .. m * n  BY <1>1, <2>1, InBlock
    <3> QED BY <1>2, <1>3, <2>1, <3>1 DEF IsBlocks
  <2>2. CASE k = m + 1
    <3>1. k - 1 = m  BY <1>1, <2>2
    <3> QED BY <1>2, <1>3, <2>2, <3>1
  <2> QED BY <1>1, <1>2, <2>1, <2>2
<1> QED BY <1>3, <1>4, <1>5 DEF IsBlocks, c, more

\* FlattenSeq puts parts one after the other.
LEMMA FlatBlocks ==
  ASSUME NEW n \in Nat, NEW parts, IsParts(parts, n)
  PROVE  IsBlocks(FlattenSeq(parts), parts, n)
<1> DEFINE m == Len(parts)
<1>1. IsSeq(parts) /\ m \in Nat /\ DOMAIN parts = 1 .. m  BY SeqDomain DEF IsParts
<1>2. CASE m = 0
  <2>1. parts = << >>  BY <1>1, <1>2, EmptyChain, SeqAlike
  <2>2. FlattenSeq(parts) = << >>  BY <1>2, <2>1 DEF FlattenSeq
  <2> QED BY <2>1, <2>2, NoBlocks
<1>3. CASE m # 0
  <2> DEFINE g == CHOOSE f : IsFlat(f, parts, m)
  <2>1. FlattenSeq(parts) = g[m]  BY <1>3 DEF FlattenSeq, IsFlat
  <2>2. IsFlat(g, parts, m)  BY <1>1, FlatExists
  <2> HIDE DEF g
  <2>3. \A j \in 1 .. m : g[j] = IF j = 1 THEN parts[j] ELSE g[j - 1] \o parts[j]
    BY <1>1, <2>2, FlatAt
  <2> DEFINE first(j) == SubSeq(parts, 1, j)
             T == {j \in Nat : j \in 1 .. m => IsBlocks(g[j], first(j), n)}
  <2>4. \A j \in 0 .. m : IsSeq(first(j)) /\ Len(first(j)) = j /\ \A k \in 1 .. j : first(j)[k] = parts[k]
    <3> SUFFICES ASSUME NEW j \in 0 .. m
                 PROVE  IsSeq(first(j)) /\ Len(first(j)) = j /\ \A k \in 1 .. j : first(j)[k] = parts[k]
      OBVIOUS
    <3>1. /\ IsSeq(first(j)) /\ Len(first(j)) = j - 1 + 1
          /\ \A k \in 1 .. j - 1 + 1 : first(j)[k] = parts[1 + k - 1]
      BY <1>1, PartOf
    <3> QED BY <3>1
  <2>5. 0 \in T  OBVIOUS
  <2>6. ASSUME NEW j \in Nat, j \in T PROVE j + 1 \in T
    <3> SUFFICES ASSUME j + 1 \in 1 .. m PROVE IsBlocks(g[j + 1], first(j + 1), n)  OBVIOUS
    <3> DEFINE p == parts[j + 1]
    <3>1. IsSeq(p) /\ Len(p) = n  BY DEF IsParts
    <3>2. j \in 0 .. m /\ j + 1 \in 0 .. m  BY <1>1
    <3>3. first(j + 1) = Append(first(j), p)
      <4> DEFINE a == first(j)
                 c == first(j + 1)
      <4>1. IsSeq(a) /\ Len(a) = j /\ \A k \in 1 .. j : a[k] = parts[k]  BY <2>4, <3>2
      <4>2. IsSeq(c) /\ Len(c) = j + 1 /\ \A k \in 1 .. j + 1 : c[k] = parts[k]  BY <2>4, <3>2
      <4> HIDE DEF a, c, p
      <4>3. /\ IsSeq(Append(a, p)) /\ Len(Append(a, p)) = j + 1 /\ Append(a, p)[j + 1] = p
            /\ \A k \in 1 .. j : Append(a, p)[k] = a[k]
        BY <4>1, Appended
      <4>4. \A k \in 1 .. j + 1 : c[k] = Append(a, p)[k]
        <5>1. \A k \in 1 .. j + 1 : k \in 1 .. j \/ k = j + 1  OBVIOUS
        <5> QED BY <4>1, <4>2, <4>3, <5>1 DEF p
      <4>5. c = Append(a, p)  BY <4>2, <4>3, <4>4, SeqAlike
      <4> QED BY <4>5 DEF a, c
    <3>4. CASE j = 0
      <4>1. g[j + 1] = p  BY <2>3, <3>4
      <4> DEFINE a == first(j)
      <4>2. IsSeq(a) /\ Len(a) = 0  BY <2>4, <3>2, <3>4
      <4> HIDE DEF a
      <4>3. a = << >>  BY <4>2, EmptyChain, SeqAlike
      <4>4. IsBlocks(<< >>, a, n)  BY <4>3, NoBlocks
      <4>5. IsBlocks(<< >> \o p, Append(a, p), n)  BY <3>1, <4>2, <4>4, BlocksGrow
      <4>6. << >> \o p = p
        <5> DEFINE u == << >> \o p
        <5>1. IsJoined(u, << >>, p)  BY <3>1, EmptyChain, Joined
        <5> HIDE DEF u, p
        <5>2. Len(<< >>) = 0 /\ Len(p) \in Nat /\ \A k \in 1 .. Len(p) : 0 + k = k
          BY <3>1
        <5>3. IsSeq(u) /\ Len(u) = Len(p) /\ \A k \in 1 .. Len(p) : u[k] = p[k]
          BY <5>1, <5>2 DEF IsJoined
        <5>4. u = p  BY <3>1, <5>3, SeqAlike
        <5> QED BY <5>4 DEF u
      <4> QED BY <3>3, <4>1, <4>5, <4>6 DEF a
    <3>5. CASE j # 0
      <4>1. j \in 1 .. m /\ (j + 1) - 1 = j /\ j + 1 # 1  BY <1>1, <3>5
      <4>2. g[j + 1] = g[j] \o p  BY <2>3, <4>1
      <4>3. IsBlocks(g[j], first(j), n)  BY <2>6, <4>1
      <4>4. IsSeq(first(j))  BY <2>4, <3>2
      <4> HIDE DEF first, p
      <4>5. IsBlocks(g[j] \o p, Append(first(j), p), n)  BY <3>1, <4>3, <4>4, BlocksGrow
      <4> QED BY <3>3, <4>2, <4>5
    <3> QED BY <3>4, <3>5
  <2>7. first(m) = parts
    <3> DEFINE a == first(m)
    <3>1. IsSeq(a) /\ Len(a) = m /\ \A k \in 1 .. m : a[k] = parts[k]  BY <1>1, <2>4
    <3> HIDE DEF a
    <3>2. a = parts  BY <1>1, <3>1, SeqAlike
    <3> QED BY <3>2 DEF a
  <2> HIDE DEF T
  <2>8. m \in T  BY <1>1, <2>5, <2>6, AllNumbers
  <2>9. IsBlocks(g[m], first(m), n)  BY <1>1, <1>3, <2>8 DEF T
  <2> QED BY <2>1, <2>7, <2>9
<1> QED BY <1>2, <1>3

\* One part more, of the same length.
LEMMA PartsGrow ==
  ASSUME NEW n \in Nat, NEW parts, IsParts(parts, n), NEW p, IsSeq(p), Len(p) = n
  PROVE  IsParts(Append(parts, p), n)
<1> DEFINE more == Append(parts, p)
<1>1. /\ IsSeq(more) /\ Len(more) = Len(parts) + 1 /\ more[Len(parts) + 1] = p
      /\ \A k \in 1 .. Len(parts) : more[k] = parts[k]
  BY Appended DEF IsParts
<1>2. Len(parts) \in Nat  BY DEF IsParts, IsSeq
<1> HIDE DEF more
<1>3. \A k \in 1 .. Len(more) : k \in 1 .. Len(parts) \/ k = Len(parts) + 1  BY <1>1, <1>2
<1>4. IsParts(more, n)  BY <1>1, <1>3 DEF IsParts
<1> QED BY <1>4 DEF more

\* With one more part, FlattenSeq has that part at the end.
LEMMA FlatGrows ==
  ASSUME NEW n \in Nat, NEW parts, IsParts(parts, n), NEW p, IsSeq(p), Len(p) = n
  PROVE  FlattenSeq(Append(parts, p)) = FlattenSeq(parts) \o p
<1>1. IsParts(Append(parts, p), n)  BY PartsGrow
<1>2. IsBlocks(FlattenSeq(Append(parts, p)), Append(parts, p), n)  BY <1>1, FlatBlocks
<1>3. IsBlocks(FlattenSeq(parts), parts, n) /\ IsSeq(parts)  BY FlatBlocks DEF IsParts
<1>4. IsBlocks(FlattenSeq(parts) \o p, Append(parts, p), n)  BY <1>3, BlocksGrow
<1>5. IsSeq(Append(parts, p))  BY <1>1 DEF IsParts
<1> QED BY <1>2, <1>4, <1>5, BlocksAlike

\* t has what s has, from the beginning.
Begins(s, t) == Len(s) <= Len(t) /\ \A i \in 1 .. Len(s) : s[i] = t[i]

\* The whole of the first parts is where the whole of all begins.
LEMMA FlatBegins ==
  ASSUME NEW n \in Nat, NEW s, IsParts(s, n), NEW t, IsParts(t, n), Begins(s, t)
  PROVE  Begins(FlattenSeq(s), FlattenSeq(t))
<1> DEFINE b == FlattenSeq(s)
           c == FlattenSeq(t)
<1>1. IsBlocks(b, s, n) /\ IsBlocks(c, t, n)  BY FlatBlocks
<1> HIDE DEF b, c
<1>2. Len(s) \in Nat /\ Len(t) \in Nat /\ Len(s) <= Len(t)  BY DEF IsParts, IsSeq, Begins
<1>3. Len(b) = Len(s) * n /\ Len(c) = Len(t) * n  BY <1>1 DEF IsBlocks
<1>4. Len(b) <= Len(c)
  <2>1. Len(t) * n = Len(s) * n + (Len(t) - Len(s)) * n  BY <1>2
  <2>2. Len(s) * n \in Nat /\ (Len(t) - Len(s)) * n \in Nat  BY <1>2
  <2> QED BY <1>3, <2>1, <2>2
<1>5. ASSUME NEW x \in 1 .. Len(b) PROVE b[x] = c[x]
  <2>0. x \in 1 .. Len(s) * n  BY <1>3
  <2>1. PICK k \in 1 .. Len(s), i \in 1 .. n : x = (k - 1) * n + i  BY <1>2, <2>0, BlockOf
  <2>2. k \in 1 .. Len(t) /\ s[k] = t[k]  BY <1>2, <2>1 DEF Begins
  <2> QED BY <1>1, <2>1, <2>2 DEF IsBlocks
<1> QED BY <1>4, <1>5 DEF Begins, b, c

-----------------------------------------------------------------------------
(***************************************************************************)
(* The lists of FAT sectors.                                               *)
(***************************************************************************)

\* The terminators of a word list.
Ends(words) == {i \in DOMAIN words : words[i] \in {FreeSect, EndOfChain}}

\* The terminators have places.
LEMMA EndsAre ==
  ASSUME NEW s, IsSeq(s)
  PROVE  /\ Ends(s) \in SUBSET Nat
         /\ \A i : i \in Ends(s) <=> i \in 1 .. Len(s) /\ s[i] \in {FreeSect, EndOfChain}
BY SeqDomain DEF Ends

\* What is taken ends before the first terminator.
LEMMA TerminatedIs ==
  ASSUME NEW s, IsSeq(s)
  PROVE  /\ Ends(s) = {} => Terminated(s) = s
         /\ \A m : m \in Ends(s) /\ (\A y \in Ends(s) : m <= y) => Terminated(s) = SubSeq(s, 1, m - 1)
<1> DEFINE ends == {i \in DOMAIN s : s[i] \in {FreeSect, EndOfChain}}
<1>1. Terminated(s) = IF ends = {} THEN s ELSE SubSeq(s, 1, Min(ends) - 1)
  BY DEF Terminated
<1>2. ends = Ends(s)  BY DEF Ends
<1> HIDE DEF ends
<1>3. ASSUME NEW m, m \in Ends(s), \A y \in Ends(s) : m <= y PROVE Min(Ends(s)) = m
  <2>1. Ends(s) \in SUBSET Nat  BY EndsAre
  <2>2. Min(Ends(s)) \in Ends(s) /\ \A y \in Ends(s) : Min(Ends(s)) <= y
    BY <1>3, <2>1, MinLeast
  <2>3. m \in Nat /\ Min(Ends(s)) \in Nat  BY <1>3, <2>1, <2>2
  <2> QED BY <1>3, <2>2, <2>3
<1> QED BY <1>1, <1>2, <1>3

\* All the words are taken if there is no terminator, fewer otherwise.
LEMMA TerminatedLess ==
  ASSUME NEW s, IsSeq(s)
  PROVE  /\ IsSeq(Terminated(s))
         /\ Ends(s) = {} <=> Terminated(s) = s
<1>1. CASE Ends(s) = {}  BY <1>1, TerminatedIs
<1>2. CASE Ends(s) # {}
  <2>1. Ends(s) \in SUBSET Nat  BY EndsAre
  <2>2. PICK m \in Ends(s) : \A y \in Ends(s) : m <= y  BY <1>2, <2>1, LeastOf
  <2>3. m \in 1 .. Len(s) /\ Len(s) \in Nat  BY <2>2, EndsAre, SeqDomain
  <2>4. Terminated(s) = SubSeq(s, 1, m - 1)  BY <2>2, TerminatedIs
  <2>5. m - 1 \in Nat /\ m - 1 <= Len(s) /\ 1 <= m - 1 + 1 /\ m - 1 - 1 + 1 = m - 1  BY <2>3
  <2>6. IsSeq(SubSeq(s, 1, m - 1)) /\ Len(SubSeq(s, 1, m - 1)) = m - 1 - 1 + 1
    BY <2>5, PartOf
  <2>7. Len(Terminated(s)) # Len(s)  BY <2>3, <2>4, <2>5, <2>6
  <2> QED BY <1>2, <2>4, <2>6, <2>7
<1> QED BY <1>1, <1>2

\* Nothing ends in a list without terminators: the next list goes on.
LEMMA TerminatedJoin ==
  ASSUME NEW a, IsSeq(a), Ends(a) = {}, NEW b, IsSeq(b)
  PROVE  /\ Terminated(a \o b) = a \o Terminated(b)
         /\ Ends(a \o b) = {} <=> Ends(b) = {}
<1> DEFINE c == a \o b
<1>1. IsJoined(c, a, b)  BY Joined
<1> HIDE DEF c
<1>2. /\ IsSeq(c) /\ Len(a) \in Nat /\ Len(b) \in Nat /\ Len(c) = Len(a) + Len(b)
      /\ \A k \in 1 .. Len(a) : c[k] = a[k]
      /\ \A k \in 1 .. Len(b) : c[Len(a) + k] = b[k]
  BY <1>1, SeqDomain DEF IsJoined
<1>3. \A i : i \in Ends(c) <=> \E k \in Ends(b) : i = Len(a) + k
  <2>1. ASSUME NEW i, i \in Ends(c) PROVE \E k \in Ends(b) : i = Len(a) + k
    <3>1. i \in 1 .. Len(c) /\ c[i] \in {FreeSect, EndOfChain}  BY <1>2, <2>1, EndsAre
    <3>2. i \notin 1 .. Len(a)  BY <1>2, <3>1, EndsAre
    <3>3. i - Len(a) \in 1 .. Len(b) /\ i = Len(a) + (i - Len(a))  BY <1>2, <3>1, <3>2
    <3>4. b[i - Len(a)] = c[i]  BY <1>2, <3>3
    <3>5. i - Len(a) \in Ends(b)  BY <3>1, <3>3, <3>4, EndsAre
    <3> QED BY <3>3, <3>5
  <2>2. ASSUME NEW k \in Ends(b) PROVE Len(a) + k \in Ends(c)
    <3>1. k \in 1 .. Len(b) /\ b[k] \in {FreeSect, EndOfChain}  BY <2>2, EndsAre
    <3>2. Len(a) + k \in 1 .. Len(c) /\ c[Len(a) + k] = b[k]  BY <1>2, <3>1
    <3> QED BY <1>2, <3>1, <3>2, EndsAre
  <2> QED BY <2>1, <2>2
<1>4. Ends(c) = {} <=> Ends(b) = {}  BY <1>3
<1>5. CASE Ends(b) = {}  BY <1>2, <1>4, <1>5, TerminatedIs DEF c
<1>6. CASE Ends(b) # {}
  <2>1. Ends(b) \in SUBSET Nat  BY EndsAre
  <2>2. PICK m \in Ends(b) : \A y \in Ends(b) : m <= y  BY <1>6, <2>1, LeastOf
  <2>3. m \in 1 .. Len(b)  BY <2>2, EndsAre
  <2>4. Terminated(b) = SubSeq(b, 1, m - 1)  BY <2>2, TerminatedIs
  <2> DEFINE n == Len(a) + m
             t == SubSeq(b, 1, m - 1)
             u == SubSeq(c, 1, n - 1)
             v == a \o t
  <2>5. n \in Ends(c) /\ \A y \in Ends(c) : n <= y
    <3>1. n \in Ends(c)  BY <1>3, <2>2
    <3>2. ASSUME NEW y \in Ends(c) PROVE n <= y
      <4>1. PICK k \in Ends(b) : y = Len(a) + k  BY <1>3
      <4>2. m <= k /\ k \in Nat /\ m \in Nat  BY <2>1, <2>2, <4>1
      <4> QED BY <1>2, <4>1, <4>2
    <3> QED BY <3>1, <3>2
  <2> HIDE DEF n
  <2>6. Terminated(c) = u  BY <1>2, <2>5, TerminatedIs
  <2>7. /\ m - 1 \in Nat /\ m - 1 <= Len(b) /\ 1 <= m - 1 + 1
        /\ n - 1 \in Nat /\ n - 1 <= Len(c) /\ 1 <= n - 1 + 1
    BY <1>2, <2>3 DEF n
  <2>8. /\ IsSeq(t) /\ Len(t) = m - 1 - 1 + 1
        /\ \A k \in 1 .. m - 1 - 1 + 1 : t[k] = b[1 + k - 1]
    BY <2>7, PartOf
  <2>9. /\ IsSeq(u) /\ Len(u) = n - 1 - 1 + 1
        /\ \A k \in 1 .. n - 1 - 1 + 1 : u[k] = c[1 + k - 1]
    BY <1>2, <2>7, PartOf
  <2> HIDE DEF t, u
  <2>10. Len(t) = m - 1 /\ \A k \in 1 .. m - 1 : t[k] = b[k]  BY <2>3, <2>8
  <2>11. Len(u) = n - 1 /\ \A k \in 1 .. n - 1 : u[k] = c[k]  BY <2>7, <2>9
  <2>12. IsJoined(v, a, t)  BY <2>8, Joined
  <2> HIDE DEF v
  <2>13. IsSeq(v) /\ Len(v) = n - 1  BY <1>2, <2>3, <2>10, <2>12 DEF IsJoined, n
  <2>14. ASSUME NEW k \in 1 .. n - 1 PROVE u[k] = v[k]
    <3>1. CASE k \in 1 .. Len(a)
      BY <1>2, <2>11, <2>12, <3>1 DEF IsJoined
    <3>2. CASE k \notin 1 .. Len(a)
      <4>1. k - Len(a) \in 1 .. m - 1 /\ k - Len(a) \in 1 .. Len(b) /\ k = Len(a) + (k - Len(a))
        BY <1>2, <2>3, <2>7, <3>2 DEF n
      <4>2. c[k] = b[k - Len(a)]  BY <1>2, <4>1
      <4>3. v[k] = t[k - Len(a)]  BY <2>10, <2>12, <4>1 DEF IsJoined
      <4> QED BY <2>10, <2>11, <4>1, <4>2, <4>3
    <3> QED BY <3>1, <3>2
  <2>15. u = v  BY <2>9, <2>11, <2>13, <2>14, SeqAlike
  <2> QED BY <1>4, <2>4, <2>6, <2>15 DEF c, t, v
<1> QED BY <1>5, <1>6

\* What follows a terminator does not count.
LEMMA TerminatedBegins ==
  ASSUME NEW a, IsSeq(a), Ends(a) # {}, NEW c, IsSeq(c), Begins(a, c)
  PROVE  Terminated(c) = Terminated(a)
<1>1. Ends(a) \in SUBSET Nat  BY EndsAre
<1>2. PICK m \in Ends(a) : \A y \in Ends(a) : m <= y  BY <1>1, LeastOf
<1>3. /\ m \in 1 .. Len(a) /\ Len(a) \in Nat /\ Len(c) \in Nat /\ Len(a) <= Len(c)
      /\ \A i \in 1 .. Len(a) : a[i] = c[i]
  BY <1>2, EndsAre, SeqDomain DEF Begins
<1>4. m \in Ends(c) /\ \A y \in Ends(c) : m <= y
  <2>1. m \in Ends(c)
    <3>1. m \in 1 .. Len(c) /\ c[m] \in {FreeSect, EndOfChain}  BY <1>2, <1>3, EndsAre
    <3> QED BY <3>1, EndsAre
  <2>2. ASSUME NEW y \in Ends(c) PROVE m <= y
    <3>1. y \in 1 .. Len(c) /\ c[y] \in {FreeSect, EndOfChain}  BY EndsAre
    <3>2. CASE y \in 1 .. Len(a)
      <4>1. y \in Ends(a)  BY <1>3, <3>1, <3>2, EndsAre
      <4> QED BY <1>2, <4>1
    <3>3. CASE y \notin 1 .. Len(a)  BY <1>3, <3>1, <3>3
    <3> QED BY <3>2, <3>3
  <2> QED BY <2>1, <2>2
<1>5. Terminated(a) = SubSeq(a, 1, m - 1)  BY <1>2, TerminatedIs
<1>6. Terminated(c) = SubSeq(c, 1, m - 1)  BY <1>4, TerminatedIs
<1> DEFINE t == SubSeq(a, 1, m - 1)
           u == SubSeq(c, 1, m - 1)
<1>7. m - 1 \in Nat /\ m - 1 <= Len(a) /\ m - 1 <= Len(c) /\ 1 <= m - 1 + 1  BY <1>3
<1>8. /\ IsSeq(t) /\ Len(t) = m - 1 - 1 + 1
      /\ \A k \in 1 .. m - 1 - 1 + 1 : t[k] = a[1 + k - 1]
  BY <1>7, PartOf
<1>9. /\ IsSeq(u) /\ Len(u) = m - 1 - 1 + 1
      /\ \A k \in 1 .. m - 1 - 1 + 1 : u[k] = c[1 + k - 1]
  BY <1>7, PartOf
<1> HIDE DEF t, u
<1>10. \A k \in 1 .. m - 1 - 1 + 1 : 1 + k - 1 \in 1 .. Len(a)  BY <1>3
<1>11. t = u  BY <1>3, <1>8, <1>9, <1>10, SeqAlike
<1> QED BY <1>5, <1>6, <1>11 DEF t, u

-----------------------------------------------------------------------------
(***************************************************************************)
(* The FAT from its sectors.                                               *)
(***************************************************************************)

\* The sectors among the first i of a list that the file has.
IsKept(f, img, nums) ==
  f = [i \in 0 .. Len(nums) |->
        IF i = 0 THEN << >>
        ELSE IF nums[i] \in DOMAIN img THEN Append(f[i - 1], nums[i])
        ELSE f[i - 1]]

Kept(img, nums) == CHOOSE f : IsKept(f, img, nums)

\* InFile is the recursion at its end.
LEMMA InFileKept == \A img, nums : InFile(img, nums) = Kept(img, nums)[Len(nums)]
BY DEF InFile, Kept, IsKept

\* What the recursion says at each place.
LEMMA KeptIs ==
  ASSUME NEW img, NEW nums, Len(nums) \in Nat
  PROVE  /\ Kept(img, nums)[0] = << >>
         /\ \A i \in 0 .. Len(nums) : Kept(img, nums)[i] \in Seq(DOMAIN img)
         /\ \A i \in 1 .. Len(nums) :
              Kept(img, nums)[i] = IF nums[i] \in DOMAIN img
                                   THEN Append(Kept(img, nums)[i - 1], nums[i])
                                   ELSE Kept(img, nums)[i - 1]
<1> DEFINE n == Len(nums)
           S == Seq(DOMAIN img)
           next(i, x) == IF nums[i] \in DOMAIN img THEN Append(x, nums[i]) ELSE x
           step == [p \in Nat \X S |-> next(p[1], p[2])]
           g == Kept(img, nums)
           body(f, i) == IF i = 0 THEN << >>
                         ELSE IF nums[i] \in DOMAIN img THEN Append(f[i - 1], nums[i])
                         ELSE f[i - 1]
<1>1. << >> \in S /\ \A i \in Nat, x \in S : next(i, x) \in S
  <2>1. << >> \in S  OBVIOUS
  <2>2. ASSUME NEW i \in Nat, NEW x \in S PROVE next(i, x) \in S
    <3>1. CASE nums[i] \in DOMAIN img
      <4> DEFINE D == DOMAIN img
      <4>1. nums[i] \in D /\ x \in Seq(D)  BY <3>1
      <4> HIDE DEF D
      <4>2. Append(x, nums[i]) \in Seq(D)  BY <4>1, AppendProperties
      <4> QED BY <3>1, <4>2 DEF D
    <3>2. CASE nums[i] \notin DOMAIN img  BY <3>2
    <3> QED BY <3>1, <3>2
  <2> QED BY <2>1, <2>2
<1> HIDE DEF S, next
<1>2. step \in [Nat \X S -> S]  BY <1>1
<1>3. \A i \in Nat, x \in S : step[<< i, x >>] = next(i, x)  OBVIOUS
<1> HIDE DEF step
<1>4. PICK f : IsIterated(f, S, << >>, step, n)  BY <1>1, <1>2, Iterated
<1>5. f \in [0 .. n -> S] /\ f[0] = << >> /\ \A i \in 1 .. n : f[i] = step[<< i, f[i - 1] >>]
  BY <1>4 DEF IsIterated
<1>6. \A i \in 1 .. n : i \in Nat /\ f[i - 1] \in S  BY <1>5
<1>7. \A i \in 1 .. n : f[i] = next(i, f[i - 1])  BY <1>3, <1>5, <1>6
<1>8. f = [i \in 0 .. n |-> body(f, i)]
  <2>1. \A i \in 0 .. n : f[i] = body(f, i)
    <3>1. \A i \in 0 .. n : i = 0 \/ i \in 1 .. n  OBVIOUS
    <3>2. \A i \in 1 .. n : i # 0  OBVIOUS
    <3> QED BY <1>5, <1>7, <3>1, <3>2 DEF next
  <2> HIDE DEF body
  <2> QED BY <1>5, <2>1
<1>9. IsKept(f, img, nums)  BY <1>8 DEF IsKept
<1>10. IsKept(g, img, nums)  BY <1>9 DEF Kept
<1> HIDE DEF g
<1>11. g = [i \in 0 .. n |-> body(g, i)]  BY <1>10 DEF IsKept
<1>12. \A i \in 0 .. n : g[i] = body(g, i)
  <2> HIDE DEF body
  <2> QED BY <1>11
<1>13. g[0] = << >>  BY <1>12
<1>14. \A i \in 1 .. n : g[i] = next(i, g[i - 1])  BY <1>12 DEF next
<1> DEFINE T == {i \in Nat : i \in 0 .. n => g[i] \in S}
<1>15. 0 \in T  BY <1>1, <1>13
<1>16. ASSUME NEW i \in Nat, i \in T PROVE i + 1 \in T
  <2> SUFFICES ASSUME i + 1 \in 0 .. n PROVE g[i + 1] \in S  OBVIOUS
  <2>1. g[i] \in S /\ i + 1 \in 1 .. n /\ (i + 1) - 1 = i  BY <1>16
  <2> QED BY <1>1, <1>14, <2>1
<1> HIDE DEF T
<1>17. \A i \in Nat : i \in T  BY <1>15, <1>16, AllNumbers
<1>18. \A i \in 0 .. n : g[i] \in S  BY <1>17 DEF T
<1>19. /\ g[0] = << >> /\ \A i \in 0 .. n : g[i] \in S
       /\ \A i \in 1 .. n : g[i] = IF nums[i] \in DOMAIN img THEN Append(g[i - 1], nums[i])
                                   ELSE g[i - 1]
  BY <1>13, <1>14, <1>18 DEF next
<1> QED BY <1>19 DEF g, S

\* words is what the words of the sectors say, one after the other.
WordsOf(img, sectors) == [k \in DOMAIN sectors |-> img[sectors[k]].words]
AreWords(words, img, sectors) == IsBlocks(words, WordsOf(img, sectors), FatEntries)

\* words is fat, which counts from 0.
IsTable(words, fat) ==
  IsSeq(words) /\ DOMAIN fat = 0 .. Len(words) - 1 /\ \A n \in DOMAIN fat : fat[n] = words[n + 1]

IsImage(img) ==
  /\ IsFiniteSet(DOMAIN img)
  /\ DOMAIN img = 0 .. Cardinality(DOMAIN img) - 1
  /\ \A s \in DOMAIN img : IsSector(img[s])

SectorsIn(img, s) == IsSeq(s) /\ \A k \in 1 .. Len(s) : s[k] \in DOMAIN img

\* The sectors have as many words each.
LEMMA WordsParts ==
  ASSUME NEW img, IsImage(img), NEW s, SectorsIn(img, s)
  PROVE  /\ IsParts(WordsOf(img, s), FatEntries) /\ Len(WordsOf(img, s)) = Len(s)
         /\ \A k \in 1 .. Len(s) : WordsOf(img, s)[k] = img[s[k]].words
<1> DEFINE p == WordsOf(img, s)
<1>1. Len(s) \in Nat /\ DOMAIN s = 1 .. Len(s)  BY SeqDomain DEF SectorsIn
<1>2. p = [k \in 1 .. Len(s) |-> img[s[k]].words]  BY <1>1 DEF WordsOf
<1> HIDE DEF p
<1>3. Len(p) = Len(s) /\ \A k \in 1 .. Len(s) : p[k] = img[s[k]].words  BY <1>1, <1>2
<1>4. IsSeq(p)  BY <1>1, <1>2, <1>3 DEF IsSeq
<1>5. ASSUME NEW k \in 1 .. Len(s) PROVE IsSeq(p[k]) /\ Len(p[k]) = FatEntries
  <2>1. IsSector(img[s[k]])  BY DEF SectorsIn, IsImage
  <2>2. IsWords(img[s[k]].words) /\ Len(img[s[k]].words) = FatEntries  BY <2>1 DEF IsSector
  <2>3. IsSeq(img[s[k]].words)  BY <2>2 DEF IsWords, IsSeq
  <2> QED BY <1>3, <2>2, <2>3
<1> QED BY <1>3, <1>4, <1>5 DEF IsParts, p

\* One sector more adds its words.
LEMMA WordsGrow ==
  ASSUME NEW img, IsImage(img), NEW s, SectorsIn(img, s), NEW a \in DOMAIN img
  PROVE  /\ SectorsIn(img, Append(s, a))
         /\ WordsOf(img, Append(s, a)) = Append(WordsOf(img, s), img[a].words)
<1> DEFINE t == Append(s, a)
           n == Len(s)
<1>1. IsSeq(s) /\ n \in Nat  BY SeqDomain DEF SectorsIn
<1>2. IsSeq(t) /\ Len(t) = n + 1 /\ t[n + 1] = a /\ \A k \in 1 .. n : t[k] = s[k]
  BY <1>1, Appended
<1> HIDE DEF t
<1>3. \A k \in 1 .. n + 1 : k \in 1 .. n \/ k = n + 1  BY <1>1
<1>4. SectorsIn(img, t)  BY <1>2, <1>3 DEF SectorsIn
<1> DEFINE p == WordsOf(img, s)
           q == WordsOf(img, t)
           r == Append(p, img[a].words)
<1>5. IsSeq(p) /\ Len(p) = n /\ \A k \in 1 .. n : p[k] = img[s[k]].words
  BY WordsParts DEF IsParts
<1>6. IsSeq(q) /\ Len(q) = n + 1 /\ \A k \in 1 .. n + 1 : q[k] = img[t[k]].words
  BY <1>2, <1>4, WordsParts DEF IsParts
<1> HIDE DEF p, q
<1>7. IsSeq(r) /\ Len(r) = n + 1 /\ r[n + 1] = img[a].words /\ \A k \in 1 .. n : r[k] = p[k]
  BY <1>5, Appended
<1> HIDE DEF r
<1>8. \A k \in 1 .. n + 1 : q[k] = r[k]  BY <1>2, <1>3, <1>5, <1>6, <1>7
<1>9. q = r  BY <1>6, <1>7, <1>8, SeqAlike
<1> QED BY <1>4, <1>9 DEF p, q, r, t

\* The table that words of sectors make.
LEMMA WordsTable ==
  ASSUME NEW img, IsImage(img), NEW s, SectorsIn(img, s), NEW words, AreWords(words, img, s)
  PROVE  IsTable(words, [n \in 0 .. Len(s) * FatEntries - 1 |->
                          img[s[n \div FatEntries + 1]].words[(n % FatEntries) + 1]])
<1> DEFINE F == FatEntries
           m == Len(s)
           p == WordsOf(img, s)
           value(n) == img[s[n \div F + 1]].words[(n % F) + 1]
           fat == [n \in 0 .. m * F - 1 |-> value(n)]
<1>1. F \in Nat \ {0} /\ m \in Nat  BY CfbOpenAssumption, SeqDomain DEF SectorsIn
<1>2. Len(p) = m /\ \A k \in 1 .. m : p[k] = img[s[k]].words  BY WordsParts
<1>3. IsSeq(words) /\ Len(words) = m * F /\ \A k \in 1 .. m, i \in 1 .. F : words[(k - 1) * F + i] = p[k][i]
  BY <1>2 DEF AreWords, IsBlocks
<1> HIDE DEF F, m, p
<1>4. ASSUME NEW n \in 0 .. m * F - 1 PROVE value(n) = words[n + 1]
  <2> DEFINE q == n \div F
             r == n % F
  <2>1. n \in Nat /\ n + 1 \in 1 .. m * F  BY <1>1
  <2>2. n < m * F  BY <1>1, <2>1
  <2>3. q \in 0 .. m - 1 /\ r \in 0 .. F - 1 /\ n = q * F + r  BY <1>1, <2>1, <2>2, Quotient
  <2>4. value(n) = img[s[q + 1]].words[r + 1]  OBVIOUS
  <2> HIDE DEF q, r, value
  <2>6. q + 1 \in 1 .. m /\ r + 1 \in 1 .. F /\ (q + 1) - 1 = q  BY <1>1, <2>3
  <2>7. words[((q + 1) - 1) * F + (r + 1)] = p[q + 1][r + 1]  BY <1>3, <2>6
  <2>8. ((q + 1) - 1) * F + (r + 1) = n + 1
    <3>1. q * F \in Nat  BY <1>1, <2>3
    <3>2. ((q + 1) - 1) * F = q * F  BY <2>6
    <3> QED BY <2>3, <3>1, <3>2
  <2>9. p[q + 1] = img[s[q + 1]].words  BY <1>2, <2>6
  <2> QED BY <2>4, <2>7, <2>8, <2>9
<1> HIDE DEF value
<1>5. DOMAIN fat = 0 .. Len(words) - 1 /\ \A n \in DOMAIN fat : fat[n] = words[n + 1]
  BY <1>3, <1>4
<1>6. IsTable(words, fat)
  <2> HIDE DEF fat
  <2> QED BY <1>3, <1>5 DEF IsTable
<1> QED BY <1>6 DEF value, F, m

-----------------------------------------------------------------------------
(***************************************************************************)
(* The loop over the DIFAT sectors.                                        *)
(***************************************************************************)

\* The successors of the DIFAT chain.
DifatNext(img) == [s \in {t \in DOMAIN img : "words" \in DOMAIN img[t]} |-> Last(img[s].words)]

\* What the DIFAT sectors s list, with what follows a terminator.
FrontsOf(img, s) == [k \in DOMAIN s |-> Front(img[s[k]].words)]
Listing(img, s) == FlattenSeq(FrontsOf(img, s))

\* What the loop has after the sectors s: the list and the next sector.
DifatAt(img, h, list, a, s) ==
  /\ IsTrail(DifatNext(img), h.firstDifat, s)
  /\ list = Terminated(h.difat) \o Terminated(Listing(img, s))
  /\ a = IF Ends(Listing(img, s)) = {} THEN Ahead(DifatNext(img), h.firstDifat, s) ELSE EndOfChain

\* The words of a sector, without the last one.
LEMMA SectorWords ==
  ASSUME NEW img, IsImage(img), NEW s \in DOMAIN img
  PROVE  LET w == img[s].words
         IN  /\ IsSeq(w) /\ Len(w) = FatEntries /\ w # << >> /\ FatEntries \in Nat \ {0}
             /\ IsSeq(Front(w)) /\ Len(Front(w)) = FatEntries - 1
<1> DEFINE w == img[s].words
<1>1. IsSector(img[s])  BY DEF IsImage
<1>2. IsWords(w) /\ Len(w) = FatEntries  BY <1>1 DEF IsSector
<1> HIDE DEF w
<1>3. IsSeq(w)  BY <1>2 DEF IsWords, IsSeq
<1>4. FatEntries \in Nat \ {0} /\ w # << >>  BY <1>2, CfbOpenAssumption
<1>5. IsSeq(Front(w)) /\ Len(Front(w)) = Len(w) - 1  BY <1>3, <1>4, Fronted
<1> QED BY <1>2, <1>3, <1>4, <1>5 DEF w

\* Every sector has a next one in the DIFAT chain.
LEMMA DifatDomain ==
  ASSUME NEW img, IsImage(img)
  PROVE  /\ DOMAIN DifatNext(img) = DOMAIN img
         /\ \A s \in DOMAIN img : DifatNext(img)[s] = Last(img[s].words)
<1>1. \A s \in DOMAIN img : "words" \in DOMAIN img[s]  BY DEF IsImage, IsSector
<1> DEFINE value(s) == Last(img[s].words)
<1>2. DifatNext(img) = [s \in DOMAIN img |-> value(s)]  BY <1>1 DEF DifatNext
<1> HIDE DEF value
<1>3. DOMAIN DifatNext(img) = DOMAIN img /\ \A s \in DOMAIN img : DifatNext(img)[s] = value(s)
  BY <1>2
<1> QED BY <1>3 DEF value

\* The DIFAT sectors list as many numbers each.
LEMMA FrontsParts ==
  ASSUME NEW img, IsImage(img), NEW s, SectorsIn(img, s)
  PROVE  /\ IsParts(FrontsOf(img, s), FatEntries - 1) /\ Len(FrontsOf(img, s)) = Len(s)
         /\ \A k \in 1 .. Len(s) : FrontsOf(img, s)[k] = Front(img[s[k]].words)
<1> DEFINE p == FrontsOf(img, s)
           value(k) == Front(img[s[k]].words)
<1>1. Len(s) \in Nat /\ DOMAIN s = 1 .. Len(s)  BY SeqDomain DEF SectorsIn
<1>2. p = [k \in 1 .. Len(s) |-> value(k)]  BY <1>1 DEF FrontsOf
<1> HIDE DEF p, value
<1>3. Len(p) = Len(s) /\ \A k \in 1 .. Len(s) : p[k] = value(k)  BY <1>1, <1>2
<1>4. IsSeq(p)  BY <1>1, <1>2, <1>3 DEF IsSeq
<1>5. ASSUME NEW k \in 1 .. Len(s) PROVE IsSeq(p[k]) /\ Len(p[k]) = FatEntries - 1
  <2>1. s[k] \in DOMAIN img  BY DEF SectorsIn
  <2>2. IsSeq(value(k)) /\ Len(value(k)) = FatEntries - 1  BY <2>1, SectorWords DEF value
  <2> QED BY <1>3, <2>2
<1>6. IsParts(p, FatEntries - 1)  BY <1>3, <1>4, <1>5 DEF IsParts
<1> QED BY <1>3, <1>6 DEF p, value

\* One DIFAT sector more adds its list.
LEMMA FrontsGrow ==
  ASSUME NEW img, IsImage(img), NEW s, SectorsIn(img, s), NEW a \in DOMAIN img
  PROVE  FrontsOf(img, Append(s, a)) = Append(FrontsOf(img, s), Front(img[a].words))
<1> DEFINE t == Append(s, a)
           n == Len(s)
<1>1. IsSeq(s) /\ n \in Nat  BY SeqDomain DEF SectorsIn
<1>2. IsSeq(t) /\ Len(t) = n + 1 /\ t[n + 1] = a /\ \A k \in 1 .. n : t[k] = s[k]
  BY <1>1, Appended
<1>3. SectorsIn(img, t)  BY WordsGrow
<1> HIDE DEF t
<1> DEFINE e == Front(img[a].words)
           p == FrontsOf(img, s)
           q == FrontsOf(img, t)
           r == Append(p, e)
<1>5. IsSeq(p) /\ Len(p) = n /\ \A k \in 1 .. n : p[k] = Front(img[s[k]].words)
  BY FrontsParts DEF IsParts
<1>6. IsSeq(q) /\ Len(q) = n + 1 /\ \A k \in 1 .. n + 1 : q[k] = Front(img[t[k]].words)
  BY <1>2, <1>3, FrontsParts DEF IsParts
<1> HIDE DEF p, q
<1>7. IsSeq(r) /\ Len(r) = n + 1 /\ r[n + 1] = e /\ \A k \in 1 .. n : r[k] = p[k]
  BY <1>5, Appended
<1> HIDE DEF r
<1>8. ASSUME NEW k \in 1 .. n + 1 PROVE q[k] = r[k]
  <2>1. CASE k \in 1 .. n  BY <1>2, <1>5, <1>6, <1>7, <2>1
  <2>2. CASE k = n + 1  BY <1>2, <1>6, <1>7, <2>2
  <2> QED BY <1>1, <2>1, <2>2
<1>9. q = r  BY <1>6, <1>7, <1>8, SeqAlike
<1> QED BY <1>9 DEF p, q, r, t

\* So the numbers of that sector come last.
LEMMA ListingGrows ==
  ASSUME NEW img, IsImage(img), NEW s, SectorsIn(img, s), NEW a \in DOMAIN img
  PROVE  /\ Listing(img, Append(s, a)) = Listing(img, s) \o Front(img[a].words)
         /\ IsSeq(Listing(img, s))
<1> DEFINE n == FatEntries - 1
           e == Front(img[a].words)
           p == FrontsOf(img, s)
<1>1. IsParts(p, n)  BY FrontsParts
<1>2. IsSeq(e) /\ Len(e) = n /\ n \in Nat  BY SectorWords
<1>3. FrontsOf(img, Append(s, a)) = Append(p, e)  BY FrontsGrow
<1> HIDE DEF n, e, p
<1>4. FlattenSeq(Append(p, e)) = FlattenSeq(p) \o e  BY <1>1, <1>2, FlatGrows
<1>5. IsSeq(FlattenSeq(p))  BY <1>1, <1>2, FlatBlocks DEF IsBlocks
<1> QED BY <1>3, <1>4, <1>5 DEF Listing, p, e

\* Without DIFAT sectors nothing is listed.
LEMMA NoListing == ASSUME NEW img PROVE Listing(img, << >>) = << >>
<1> DEFINE p == FrontsOf(img, << >>)
           value(k) == Front(img[<< >>[k]].words)
<1>1. p = [k \in DOMAIN << >> |-> value(k)]  BY DEF FrontsOf
<1> HIDE DEF p, value
<1>2. p = << >>  BY <1>1
<1>3. FlattenSeq(<< >>) = << >>  BY DEF FlattenSeq
<1> QED BY <1>2, <1>3 DEF Listing, p

\* The empty list ends nowhere.
LEMMA NothingTerminated == Terminated(<< >>) = << >> /\ Ends(<< >>) = {}
<1>1. Ends(<< >>) = {}  BY DEF Ends
<1> QED BY <1>1, EmptyChain, TerminatedIs

\* What the first sectors list is where the list of all begins.
LEMMA ListingBegins ==
  ASSUME NEW img, IsImage(img), NEW s, SectorsIn(img, s), NEW t, SectorsIn(img, t), Begins(s, t)
  PROVE  IsSeq(Listing(img, s)) /\ IsSeq(Listing(img, t)) /\ Begins(Listing(img, s), Listing(img, t))
<1> DEFINE n == FatEntries - 1
           p == FrontsOf(img, s)
           q == FrontsOf(img, t)
<1>1. IsParts(p, n) /\ Len(p) = Len(s) /\ \A k \in 1 .. Len(s) : p[k] = Front(img[s[k]].words)
  BY FrontsParts
<1>2. IsParts(q, n) /\ Len(q) = Len(t) /\ \A k \in 1 .. Len(t) : q[k] = Front(img[t[k]].words)
  BY FrontsParts
<1>3. n \in Nat  BY CfbOpenAssumption
<1> HIDE DEF n, p, q
<1>4. Len(s) \in Nat /\ Len(t) \in Nat  BY SeqDomain DEF SectorsIn
<1>5. Begins(p, q)
  <2>1. \A k \in 1 .. Len(s) : k \in 1 .. Len(t)  BY <1>4 DEF Begins
  <2> QED BY <1>1, <1>2, <2>1 DEF Begins
<1>6. Begins(FlattenSeq(p), FlattenSeq(q))  BY <1>1, <1>2, <1>3, <1>5, FlatBegins
<1>7. IsSeq(FlattenSeq(p)) /\ IsSeq(FlattenSeq(q))  BY <1>1, <1>2, <1>3, FlatBlocks DEF IsBlocks
<1> QED BY <1>6, <1>7 DEF Listing, p, q

\* A chain through the file is made of its sectors.
LEMMA TrailSectors ==
  ASSUME NEW img, NEW succ, DOMAIN succ \subseteq DOMAIN img, NEW start, NEW s, IsTrail(succ, start, s)
  PROVE  SectorsIn(img, s)
BY DEF IsTrail, SectorsIn

IsHeader(h) == IsWords(h.difat)

\* The numbers in the header are a sequence, cut at a terminator or not.
LEMMA HeaderDifat == ASSUME NEW h, IsHeader(h) PROVE IsSeq(h.difat) /\ IsSeq(Terminated(h.difat))
<1>1. IsSeq(h.difat)  BY DEF IsHeader, IsWords, IsSeq
<1> QED BY <1>1, TerminatedLess

\* The loop begins, ...
LEMMA DifatBegins ==
  ASSUME NEW img, NEW h, IsHeader(h)
  PROVE  DifatAt(img, h, Terminated(h.difat), h.firstDifat, << >>)
<1>1. IsTrail(DifatNext(img), h.firstDifat, << >>) /\ Ahead(DifatNext(img), h.firstDifat, << >>) = h.firstDifat
  BY NoTrail
<1>2. Listing(img, << >>) = << >>  BY NoListing
<1>3. Terminated(h.difat) \o << >> = Terminated(h.difat)  BY HeaderDifat, JoinedNothing
<1> QED BY <1>1, <1>2, <1>3, NothingTerminated DEF DifatAt

\* ... goes on ...
LEMMA DifatGoes ==
  ASSUME NEW img, IsImage(img), NEW h, IsHeader(h), NEW list, NEW a, NEW s,
         DifatAt(img, h, list, a, s), a \in DOMAIN img, a \notin ToSet(s),
         NEW listed, listed = Front(img[a].words), NEW taken, taken = Terminated(listed)
  PROVE  DifatAt(img, h, list \o taken,
                 IF taken = listed THEN Last(img[a].words) ELSE EndOfChain, Append(s, a))
<1> DEFINE succ == DifatNext(img)
           D == Terminated(h.difat)
           L == Listing(img, s)
           M == Listing(img, Append(s, a))
<1>1. IsTrail(succ, h.firstDifat, s) /\ list = D \o Terminated(L)  BY DEF DifatAt
<1>2. DOMAIN succ = DOMAIN img /\ succ[a] = Last(img[a].words)  BY DifatDomain
<1>3. SectorsIn(img, s)  BY <1>1, <1>2, TrailSectors
<1>4. M = L \o listed /\ IsSeq(L)  BY <1>3, ListingGrows
<1>5. IsSeq(listed)  BY SectorWords
<1>6. a # EndOfChain
  <2>1. a \in 0 .. Cardinality(DOMAIN img) - 1 /\ Cardinality(DOMAIN img) \in Nat
    BY FS_CardinalityType DEF IsImage
  <2> QED BY <2>1 DEF EndOfChain
<1>7. Ends(L) = {} /\ a = Ahead(succ, h.firstDifat, s)  BY <1>6 DEF DifatAt
<1>8. GoesOnFrom(succ, a, s)  BY <1>2 DEF GoesOnFrom
<1> HIDE DEF succ
<1>9. IsTrail(succ, h.firstDifat, Append(s, a)) /\ Ahead(succ, h.firstDifat, Append(s, a)) = succ[a]
  BY <1>1, <1>7, <1>8, TrailGrows
<1> HIDE DEF L, M, D
<1>10. Terminated(M) = L \o taken /\ (Ends(M) = {} <=> Ends(listed) = {})
  BY <1>4, <1>5, <1>7, TerminatedJoin
<1>11. IsSeq(taken) /\ (Ends(listed) = {} <=> taken = listed)  BY <1>5, TerminatedLess
<1>12. Terminated(L) = L /\ IsSeq(D)  BY <1>4, <1>7, TerminatedLess, HeaderDifat DEF D
<1>13. (D \o L) \o taken = D \o (L \o taken)  BY <1>4, <1>11, <1>12, JoinedThree
<1>14. list \o taken = D \o Terminated(M)  BY <1>1, <1>10, <1>12, <1>13
<1> QED BY <1>2, <1>9, <1>10, <1>11, <1>14 DEF DifatAt, succ, D, M

\* ... and ends with the list that the reader has.
LEMMA DifatEnds ==
  ASSUME NEW img, IsImage(img), NEW h, IsHeader(h), NEW list, NEW a, NEW s,
         DifatAt(img, h, list, a, s), ~(a \in DOMAIN img /\ a \notin ToSet(s))
  PROVE  list = FatSectors(img, h) /\ IsSeq(list)
<1> DEFINE succ == DifatNext(img)
           w == Walked(succ, h.firstDifat)
           L == Listing(img, s)
           M == Listing(img, w)
<1>1. IsTrail(succ, h.firstDifat, s) /\ list = Terminated(h.difat) \o Terminated(L)  BY DEF DifatAt
<1>2. DOMAIN succ = DOMAIN img /\ IsFiniteSet(DOMAIN succ)  BY DifatDomain DEF IsImage
<1>3. FatSectors(img, h) = Terminated(h.difat) \o Terminated(M)
  <2>1. DifatSectors(img, h) = w  BY DEF DifatSectors, DifatNext
  <2> HIDE DEF w
  <2> QED BY <2>1 DEF FatSectors, Listing, FrontsOf
<1>4. IsTrail(succ, h.firstDifat, w) /\ ~GoesOnFrom(succ, Ahead(succ, h.firstDifat, w), w)
  <2> HIDE DEF succ
  <2> QED BY <1>2, WalkedTrail
<1>5. SectorsIn(img, s) /\ SectorsIn(img, w)
  <2> HIDE DEF w, succ
  <2> QED BY <1>1, <1>2, <1>4, TrailSectors
<1> HIDE DEF w
<1>6. Begins(s, w)
  <2> HIDE DEF succ
  <2> QED BY <1>1, <1>4, TrailBegins DEF Begins
<1>7. IsSeq(L) /\ IsSeq(M) /\ Begins(L, M)  BY <1>5, <1>6, ListingBegins
<1>8. Terminated(L) = Terminated(M)
  <2>1. CASE Ends(L) # {}
    <3> HIDE DEF L, M
    <3> QED BY <1>7, <2>1, TerminatedBegins
  <2>2. CASE Ends(L) = {}
    <3>1. a = Ahead(succ, h.firstDifat, s)  BY <2>2 DEF DifatAt
    <3>2. ~GoesOnFrom(succ, a, s)  BY <1>2 DEF GoesOnFrom
    <3> HIDE DEF succ
    <3>3. s = w  BY <1>1, <1>2, <3>1, <3>2, TrailEnds DEF w
    <3> QED BY <3>3
  <2> QED BY <2>1, <2>2
<1> HIDE DEF L, M
<1>9. IsSeq(list)
  <2>1. IsSeq(Terminated(L)) /\ IsSeq(Terminated(h.difat))  BY <1>7, TerminatedLess, HeaderDifat
  <2> QED BY <1>1, <2>1, Joined DEF IsJoined
<1> QED BY <1>1, <1>3, <1>8, <1>9

-----------------------------------------------------------------------------
(***************************************************************************)
(* The loop over the FAT sectors.                                          *)
(***************************************************************************)

\* What the loop has when it has done the first sectors of the list nums: the
\* rest of the list and the words.
FatAt(img, nums, rest, words) ==
  /\ IsSeq(nums)
  /\ \E k \in 0 .. Len(nums) : /\ rest = SubSeq(nums, k + 1, Len(nums))
                              /\ AreWords(words, img, Kept(img, nums)[k])

\* The loop begins, ...
LEMMA FatBegins ==
  ASSUME NEW img, NEW nums, IsSeq(nums)
  PROVE  FatAt(img, nums, nums, << >>)
<1>1. Len(nums) \in Nat  BY DEF IsSeq
<1>2. Kept(img, nums)[0] = << >>  BY <1>1, KeptIs
<1> DEFINE value(k) == img[<< >>[k]].words
<1>3. WordsOf(img, << >>) = << >>
  <2>1. WordsOf(img, << >>) = [k \in DOMAIN << >> |-> value(k)]  BY DEF WordsOf
  <2> HIDE DEF value
  <2> QED BY <2>1
<1>4. AreWords(<< >>, img, Kept(img, nums)[0])
  <2>1. FatEntries \in Nat  BY CfbOpenAssumption
  <2> QED BY <1>2, <1>3, <2>1, NoBlocks DEF AreWords
<1> DEFINE t == SubSeq(nums, 0 + 1, Len(nums))
<1>5. t = nums
  <2>1. IsSeq(t) /\ Len(t) = Len(nums) - 1 + 1 /\ \A k \in 1 .. Len(nums) - 1 + 1 : t[k] = nums[1 + k - 1]
    BY <1>1, PartOf
  <2> HIDE DEF t
  <2>2. \A k \in 1 .. Len(nums) : 1 + k - 1 = k  OBVIOUS
  <2>3. Len(nums) - 1 + 1 = Len(nums)  BY <1>1
  <2> QED BY <2>1, <2>2, <2>3, SeqAlike
<1>6. 0 \in 0 .. Len(nums)  BY <1>1
<1> QED BY <1>4, <1>5, <1>6 DEF FatAt

\* What is kept of a list are sectors of the file.
LEMMA KeptSectors ==
  ASSUME NEW img, NEW nums, IsSeq(nums), NEW k \in 0 .. Len(nums)
  PROVE  SectorsIn(img, Kept(img, nums)[k])
<1> DEFINE D == DOMAIN img
           s == Kept(img, nums)[k]
<1>1. s \in Seq(D)  BY KeptIs DEF IsSeq
<1> HIDE DEF s, D
<1>2. Len(s) \in Nat /\ s \in [1 .. Len(s) -> D]  BY <1>1, LenProperties
<1> QED BY <1>2 DEF SectorsIn, IsSeq, s, D

\* ... goes on ...
LEMMA FatGoes ==
  ASSUME NEW img, IsImage(img), NEW nums, NEW rest, NEW words, FatAt(img, nums, rest, words),
         rest # << >>
  PROVE  FatAt(img, nums, Tail(rest),
               words \o (IF Head(rest) \in DOMAIN img THEN img[Head(rest)].words ELSE << >>))
<1> DEFINE n == Len(nums)
<1>1. IsSeq(nums) /\ n \in Nat  BY DEF FatAt, IsSeq
<1>2. PICK k \in 0 .. n : rest = SubSeq(nums, k + 1, n) /\ AreWords(words, img, Kept(img, nums)[k])
  BY DEF FatAt
<1>3. /\ IsSeq(rest) /\ Len(rest) = n - (k + 1) + 1
      /\ \A j \in 1 .. n - (k + 1) + 1 : rest[j] = nums[k + 1 + j - 1]
  BY <1>1, <1>2, PartOf
<1>4. Len(rest) # 0  BY <1>3, EmptyChain, SeqAlike
<1>5. k + 1 \in 1 .. n /\ k + 1 \in 0 .. n /\ (k + 1) - 1 = k  BY <1>1, <1>3, <1>4
<1>6. Head(rest) = nums[k + 1]
  <2>1. 1 \in 1 .. n - (k + 1) + 1 /\ k + 1 + 1 - 1 = k + 1  BY <1>1, <1>5
  <2>2. rest[1] = nums[k + 1]  BY <1>3, <2>1
  <2> QED BY <2>2 DEF Head
<1>7. Tail(rest) = SubSeq(nums, (k + 1) + 1, n)
  <2> DEFINE t == Tail(rest)
             u == SubSeq(nums, k + 2, n)
  <2>1. PICK S : rest \in Seq(S)  BY <1>3, Typed
  <2>2. t \in Seq(S) /\ Len(t) = Len(rest) - 1 /\ \A i \in 1 .. Len(t) : t[i] = rest[i + 1]
    BY <2>1, HeadTailProperties
  <2>3. /\ IsSeq(u) /\ Len(u) = n - (k + 2) + 1
        /\ \A j \in 1 .. n - (k + 2) + 1 : u[j] = nums[k + 2 + j - 1]
    BY <1>1, <1>5, PartOf
  <2> HIDE DEF t, u
  <2>4. Len(rest) - 1 = n - (k + 2) + 1 /\ Len(rest) - 1 \in Nat  BY <1>1, <1>3, <1>5
  <2>5. IsSeq(t)
    <3>1. Len(t) \in Nat /\ t \in [1 .. Len(t) -> S]  BY <2>2, LenProperties
    <3> QED BY <3>1 DEF IsSeq
  <2>6. ASSUME NEW j \in 1 .. Len(u) PROVE t[j] = u[j]
    <3>1. t[j] = rest[j + 1]  BY <2>2, <2>3, <2>4
    <3>2. j + 1 \in 1 .. n - (k + 1) + 1 /\ k + 1 + (j + 1) - 1 = k + 2 + j - 1
      BY <1>1, <1>5, <2>3
    <3> QED BY <1>3, <2>3, <3>1, <3>2
  <2>7. t = u  BY <2>2, <2>3, <2>4, <2>5, <2>6, SeqAlike
  <2>8. (k + 1) + 1 = k + 2  OBVIOUS
  <2> QED BY <2>7, <2>8 DEF t, u
<1> DEFINE s == Kept(img, nums)[k]
           t == Kept(img, nums)[k + 1]
           a == nums[k + 1]
<1>8. t = IF a \in DOMAIN img THEN Append(s, a) ELSE s  BY <1>1, <1>5, KeptIs
<1>9. SectorsIn(img, s)  BY <1>1, <1>2, KeptSectors
<1>10. IsParts(WordsOf(img, s), FatEntries) /\ IsBlocks(words, WordsOf(img, s), FatEntries)
  BY <1>2, <1>9, WordsParts DEF AreWords
<1> HIDE DEF s, t
<1>11. FatEntries \in Nat /\ IsSeq(words)  BY <1>10, CfbOpenAssumption DEF IsBlocks
<1>12. CASE a \in DOMAIN img
  <2> DEFINE w == img[a].words
             p == WordsOf(img, s)
  <2>1. IsSeq(w) /\ Len(w) = FatEntries  BY <1>12, SectorWords
  <2>2. WordsOf(img, t) = Append(p, w)  BY <1>8, <1>9, <1>12, WordsGrow
  <2>3. IsSeq(p)  BY <1>10 DEF IsParts
  <2> HIDE DEF w, p
  <2>4. IsBlocks(words \o w, Append(p, w), FatEntries)
    BY <1>10, <1>11, <2>1, <2>3, BlocksGrow DEF p
  <2>5. AreWords(words \o w, img, t)  BY <2>2, <2>4 DEF AreWords
  <2> QED BY <1>1, <1>5, <1>6, <1>7, <1>12, <2>5 DEF FatAt, w, t
<1>13. CASE a \notin DOMAIN img
  <2>1. words \o << >> = words  BY <1>11, JoinedNothing
  <2>2. AreWords(words, img, t)  BY <1>8, <1>10, <1>13 DEF AreWords
  <2> QED BY <1>1, <1>5, <1>6, <1>7, <1>13, <2>1, <2>2 DEF FatAt, t
<1> QED BY <1>12, <1>13

\* ... and ends with the FAT that the reader has.
LEMMA FatEnds ==
  ASSUME NEW img, IsImage(img), NEW h, NEW words, FatAt(img, FatSectors(img, h), << >>, words)
  PROVE  IsTable(words, buildFAT(img, h))
<1> DEFINE nums == FatSectors(img, h)
           n == Len(nums)
           s == InFile(img, nums)
<1>1. IsSeq(nums) /\ n \in Nat  BY DEF FatAt, IsSeq
<1>2. PICK k \in 0 .. n : << >> = SubSeq(nums, k + 1, n) /\ AreWords(words, img, Kept(img, nums)[k])
  BY DEF FatAt
<1>3. buildFAT(img, h) = [i \in 0 .. Len(s) * FatEntries - 1 |->
                           img[s[i \div FatEntries + 1]].words[(i % FatEntries) + 1]]
  BY DEF buildFAT
<1> HIDE DEF nums
<1>4. k = n
  <2> DEFINE t == SubSeq(nums, k + 1, n)
  <2>1. Len(t) = n - (k + 1) + 1  BY <1>1, PartOf
  <2>2. t = << >>  BY <1>2, Zenon
  <2> HIDE DEF t, n
  <2>3. Len(t) = 0  BY <2>2
  <2> QED BY <1>1, <2>1, <2>3
<1>5. s = Kept(img, nums)[n]  BY InFileKept
<1>6. SectorsIn(img, s)  BY <1>1, <1>2, <1>4, <1>5, KeptSectors
<1>7. AreWords(words, img, s)  BY <1>2, <1>4, <1>5
<1> HIDE DEF s
<1> QED BY <1>3, <1>6, <1>7, WordsTable

-----------------------------------------------------------------------------
(***************************************************************************)
(* The loops over chains.                                                  *)
(***************************************************************************)

\* The successors of a chain of sectors and of a chain of mini sectors.
FatNext(img, fat)   == [s \in DOMAIN fat \cap DOMAIN img |-> fat[s]]
MiniNext(data, fat) == LET whole == {m \in DOMAIN fat : (m + 1) * MiniSize <= Len(data)}
                       IN  [m \in whole |-> fat[m]]

\* What a loop has when it has followed the chain over s: the next number.
ChainAt(succ, first, a, s) == IsTrail(succ, first, s) /\ a = Ahead(succ, first, s)

\* The marks of an end are not sectors.
LEMMA ImageNumbers ==
  ASSUME NEW img, IsImage(img)
  PROVE  DOMAIN img \in SUBSET Nat /\ EndOfChain \notin DOMAIN img /\ FreeSect \notin DOMAIN img
<1>1. DOMAIN img = 0 .. Cardinality(DOMAIN img) - 1 /\ Cardinality(DOMAIN img) \in Nat
  BY FS_CardinalityType DEF IsImage
<1> DEFINE c == Cardinality(DOMAIN img)
<1>2. c \in Nat /\ DOMAIN img = 0 .. c - 1  BY <1>1
<1> HIDE DEF c
<1> QED BY <1>2 DEF EndOfChain, FreeSect

\* The loop goes on where the FAT has a successor in the file, ...
LEMMA FatFollows ==
  ASSUME NEW img, IsImage(img), NEW words, NEW fat, IsTable(words, fat)
  PROVE  LET succ == FatNext(img, fat)
         IN  /\ IsFiniteSet(DOMAIN succ) /\ DOMAIN succ \subseteq DOMAIN img
             /\ \A a : a \in DOMAIN succ <=> a \in 0 .. Len(words) - 1 /\ a \in DOMAIN img
             /\ \A a \in DOMAIN succ : succ[a] = words[a + 1]
<1> DEFINE succ == FatNext(img, fat)
<1>1. DOMAIN fat = 0 .. Len(words) - 1 /\ \A n \in DOMAIN fat : fat[n] = words[n + 1]
  BY DEF IsTable
<1>2. DOMAIN succ = DOMAIN fat \cap DOMAIN img /\ \A a \in DOMAIN succ : succ[a] = fat[a]
  BY DEF FatNext
<1> HIDE DEF succ
<1>3. IsFiniteSet(DOMAIN succ)  BY <1>2, FS_Subset DEF IsImage
<1> QED BY <1>1, <1>2, <1>3 DEF succ

\* ... and in the mini stream where the mini FAT has one for a whole mini sector.
LEMMA MiniFollows ==
  ASSUME NEW data, NEW words, NEW fat, IsTable(words, fat)
  PROVE  LET succ == MiniNext(data, fat)
         IN  /\ IsFiniteSet(DOMAIN succ) /\ EndOfChain \notin DOMAIN succ
             /\ \A a : a \in DOMAIN succ <=>
                         a \in 0 .. Len(words) - 1 /\ (a + 1) * MiniSize <= Len(data)
             /\ \A a \in DOMAIN succ : succ[a] = words[a + 1]
<1> DEFINE succ == MiniNext(data, fat)
           n == Len(words)
<1>1. n \in Nat /\ DOMAIN fat = 0 .. n - 1 /\ \A m \in DOMAIN fat : fat[m] = words[m + 1]
  BY SeqDomain DEF IsTable
<1>2. /\ DOMAIN succ = {m \in DOMAIN fat : (m + 1) * MiniSize <= Len(data)}
      /\ \A a \in DOMAIN succ : succ[a] = fat[a]
  BY DEF MiniNext
<1> HIDE DEF succ, n
<1>3. IsFiniteSet(DOMAIN succ)
  <2>1. IsFiniteSet(0 .. n - 1)  BY <1>1, FS_Interval
  <2> QED BY <1>1, <1>2, <2>1, FS_Subset
<1>4. EndOfChain \notin DOMAIN succ  BY <1>1, <1>2 DEF EndOfChain
<1> QED BY <1>1, <1>2, <1>3, <1>4 DEF succ, n

\* A chain from nowhere.
LEMMA WalkedNothing ==
  ASSUME NEW succ, IsFiniteSet(DOMAIN succ), NEW a, a \notin DOMAIN succ
  PROVE  Walked(succ, a) = << >>
<1>1. IsTrail(succ, a, << >>) /\ Ahead(succ, a, << >>) = a  BY NoTrail
<1>2. ~GoesOnFrom(succ, a, << >>)  BY DEF GoesOnFrom
<1>3. << >> = Walked(succ, a)  BY <1>1, <1>2, TrailEnds
<1> QED BY <1>3

\* The empty chain has no data.
LEMMA NoData == ASSUME NEW img, NEW size \in Nat PROVE Truncated(Data(img, << >>), size) = << >>
<1> DEFINE value(k) == img[<< >>[k]].data
           p == [k \in DOMAIN << >> |-> value(k)]
<1>1. Data(img, << >>) = FlattenSeq(p)  BY DEF Data
<1>2. p = << >>
  <2> HIDE DEF value
  <2> QED OBVIOUS
<1>3. FlattenSeq(<< >>) = << >>  BY DEF FlattenSeq
<1>4. Data(img, << >>) = << >>  BY <1>1, <1>2, <1>3
<1>5. Truncated(<< >>, size) = << >>  BY DEF Truncated
<1> QED BY <1>4, <1>5

\* A loop begins, ...
LEMMA ChainBegins == ASSUME NEW succ, NEW first PROVE ChainAt(succ, first, first, << >>)
BY NoTrail DEF ChainAt

\* ... goes on ...
LEMMA ChainGoes ==
  ASSUME NEW succ, NEW first, NEW a, NEW s, ChainAt(succ, first, a, s),
         a \in DOMAIN succ, a \notin ToSet(s)
  PROVE  ChainAt(succ, first, succ[a], Append(s, a))
<1>1. IsTrail(succ, first, s) /\ a = Ahead(succ, first, s) /\ GoesOnFrom(succ, a, s)
  BY DEF ChainAt, GoesOnFrom
<1> QED BY <1>1, TrailGrows DEF ChainAt

\* ... and ends with what the reader has.
LEMMA ChainComplete ==
  ASSUME NEW succ, IsFiniteSet(DOMAIN succ), NEW first, NEW a, NEW s, ChainAt(succ, first, a, s),
         ~(a \in DOMAIN succ /\ a \notin ToSet(s))
  PROVE  s = Walked(succ, first)
<1>1. IsTrail(succ, first, s) /\ ~GoesOnFrom(succ, Ahead(succ, first, s), s)
  BY DEF ChainAt, GoesOnFrom
<1> QED BY <1>1, TrailEnds

-----------------------------------------------------------------------------
(***************************************************************************)
(* What Open makes of the chains.                                          *)
(***************************************************************************)

\* An array of entries as Open has them.
IsDirectory(E) == IsSeq(E) /\ IsArray(E) /\ \A i \in DOMAIN E : E[i].size \in Nat

EntriesOf(img, s) == [k \in DOMAIN s |-> img[s[k]].entries]

\* The sectors have as many entries each.
LEMMA EntriesParts ==
  ASSUME NEW img, IsImage(img), NEW s, SectorsIn(img, s)
  PROVE  /\ IsParts(EntriesOf(img, s), DirEntries)
         /\ \A k \in 1 .. Len(s) : EntriesOf(img, s)[k] = img[s[k]].entries
         /\ Len(EntriesOf(img, s)) = Len(s)
<1> DEFINE p == EntriesOf(img, s)
           value(k) == img[s[k]].entries
<1>1. Len(s) \in Nat /\ DOMAIN s = 1 .. Len(s)  BY SeqDomain DEF SectorsIn
<1>2. p = [k \in 1 .. Len(s) |-> value(k)]  BY <1>1 DEF EntriesOf
<1> HIDE DEF p, value
<1>3. Len(p) = Len(s) /\ \A k \in 1 .. Len(s) : p[k] = value(k)  BY <1>1, <1>2
<1>4. IsSeq(p)  BY <1>1, <1>2, <1>3 DEF IsSeq
<1>5. ASSUME NEW k \in 1 .. Len(s) PROVE IsSeq(value(k)) /\ Len(value(k)) = DirEntries
  <2>1. IsSector(img[s[k]])  BY DEF SectorsIn, IsImage
  <2>2. IsEntries(value(k))  BY <2>1 DEF IsSector, value
  <2> DEFINE e == value(k)
  <2>3. e = [i \in 1 .. DirEntries |-> e[i]]  BY <2>2 DEF IsEntries
  <2>4. DirEntries \in Nat  BY CfbOpenAssumption
  <2> HIDE DEF e
  <2>5. Len(e) = DirEntries  BY <2>3, <2>4
  <2>6. IsSeq(e)  BY <2>3, <2>4, <2>5 DEF IsSeq
  <2> QED BY <2>5, <2>6 DEF e
<1>6. IsParts(p, DirEntries)  BY <1>3, <1>4, <1>5 DEF IsParts
<1> QED BY <1>3, <1>6 DEF p, value

\* The entries of sectors that the file has are a directory.
LEMMA DirectoryIs ==
  ASSUME NEW img, IsImage(img), NEW s, SectorsIn(img, s)
  PROVE  IsDirectory(FlattenSeq(EntriesOf(img, s)))
<1> DEFINE n == DirEntries
           p == EntriesOf(img, s)
           E == FlattenSeq(p)
<1>1. n \in Nat  BY CfbOpenAssumption
<1>2. /\ IsParts(p, n) /\ Len(p) = Len(s)
      /\ \A k \in 1 .. Len(s) : p[k] = img[s[k]].entries
  BY EntriesParts
<1> HIDE DEF n, p
<1>3. IsBlocks(E, p, n)  BY <1>1, <1>2, FlatBlocks
<1> HIDE DEF E
<1>4. IsSeq(E) /\ Len(E) = Len(p) * n  BY <1>3 DEF IsBlocks
<1>5. Len(p) \in Nat /\ DOMAIN E = 1 .. Len(E) /\ Len(E) \in Nat
  BY <1>2, <1>4, SeqDomain DEF IsParts
<1>6. ASSUME NEW x \in DOMAIN E
      PROVE  E[x].left \in Int /\ E[x].right \in Int /\ E[x].child \in Int /\ E[x].size \in Nat
  <2>1. x \in 1 .. Len(p) * n  BY <1>4, <1>5
  <2>2. PICK k \in 1 .. Len(p), i \in 1 .. n : x = (k - 1) * n + i  BY <1>1, <1>5, <2>1, BlockOf
  <2>3. E[x] = p[k][i]  BY <1>3, <2>2 DEF IsBlocks
  <2>4. s[k] \in DOMAIN img /\ p[k] = img[s[k]].entries  BY <1>2 DEF SectorsIn
  <2>5. IsEntries(p[k])  BY <2>4 DEF IsImage, IsSector
  <2> DEFINE e == p[k][i]
  <2>6. {e.left, e.right, e.child} \subseteq Int /\ e.size \in Nat  BY <2>5 DEF IsEntries, n
  <2> HIDE DEF e
  <2>7. e.left \in Int /\ e.right \in Int /\ e.child \in Int /\ e.size \in Nat  BY <2>6
  <2> QED BY <2>3, <2>7 DEF e
<1>7. IsArray(E)  BY <1>5, <1>6 DEF IsArray
<1>8. IsDirectory(E)  BY <1>4, <1>6, <1>7 DEF IsDirectory
<1> QED BY <1>8 DEF E, p

\* The chain of the directory is its entries.
LEMMA DirectoryComputed ==
  ASSUME NEW img, IsImage(img), NEW h, NEW words, IsTable(words, buildFAT(img, h)),
         NEW s, s = Walked(FatNext(img, buildFAT(img, h)), h.firstDir)
  PROVE  /\ FlattenSeq([k \in DOMAIN s |-> img[s[k]].entries]) = Entries(img, h)
         /\ IsDirectory(Entries(img, h))
<1> DEFINE fat == buildFAT(img, h)
           succ == FatNext(img, fat)
<1>1. s = Chain(img, fat, h.firstDir)  BY DEF Chain, FatNext
<1>2. Entries(img, h) = FlattenSeq(EntriesOf(img, s))  BY <1>1 DEF Entries, EntriesOf
<1>3. SectorsIn(img, s)
  <2> HIDE DEF fat
  <2>1. IsFiniteSet(DOMAIN succ) /\ DOMAIN succ \subseteq DOMAIN img
    BY FatFollows DEF fat
  <2>2. s = Walked(succ, h.firstDir)  BY DEF fat
  <2> HIDE DEF succ
  <2>3. IsTrail(succ, h.firstDir, s)  BY <2>1, <2>2, WalkedTrail
  <2> QED BY <2>1, <2>3, TrailSectors
<1>4. IsDirectory(FlattenSeq(EntriesOf(img, s)))  BY <1>3, DirectoryIs
<1> QED BY <1>2, <1>4 DEF EntriesOf

\* The chain of the container, cut to the size of the root, is the mini stream.
LEMMA ContainerComputed ==
  ASSUME NEW img, IsImage(img), NEW h, NEW words, IsTable(words, buildFAT(img, h)),
         NEW root, root = Entries(img, h)[1], root.size \in Nat,
         NEW s, s = Walked(FatNext(img, buildFAT(img, h)),
                           IF root.size = 0 THEN EndOfChain ELSE root.start)
  PROVE  Truncated(Data(img, s), root.size) = MiniData(img, h)
<1> DEFINE fat == buildFAT(img, h)
           succ == FatNext(img, fat)
<1>1. MiniData(img, h) = IF root.start \in {EndOfChain, FreeSect} \/ root.size = 0 THEN << >>
                         ELSE Truncated(Data(img, Chain(img, fat, root.start)), root.size)
  BY DEF MiniData
<1>2. CASE root.start \in {EndOfChain, FreeSect} \/ root.size = 0
  <2> DEFINE first == IF root.size = 0 THEN EndOfChain ELSE root.start
  <2>1. IsFiniteSet(DOMAIN succ) /\ DOMAIN succ \subseteq DOMAIN img
    <3> HIDE DEF fat
    <3> QED BY FatFollows DEF fat
  <2>2. first \notin DOMAIN succ
    <3> HIDE DEF succ
    <3> QED BY <1>2, <2>1, ImageNumbers
  <2>3. s = Walked(succ, first)  OBVIOUS
  <2> HIDE DEF succ, first
  <2>4. s = << >>  BY <2>1, <2>2, <2>3, WalkedNothing
  <2> QED BY <1>1, <1>2, <2>4, NoData
<1>3. CASE ~(root.start \in {EndOfChain, FreeSect} \/ root.size = 0)
  <2>1. s = Chain(img, fat, root.start)  BY <1>3 DEF Chain, FatNext
  <2> QED BY <1>1, <1>3, <2>1
<1> QED BY <1>2, <1>3

\* The chain of the mini FAT is its table.
LEMMA MiniFatComputed ==
  ASSUME NEW img, IsImage(img), NEW h, NEW words, IsTable(words, buildFAT(img, h)),
         NEW s, s = Walked(FatNext(img, buildFAT(img, h)), h.firstMiniFat)
  PROVE  IsTable(FlattenSeq([k \in DOMAIN s |-> img[s[k]].words]), MiniFAT(img, h))
<1> DEFINE fat == buildFAT(img, h)
           succ == FatNext(img, fat)
           list == FlattenSeq(WordsOf(img, s))
<1>1. s = Chain(img, fat, h.firstMiniFat)  BY DEF Chain, FatNext
<1>2. SectorsIn(img, s)
  <2> HIDE DEF fat
  <2>1. IsFiniteSet(DOMAIN succ) /\ DOMAIN succ \subseteq DOMAIN img
    BY FatFollows DEF fat
  <2>2. s = Walked(succ, h.firstMiniFat)  BY DEF fat
  <2> HIDE DEF succ
  <2>3. IsTrail(succ, h.firstMiniFat, s)  BY <2>1, <2>2, WalkedTrail
  <2> QED BY <2>1, <2>3, TrailSectors
<1>3. MiniFAT(img, h) = [n \in 0 .. Len(s) * FatEntries - 1 |->
                          img[s[n \div FatEntries + 1]].words[(n % FatEntries) + 1]]
  BY <1>1 DEF MiniFAT
<1>4. AreWords(list, img, s)
  <2>1. IsParts(WordsOf(img, s), FatEntries) /\ FatEntries \in Nat
    BY <1>2, WordsParts, CfbOpenAssumption
  <2> QED BY <2>1, FlatBlocks DEF AreWords
<1> HIDE DEF list
<1>5. IsTable(list, MiniFAT(img, h))  BY <1>2, <1>3, <1>4, WordsTable
<1> QED BY <1>5 DEF list, WordsOf

MiniParts(data, s) ==
  FlattenSeq([k \in DOMAIN s |-> SubSeq(data, s[k] * MiniSize + 1, (s[k] + 1) * MiniSize)])

\* The chain of a stream, cut to its size, is its content.
LEMMA ContentComputed ==
  ASSUME NEW img, IsImage(img), NEW h, NEW words, IsTable(words, buildFAT(img, h)),
         NEW miniList, IsTable(miniList, MiniFAT(img, h)),
         NEW e, e.size \in Nat,
         NEW small \in BOOLEAN, small <=> e.size < h.miniCutoff /\ MiniData(img, h) # << >>,
         NEW s, s = Walked(IF small THEN MiniNext(MiniData(img, h), MiniFAT(img, h))
                           ELSE FatNext(img, buildFAT(img, h)),
                           IF e.size = 0 THEN EndOfChain ELSE e.start)
  PROVE  Truncated(IF small THEN MiniParts(MiniData(img, h), s) ELSE Data(img, s), e.size)
           = Content(img, h, e)
<1> DEFINE fat == buildFAT(img, h)
           data == MiniData(img, h)
           miniFAT == MiniFAT(img, h)
           large == FatNext(img, fat)
           mine == MiniNext(data, miniFAT)
<1>1. Content(img, h, e) =
        CASE e.size = 0 -> << >>
          [] e.size > 0 /\ small -> readMiniChain(data, miniFAT, e.start, e.size)
          [] OTHER -> IF e.start \in {EndOfChain, FreeSect} THEN << >>
                      ELSE Truncated(Data(img, Chain(img, fat, e.start)), e.size)
  BY DEF Content
<1>2. IsFiniteSet(DOMAIN large) /\ DOMAIN large \subseteq DOMAIN img
  <2> HIDE DEF fat
  <2> QED BY FatFollows DEF fat
<1>3. IsFiniteSet(DOMAIN mine) /\ EndOfChain \notin DOMAIN mine
  <2> HIDE DEF data, miniFAT
  <2> QED BY MiniFollows DEF miniFAT
<1>4. Truncated(MiniParts(data, << >>), e.size) = << >>
  <2> DEFINE value(k) == SubSeq(data, << >>[k] * MiniSize + 1, (<< >>[k] + 1) * MiniSize)
             p == [k \in DOMAIN << >> |-> value(k)]
  <2>1. MiniParts(data, << >>) = FlattenSeq(p)  BY DEF MiniParts
  <2>2. p = << >>
    <3> HIDE DEF value
    <3> QED OBVIOUS
  <2>3. FlattenSeq(<< >>) = << >>  BY DEF FlattenSeq
  <2>4. MiniParts(data, << >>) = << >>  BY <2>1, <2>2, <2>3
  <2>5. Truncated(<< >>, e.size) = << >>  BY DEF Truncated
  <2> QED BY <2>4, <2>5
<1>5. Truncated(Data(img, << >>), e.size) = << >>  BY NoData
<1>6. EndOfChain \notin DOMAIN large /\ FreeSect \notin DOMAIN large
  <2> HIDE DEF large
  <2> QED BY <1>2, ImageNumbers
<1>7. s = Walked(IF small THEN mine ELSE large, IF e.size = 0 THEN EndOfChain ELSE e.start)
  OBVIOUS
<1>8. CASE e.size = 0
  <2>1. s = << >>
    <3> HIDE DEF large, mine
    <3> QED BY <1>2, <1>3, <1>6, <1>7, <1>8, WalkedNothing
  <2>2. Content(img, h, e) = << >>  BY <1>1, <1>8
  <2> QED BY <1>4, <1>5, <2>1, <2>2
<1>9. CASE e.size # 0 /\ small
  <2>1. Content(img, h, e) = readMiniChain(data, miniFAT, e.start, e.size)
    BY <1>1, <1>9
  <2>2. readMiniChain(data, miniFAT, e.start, e.size) = Truncated(MiniParts(data, s), e.size)
    <3>1. s = Walked(mine, e.start)  BY <1>7, <1>9
    <3> HIDE DEF data, miniFAT
    <3> QED BY <3>1 DEF readMiniChain, MiniNext, MiniParts
  <2> QED BY <1>9, <2>1, <2>2
<1>10. CASE e.size # 0 /\ ~small
  <2>1. Content(img, h, e) = IF e.start \in {EndOfChain, FreeSect} THEN << >>
                             ELSE Truncated(Data(img, Chain(img, fat, e.start)), e.size)
    BY <1>1, <1>10
  <2>2. s = Walked(large, e.start)  BY <1>7, <1>10
  <2>3. CASE e.start \in {EndOfChain, FreeSect}
    <3>1. s = << >>
      <4> HIDE DEF large
      <4> QED BY <1>2, <1>6, <2>2, <2>3, WalkedNothing
    <3> QED BY <1>5, <1>10, <2>1, <2>3, <3>1
  <2>4. CASE e.start \notin {EndOfChain, FreeSect}
    <3>1. s = Chain(img, fat, e.start)  BY <2>2 DEF Chain, FatNext
    <3> QED BY <1>10, <2>1, <2>4, <3>1
  <2> QED BY <2>3, <2>4
<1> QED BY <1>8, <1>9, <1>10

-----------------------------------------------------------------------------
(***************************************************************************)
(* The invariant of the loops: what has been read is what the reader has,  *)
(* and what is being read is a beginning of it.                            *)
(***************************************************************************)

Fat        == buildFAT(Image, Header)
MiniFat    == MiniFAT(Image, Header)
Directory  == Entries(Image, Header)
MiniStream == MiniData(Image, Header)
FatList    == FatSectors(Image, Header)

AfterFat       == Chains \cup {"walk", "done"}
AfterDirectory == AfterFat \ {"directory"}
AfterContainer == AfterDirectory \ {"container"}
AfterMiniFat   == AfterContainer \ {"minifat"}

Read ==
  /\ phase \in AfterFat => IsTable(fatWords, Fat)
  /\ phase \in AfterDirectory => entries = Directory /\ IsDirectory(Directory) /\ entries # << >>
  /\ phase \in AfterContainer => miniData = MiniStream
  /\ phase \in AfterMiniFat => IsTable(miniWords, MiniFat)

\* The successors and the first number of the chain that is being read.
Followed == IF phase = "minicontent" THEN MiniNext(miniData, MiniFat) ELSE FatNext(Image, Fat)

FirstOf(e) == IF e.size = 0 THEN EndOfChain ELSE e.start

First == IF phase = "directory" THEN Header.firstDir
         ELSE IF phase = "container" THEN FirstOf(entries[1])
         ELSE IF phase = "minifat" THEN Header.firstMiniFat
         ELSE FirstOf(Me)

Reading ==
  /\ phase \in {"idle", "header"} => out = << >>
  /\ phase \in {"idle", "header", "difat"} => fatWords = << >>
  /\ phase = "difat" => DifatAt(Image, Header, fatList, at, out)
  /\ phase = "fat" => FatAt(Image, FatList, fatList, fatWords)
  /\ phase \in Chains => ChainAt(Followed, First, at, out)
  /\ phase = "content" => ~InMiniStream(Me)
  /\ phase = "minicontent" => InMiniStream(Me)

\* What depends on the file stays while the file does.
LEMMA SameFile ==
  ASSUME UNCHANGED file
  PROVE  /\ Image' = Image /\ Header' = Header
         /\ Fat' = Fat /\ MiniFat' = MiniFat /\ Directory' = Directory
         /\ MiniStream' = MiniStream /\ FatList' = FatList
<1>1. Image' = Image /\ Header' = Header  BY DEF Image, Header
<1>2. Fat' = Fat  BY <1>1 DEF Fat
<1>3. MiniFat' = MiniFat  BY <1>1 DEF MiniFat
<1>4. Directory' = Directory  BY <1>1 DEF Directory
<1>5. MiniStream' = MiniStream  BY <1>1 DEF MiniStream
<1>6. FatList' = FatList  BY <1>1 DEF FatList
<1> QED BY <1>1, <1>2, <1>3, <1>4, <1>5, <1>6

\* Past the header the file is one that parsing makes.
LEMMA FileRead ==
  ASSUME FileOK, phase \notin {"idle", "header", "error"}
  PROVE  IsImage(Image) /\ IsHeader(Header)
BY DEF FileOK, IsFile, IsImage, IsHeader, Image, Header

\* Nothing is read before the call, ...
LEMMA InitReading == ASSUME Idle PROVE Read /\ Reading
BY DEF Idle, Blank, Read, Reading, AfterFat, AfterDirectory, AfterContainer, AfterMiniFat, Chains

\* ... nor with the call.
LEMMA CallReading == ASSUME Read, Reading, Call PROVE Read' /\ Reading'
BY DEF Call, chain, fatSt, Read, Reading, AfterFat, AfterDirectory, AfterContainer,
       AfterMiniFat, Chains

\* The loop over the DIFAT begins with the header.
LEMMA HeaderReading == ASSUME FileOK, Read, Reading, ReadHeader PROVE Read' /\ Reading'
<1> USE DEF AfterFat, AfterDirectory, AfterContainer, AfterMiniFat, Chains
<1>1. /\ phase = "header" /\ file.valid /\ phase' = "difat" /\ file' = file
      /\ fatList' = Terminated(Header.difat) /\ at' = Header.firstDifat
      /\ out' = << >> /\ fatWords' = << >>
  BY DEF ReadHeader, Reading
<1>2. IsHeader(Header)  BY <1>1 DEF FileOK, IsFile, IsHeader, Header
<1>3. DifatAt(Image, Header, fatList', at', out')  BY <1>1, <1>2, DifatBegins
<1>4. Image' = Image /\ Header' = Header  BY <1>1, SameFile
<1>5. DifatAt(Image', Header', fatList', at', out')  BY <1>3, <1>4
<1> QED BY <1>1, <1>5 DEF Read, Reading

\* It collects what FatSectors lists.
LEMMA DifatReading ==
  ASSUME FileOK, Read, Reading, FollowDifat \/ EndDifat PROVE Read' /\ Reading'
<1> USE DEF AfterFat, AfterDirectory, AfterContainer, AfterMiniFat, Chains
<1>1. phase = "difat" /\ file' = file  BY DEF FollowDifat, EndDifat
<1>2. IsImage(Image) /\ IsHeader(Header)  BY <1>1, FileRead
<1>3. Image' = Image /\ Header' = Header /\ FatList' = FatList  BY <1>1, SameFile
<1>4. DifatAt(Image, Header, fatList, at, out) /\ fatWords = << >>  BY <1>1 DEF Reading
<1>5. CASE FollowDifat
  <2> DEFINE listed == Front(Image[at].words)
             taken == Terminated(listed)
  <2>1. /\ phase' = "difat" /\ fatWords' = fatWords
        /\ at \in DOMAIN Image /\ at \notin ToSet(out)
        /\ fatList' = fatList \o taken /\ out' = Append(out, at)
        /\ at' = IF taken = listed THEN Last(Image[at].words) ELSE EndOfChain
    BY <1>1, <1>5 DEF FollowDifat, DifatGoesOn
  <2> HIDE DEF taken
  <2>2. DifatAt(Image, Header, fatList', at', out')
    BY <1>2, <1>4, <2>1, DifatGoes DEF taken
  <2>3. DifatAt(Image', Header', fatList', at', out')  BY <1>3, <2>2
  <2> QED BY <1>4, <2>1, <2>3 DEF Read, Reading
<1>6. CASE EndDifat
  <2>1. /\ phase' = "fat" /\ fatWords' = fatWords /\ fatList' = fatList
        /\ ~(at \in DOMAIN Image /\ at \notin ToSet(out))
    BY <1>6 DEF EndDifat, DifatGoesOn, fatSt
  <2>2. fatList = FatList /\ IsSeq(fatList)
    BY <1>2, <1>4, <2>1, DifatEnds DEF FatList
  <2>3. FatAt(Image, FatList, fatList', fatWords')
    BY <1>4, <2>1, <2>2, FatBegins
  <2>4. FatAt(Image', FatList', fatList', fatWords')  BY <1>3, <2>3
  <2> QED BY <2>1, <2>4 DEF Read, Reading
<1> QED BY <1>5, <1>6

\* The loop over those sectors collects the FAT.
LEMMA FatReading ==
  ASSUME FileOK, Read, Reading, AppendFat \/ StartDirectory PROVE Read' /\ Reading'
<1> USE DEF AfterFat, AfterDirectory, AfterContainer, AfterMiniFat, Chains
<1>1. phase = "fat" /\ file' = file  BY DEF AppendFat, StartDirectory
<1>2. IsImage(Image) /\ IsHeader(Header)  BY <1>1, FileRead
<1>3. Image' = Image /\ Header' = Header /\ FatList' = FatList /\ Fat' = Fat  BY <1>1, SameFile
<1>4. FatAt(Image, FatList, fatList, fatWords)  BY <1>1 DEF Reading
<1>5. CASE AppendFat
  <2>1. /\ phase' = "fat" /\ fatList # << >> /\ fatList' = Tail(fatList)
        /\ fatWords' = fatWords \o (IF Head(fatList) \in DOMAIN Image
                                    THEN Image[Head(fatList)].words ELSE << >>)
    BY <1>1, <1>5 DEF AppendFat, FatSectorWords
  <2>2. FatAt(Image, FatList, fatList', fatWords')  BY <1>2, <1>4, <2>1, FatGoes
  <2>3. FatAt(Image', FatList', fatList', fatWords')  BY <1>3, <2>2
  <2> QED BY <2>1, <2>3 DEF Read, Reading
<1>6. CASE StartDirectory
  <2>1. /\ phase' = "directory" /\ fatList = << >> /\ fatWords' = fatWords
        /\ at' = Header.firstDir /\ out' = << >>
    BY <1>6 DEF StartDirectory, StartChain, fatSt
  <2>2. IsTable(fatWords, Fat)  BY <1>2, <1>4, <2>1, FatEnds DEF Fat, FatList
  <2>3. ChainAt(Followed', First', at', out')
    <3>1. First' = at'  BY <1>3, <2>1 DEF First
    <3> QED BY <2>1, <3>1, ChainBegins
  <2>4. IsTable(fatWords', Fat')  BY <1>3, <2>1, <2>2
  <2> QED BY <2>1, <2>3, <2>4 DEF Read, Reading
<1> QED BY <1>5, <1>6

\* What GoesOn asks of a number is that it has a successor.
LEMMA Following ==
  ASSUME FileOK, Read, phase \in Chains
  PROVE  /\ IsFiniteSet(DOMAIN Followed)
         /\ GoesOn <=> at \in DOMAIN Followed /\ at \notin ToSet(out)
         /\ GoesOn => Links[at + 1] = Followed[at]
<1> USE DEF AfterFat, AfterDirectory, AfterContainer, AfterMiniFat, Chains
<1>1. IsImage(Image)  BY FileRead
<1>2. IsTable(fatWords, Fat)  BY DEF Read
<1>3. CASE phase = "minicontent"
  <2> DEFINE succ == MiniNext(miniData, MiniFat)
  <2>1. IsTable(miniWords, MiniFat)  BY <1>3 DEF Read
  <2>2. /\ IsFiniteSet(DOMAIN succ)
        /\ \A a : a \in DOMAIN succ <=>
                    a \in 0 .. Len(miniWords) - 1 /\ (a + 1) * MiniSize <= Len(miniData)
        /\ \A a \in DOMAIN succ : succ[a] = miniWords[a + 1]
    BY <2>1, MiniFollows
  <2>3. Followed = succ /\ Links = miniWords  BY <1>3 DEF Followed, Links
  <2> HIDE DEF succ
  <2>4. GoesOn <=> at \in DOMAIN succ /\ at \notin ToSet(out)
    BY <1>3, <2>2, <2>3 DEF GoesOn, Present
  <2> QED BY <2>2, <2>3, <2>4
<1>4. CASE phase # "minicontent"
  <2> DEFINE succ == FatNext(Image, Fat)
  <2>2. /\ IsFiniteSet(DOMAIN succ)
        /\ \A a : a \in DOMAIN succ <=> a \in 0 .. Len(fatWords) - 1 /\ a \in DOMAIN Image
        /\ \A a \in DOMAIN succ : succ[a] = fatWords[a + 1]
    BY <1>1, <1>2, FatFollows
  <2>3. Followed = succ /\ Links = fatWords  BY <1>4 DEF Followed, Links
  <2> HIDE DEF succ
  <2>4. GoesOn <=> at \in DOMAIN succ /\ at \notin ToSet(out)
    BY <1>4, <2>2, <2>3 DEF GoesOn, Present
  <2> QED BY <2>2, <2>3, <2>4
<1> QED BY <1>3, <1>4

\* A chain that goes on is still the beginning of what Walked says.
LEMMA FollowReading == ASSUME FileOK, Read, Reading, FollowChain PROVE Read' /\ Reading'
<1> USE DEF AfterFat, AfterDirectory, AfterContainer, AfterMiniFat, Chains
<1>1. /\ phase \in Chains /\ GoesOn /\ phase' = phase /\ file' = file
      /\ out' = Append(out, at) /\ at' = Links[at + 1]
      /\ UNCHANGED << fatWords, fatList, entries, miniData, miniWords, stack >>
  BY DEF FollowChain, fatSt, mini
<1>2. ChainAt(Followed, First, at, out)  BY <1>1 DEF Reading
<1>3. at \in DOMAIN Followed /\ at \notin ToSet(out) /\ at' = Followed[at]  BY <1>1, Following
<1>4. ChainAt(Followed, First, at', out')  BY <1>1, <1>2, <1>3, ChainGoes
<1>5. /\ Image' = Image /\ Header' = Header /\ Fat' = Fat /\ MiniFat' = MiniFat
      /\ Directory' = Directory /\ MiniStream' = MiniStream
  BY <1>1, SameFile
<1>6. Me' = Me  BY <1>1 DEF Me, Top, Last
<1>7. Followed' = Followed /\ First' = First  BY <1>1, <1>5, <1>6 DEF Followed, First
<1>8. Read'  BY <1>1, <1>5 DEF Read
<1>9. InMiniStream(Me)' = InMiniStream(Me)  BY <1>1, <1>5, <1>6 DEF InMiniStream
<1>10. Reading'  BY <1>1, <1>4, <1>7, <1>9 DEF Reading
<1> QED BY <1>8, <1>10

\* A loop that has come to its end has what Walked says.
LEMMA ChainRead ==
  ASSUME FileOK, Read, Reading, phase \in Chains, ~GoesOn
  PROVE  out = Walked(Followed, First)
<1>1. ChainAt(Followed, First, at, out)  BY DEF Reading
<1>2. IsFiniteSet(DOMAIN Followed) /\ ~(at \in DOMAIN Followed /\ at \notin ToSet(out))
  BY Following
<1> QED BY <1>1, <1>2, ChainComplete

\* The directory array is the one of the file.
LEMMA DirectoryReading ==
  ASSUME FileOK, Read, Reading, ReadDirectory PROVE Read' /\ Reading'
<1> USE DEF AfterFat, AfterDirectory, AfterContainer, AfterMiniFat, Chains
<1>1. /\ phase = "directory" /\ ~GoesOn /\ phase' = "container" /\ file' = file
      /\ HasRoot(DirectoryRead) /\ entries' = DirectoryRead
      /\ out' = << >> /\ fatWords' = fatWords
      /\ at' = IF DirectoryRead[1].size = 0 THEN EndOfChain ELSE DirectoryRead[1].start
  BY DEF ReadDirectory, ChainEnds, StartChain, fatSt
<1>2. IsImage(Image) /\ IsTable(fatWords, Fat)  BY <1>1, FileRead DEF Read
<1>3. out = Walked(FatNext(Image, Fat), Header.firstDir)
  <2>1. out = Walked(Followed, First)  BY <1>1, ChainRead
  <2> QED BY <1>1, <2>1 DEF Followed, First
<1>4. DirectoryRead = Directory /\ IsDirectory(Directory)
  BY <1>2, <1>3, DirectoryComputed DEF DirectoryRead, Directory, Fat
<1>5. Directory' = Directory /\ Fat' = Fat  BY <1>1, SameFile
<1>6. entries' = Directory /\ entries' # << >>  BY <1>1, <1>4 DEF HasRoot
<1>7. at' = FirstOf(entries'[1])  BY <1>1 DEF FirstOf
<1>8. First' = at'  BY <1>1, <1>7 DEF First
<1>9. ChainAt(Followed', First', at', out')  BY <1>1, <1>8, ChainBegins
<1>10. IsTable(fatWords', Fat')  BY <1>1, <1>2, <1>5
<1> QED BY <1>1, <1>4, <1>5, <1>6, <1>9, <1>10 DEF Read, Reading

\* The mini stream is the one of the file.
LEMMA ContainerReading ==
  ASSUME FileOK, Read, Reading, ReadContainer PROVE Read' /\ Reading'
<1> USE DEF AfterFat, AfterDirectory, AfterContainer, AfterMiniFat, Chains
<1>1. /\ phase = "container" /\ ~GoesOn /\ phase' = "minifat" /\ file' = file
      /\ miniData' = Truncated(Data(Image, out), entries[1].size)
      /\ out' = << >> /\ fatWords' = fatWords /\ entries' = entries
      /\ at' = Header.firstMiniFat
  BY DEF ReadContainer, ChainEnds, StartChain, fatSt
<1>2. /\ IsImage(Image) /\ IsTable(fatWords, Fat)
      /\ entries = Directory /\ IsDirectory(Directory) /\ entries # << >>
  BY <1>1, FileRead DEF Read
<1>3. out = Walked(FatNext(Image, Fat), FirstOf(entries[1]))
  <2>1. out = Walked(Followed, First)  BY <1>1, ChainRead
  <2> QED BY <1>1, <2>1 DEF Followed, First
<1>4. entries[1].size \in Nat
  <2>1. IsSeq(entries) /\ \A i \in DOMAIN entries : entries[i].size \in Nat
    BY <1>2 DEF IsDirectory
  <2>2. 1 \in DOMAIN entries
    <3>1. DOMAIN entries = 1 .. Len(entries) /\ Len(entries) \in Nat  BY <2>1, SeqDomain
    <3>2. Len(entries) # 0  BY <1>2, <2>1, EmptyChain, SeqAlike
    <3> QED BY <3>1, <3>2
  <2> QED BY <2>1, <2>2
<1>5. miniData' = MiniStream
  BY <1>1, <1>2, <1>3, <1>4, ContainerComputed DEF FirstOf, Fat, Directory, MiniStream
<1>6. /\ Directory' = Directory /\ Fat' = Fat /\ MiniStream' = MiniStream /\ Header' = Header
  BY <1>1, SameFile
<1>7. First' = at'  BY <1>1, <1>6 DEF First
<1>8. ChainAt(Followed', First', at', out')  BY <1>1, <1>7, ChainBegins
<1> QED BY <1>1, <1>2, <1>5, <1>6, <1>8 DEF Read, Reading

\* The mini FAT is the one of the file.
LEMMA MiniFatReading ==
  ASSUME FileOK, Read, Reading, ReadMiniFat PROVE Read' /\ Reading'
<1> USE DEF AfterFat, AfterDirectory, AfterContainer, AfterMiniFat, Chains
<1>1. /\ phase = "minifat" /\ ~GoesOn /\ phase' = "walk" /\ file' = file
      /\ miniWords' = FlattenSeq([k \in DOMAIN out |-> Image[out[k]].words])
      /\ fatWords' = fatWords /\ entries' = entries /\ miniData' = miniData
  BY DEF ReadMiniFat, ChainEnds, fatSt
<1>2. /\ IsImage(Image) /\ IsTable(fatWords, Fat)
      /\ entries = Directory /\ IsDirectory(Directory) /\ entries # << >> /\ miniData = MiniStream
  BY <1>1, FileRead DEF Read
<1>3. out = Walked(FatNext(Image, Fat), Header.firstMiniFat)
  <2>1. out = Walked(Followed, First)  BY <1>1, ChainRead
  <2> QED BY <1>1, <2>1 DEF Followed, First
<1>4. IsTable(miniWords', MiniFat)
  BY <1>1, <1>2, <1>3, MiniFatComputed DEF Fat, MiniFat
<1>5. /\ Directory' = Directory /\ Fat' = Fat /\ MiniStream' = MiniStream /\ MiniFat' = MiniFat
  BY <1>1, SameFile
<1> QED BY <1>1, <1>2, <1>4, <1>5 DEF Read, Reading

\* In the walk, no chain is read, and what was read stays.
LEMMA WalkReading ==
  ASSUME Read, Reading, phase \in AfterMiniFat, phase' \in {"walk", "done"},
         UNCHANGED << file, fatWords, entries, miniData, miniWords >>
  PROVE  Read' /\ Reading'
<1> USE DEF AfterFat, AfterDirectory, AfterContainer, AfterMiniFat, Chains
<1>1. /\ Directory' = Directory /\ Fat' = Fat /\ MiniStream' = MiniStream /\ MiniFat' = MiniFat
  BY SameFile
<1> QED BY <1>1 DEF Read, Reading

\* The chain of a stream begins, in the FAT or in the mini FAT.
LEMMA StartReading ==
  ASSUME FileOK, Read, Reading, StartContent PROVE Read' /\ Reading'
<1> USE DEF AfterFat, AfterDirectory, AfterContainer, AfterMiniFat, Chains
<1>1. /\ phase = "walk" /\ file' = file
      /\ phase' = IF InMiniStream(Me) THEN "minicontent" ELSE "content"
      /\ at' = IF Me.size = 0 THEN EndOfChain ELSE Me.start
      /\ out' = << >>
      /\ UNCHANGED << fatWords, entries, miniData, miniWords, stack >>
  BY DEF StartContent, StartChain, At, fatSt, mini
<1>2. /\ Image' = Image /\ Header' = Header /\ Fat' = Fat /\ MiniFat' = MiniFat
      /\ Directory' = Directory /\ MiniStream' = MiniStream
  BY <1>1, SameFile
<1>3. Me' = Me  BY <1>1 DEF Me, Top, Last
<1>4. at' = FirstOf(Me) /\ First' = at'  BY <1>1, <1>3 DEF First, FirstOf
<1>5. ChainAt(Followed', First', at', out')  BY <1>1, <1>4, ChainBegins
<1>6. InMiniStream(Me)' = InMiniStream(Me)  BY <1>1, <1>2, <1>3 DEF InMiniStream
<1>7. Read'  BY <1>1, <1>2 DEF Read
<1>8. Reading'  BY <1>1, <1>5, <1>6 DEF Reading
<1> QED BY <1>7, <1>8

-----------------------------------------------------------------------------
(***************************************************************************)
(* What the open calls of walkDir still have to do.                        *)
(***************************************************************************)

\* What a call does with its own entry, and what it returns from where it is.
Own(E, f, acc) ==
  LET e    == E[f.idx + 1]
      path == Append(f.prefix, e.name)
  IN  IF e.type = "stream" THEN [acc EXCEPT !.order = Append(@, path)]
      ELSE IF e.type = "storage" THEN WalkTo(walkDir(E), e.child, path, acc)
      ELSE acc

Finished(E, f, acc) ==
  IF f.stage = "left" THEN WalkTo(walkDir(E), f.idx, f.prefix, acc)
  ELSE WalkTo(walkDir(E), E[f.idx + 1].right, f.prefix,
              IF f.stage = "self" THEN Own(E, f, acc) ELSE acc)

IsOpen(E, f) == /\ f.idx \in Int /\ f.prefix \in PathPrefixes(E)
                /\ f.stage # "left" => IsEntry(E, f.idx)

\* Of what was collected so far the open calls, the last one first, make all
\* that the walk returns.
IsLeading(E, frames, acc, res) ==
  /\ res[Len(frames)] = acc /\ res[0] = Walk(E)
  /\ \A k \in 0 .. Len(frames) : res[k] \in Walks(E)
  /\ \A k \in 1 .. Len(frames) : IsOpen(E, frames[k]) /\ res[k - 1] = Finished(E, frames[k], res[k])

LeadsTo(E, frames, acc) == \E res : IsLeading(E, frames, acc, res)

\* The last call returns.
LEMMA PopLeads ==
  ASSUME NEW E, NEW frames, IsSeq(frames), frames # << >>, NEW acc, LeadsTo(E, frames, acc)
  PROVE  /\ LeadsTo(E, Front(frames), Finished(E, Last(frames), acc))
         /\ IsOpen(E, Last(frames)) /\ acc \in Walks(E)
<1> DEFINE n == Len(frames)
           s == Front(frames)
<1>1. PICK res : IsLeading(E, frames, acc, res)
  BY DEF LeadsTo
<1>2. /\ n \in Nat \ {0} /\ Len(s) = n - 1 /\ \A k \in 1 .. n - 1 : s[k] = frames[k]
  BY Fronted
<1>3. Last(frames) = frames[n]
  BY DEF Last
<1>4. /\ res[n] = acc /\ res[0] = Walk(E) /\ \A k \in 0 .. n : res[k] \in Walks(E)
      /\ \A k \in 1 .. n : IsOpen(E, frames[k]) /\ res[k - 1] = Finished(E, frames[k], res[k])
  BY <1>1 DEF IsLeading
<1> HIDE DEF n, s
<1>5. n \in 1 .. n /\ n \in 0 .. n
  BY <1>2
<1>6. IsOpen(E, frames[n]) /\ res[n - 1] = Finished(E, frames[n], acc) /\ acc \in Walks(E)
  BY <1>4, <1>5
<1>7. /\ \A k \in 0 .. Len(s) : res[k] \in Walks(E)
      /\ \A k \in 1 .. Len(s) : IsOpen(E, s[k]) /\ res[k - 1] = Finished(E, s[k], res[k])
  <2>1. \A k \in 0 .. n - 1 : k \in 0 .. n
    BY <1>2
  <2>2. \A k \in 1 .. n - 1 : k \in 1 .. n
    BY <1>2
  <2> QED
    BY <1>2, <1>4, <2>1, <2>2
<1>8. IsLeading(E, s, Finished(E, frames[n], acc), res)
  BY <1>2, <1>4, <1>6, <1>7 DEF IsLeading
<1> QED
  BY <1>3, <1>6, <1>8 DEF LeadsTo, s

\* A call begins that returns what the calls below were to go on from.
LEMMA PushLeads ==
  ASSUME NEW E, NEW frames, IsSeq(frames), NEW f, IsOpen(E, f), NEW acc \in Walks(E),
         LeadsTo(E, frames, Finished(E, f, acc))
  PROVE  LeadsTo(E, Append(frames, f), acc)
<1> DEFINE n == Len(frames)
           t == Append(frames, f)
<1>1. PICK res : IsLeading(E, frames, Finished(E, f, acc), res)
  BY DEF LeadsTo
<1>2. n \in Nat /\ Len(t) = n + 1 /\ t[n + 1] = f /\ \A k \in 1 .. n : t[k] = frames[k]
  BY Appended DEF IsSeq
<1>3. /\ res[n] = Finished(E, f, acc) /\ res[0] = Walk(E) /\ \A k \in 0 .. n : res[k] \in Walks(E)
      /\ \A k \in 1 .. n : IsOpen(E, frames[k]) /\ res[k - 1] = Finished(E, frames[k], res[k])
  BY <1>1 DEF IsLeading
<1> HIDE DEF n, t
<1> DEFINE more == [k \in 0 .. n + 1 |-> IF k = n + 1 THEN acc ELSE res[k]]
<1>4. /\ more[n + 1] = acc /\ more[0] = res[0] /\ more[n] = res[n]
      /\ \A k \in 0 .. n : more[k] = res[k]
  BY <1>2
<1> HIDE DEF more
<1>5. ASSUME NEW k \in 0 .. n + 1
      PROVE  more[k] \in Walks(E)
  <2>1. k = n + 1 \/ k \in 0 .. n
    BY <1>2
  <2> QED
    BY <1>3, <1>4, <2>1
<1>6. ASSUME NEW k \in 1 .. n + 1
      PROVE  IsOpen(E, t[k]) /\ more[k - 1] = Finished(E, t[k], more[k])
  <2>1. CASE k = n + 1
    <3>1. k - 1 = n
      BY <1>2, <2>1
    <3> QED
      BY <1>2, <1>3, <1>4, <2>1, <3>1
  <2>2. CASE k \in 1 .. n
    <3>1. k - 1 \in 0 .. n /\ k \in 0 .. n
      BY <1>2, <2>2
    <3> QED
      BY <1>2, <1>3, <1>4, <2>2, <3>1
  <2> QED
    BY <1>2, <2>1, <2>2
<1>7. IsLeading(E, t, acc, more)
  BY <1>2, <1>3, <1>4, <1>5, <1>6 DEF IsLeading
<1> QED
  BY <1>7 DEF LeadsTo, t

-----------------------------------------------------------------------------
(***************************************************************************)
(* The invariant of the walk: what was collected leads to what walkDir     *)
(* returns.                                                                *)
(***************************************************************************)

PathsOf(list) == [i \in DOMAIN list |-> list[i].path]

Collected == [seen |-> visited, order |-> PathsOf(order)]

Walking == /\ phase \in AfterMiniFat => LeadsTo(entries, stack, Collected)
           /\ phase = "done" => stack = << >>

\* Of the streams with one path the last one was stored.
Stored ==
  phase \in AfterMiniFat =>
    \A i \in DOMAIN order :
      /\ order[i].path \in DOMAIN streams
      /\ (\A j \in i + 1 .. Len(order) : order[j].path # order[i].path) =>
           streams[order[i].path] = Content(Image, Header, entries[order[i].idx + 1])

\* The fields of an entry that a link leads to.
LEMMA EntryIs ==
  ASSUME NEW E, IsArray(E), NEW idx, IsEntry(E, idx)
  PROVE  /\ E[idx + 1].left \in Int /\ E[idx + 1].right \in Int /\ E[idx + 1].child \in Int
         /\ E[idx + 1].name \in EntryNames(E) /\ idx \in Int /\ idx + 1 \in DOMAIN E
<1>1. idx + 1 \in DOMAIN E /\ idx \in Int
  BY DEF IsEntry, Indexes, IsArray
<1> QED
  BY <1>1 DEF IsArray, EntryNames

\* The indexes of a sequence of entries.
LEMMA IndexesAre ==
  ASSUME NEW E, IsSeq(E), NEW idx
  PROVE  IsEntry(E, idx) <=> idx \in 0 .. Len(E) - 1
<1>1. DOMAIN E = 1 .. Len(E) /\ Len(E) \in Nat
  BY SeqDomain
<1>2. IsEntry(E, idx) => idx \in 0 .. Len(E) - 1
  BY <1>1 DEF IsEntry, Indexes
<1>3. ASSUME idx \in 0 .. Len(E) - 1
      PROVE  IsEntry(E, idx)
  <2>1. idx + 1 \in DOMAIN E /\ idx = (idx + 1) - 1
    BY <1>1, <1>3
  <2> QED
    BY <2>1 DEF IsEntry, Indexes
<1> QED
  BY <1>2, <1>3

\* The first call leads to what the walk returns.
LEMMA WalkStarts ==
  ASSUME NEW E, IsDirectory(E), E # << >>
  PROVE  LeadsTo(E, << Frame(E[1].child, << >>) >>, [seen |-> {}, order |-> << >>])
<1> DEFINE acc == [seen |-> {}, order |-> << >>]
           f == Frame(E[1].child, << >>)
           res == [k \in 0 .. 0 |-> Walk(E)]
<1>1. IsSeq(E) /\ IsArray(E)
  BY DEF IsDirectory
<1>2. 1 \in DOMAIN E
  <2>1. DOMAIN E = 1 .. Len(E) /\ Len(E) \in Nat
    BY <1>1, SeqDomain
  <2>2. Len(E) # 0
    BY <1>1, <2>1, EmptyChain, SeqAlike
  <2> QED
    BY <2>1, <2>2
<1>3. f.idx = E[1].child /\ f.prefix = << >> /\ f.stage = "left"
  BY DEF Frame
<1>4. acc \in Walks(E)
  <2>1. << >> \in Seq(PathPrefixes(E))
    OBVIOUS
  <2> QED
    BY <2>1, WalksAre
<1>5. IsOpen(E, f) /\ IsCall(E, E[1].child, << >>, acc)
  <2>1. << >> \in PathPrefixes(E)
    BY DEF PathPrefixes
  <2> HIDE DEF f, acc
  <2> QED
    BY <1>1, <1>2, <1>3, <1>4, <2>1 DEF IsOpen, IsCall, IsArray
<1>6. Finished(E, f, acc) = WalkTo(walkDir(E), E[1].child, << >>, acc)
  <2> HIDE DEF f, acc
  <2> QED
    BY <1>3 DEF Finished
<1>7. Walk(E) = WalkTo(walkDir(E), E[1].child, << >>, acc)
  BY DEF Walk, WalkTo
<1>8. Walk(E) \in Walks(E)
  <2> HIDE DEF acc
  <2> QED
    BY <1>1, <1>5, <1>7, WalkSound
<1>9. LeadsTo(E, << >>, Walk(E))
  <2>1. res[0] = Walk(E) /\ Len(<< >>) = 0
    OBVIOUS
  <2> HIDE DEF res
  <2>2. IsLeading(E, << >>, Walk(E), res)
    BY <1>8, <2>1 DEF IsLeading
  <2> QED
    BY <2>2 DEF LeadsTo
<1>10. LeadsTo(E, Append(<< >>, f), acc)
  <2> HIDE DEF f, acc
  <2> QED
    BY <1>4, <1>5, <1>6, <1>7, <1>9, EmptyChain, PushLeads
<1>11. Append(<< >>, f) = << f >>
  <2> HIDE DEF f
  <2> QED
    OBVIOUS
<1> QED
  BY <1>10, <1>11

\* The top of the stack, and what the calls below go on from.
LEMMA TopLeads ==
  ASSUME IInv, Read, Walking, phase \in AfterMiniFat, stack # << >>
  PROVE  /\ IsDirectory(entries) /\ IsArray(entries) /\ IsSeq(entries)
         /\ LeadsTo(entries, Front(stack), Finished(entries, Top, Collected))
         /\ IsOpen(entries, Top) /\ Collected \in Walks(entries)
         /\ IsSeq(Front(stack)) /\ IsFrame(Top)
         /\ Top.stage # "left" => IsEntry(entries, Top.idx)
<1>1. IsDirectory(entries)
  BY DEF Read, AfterMiniFat, AfterContainer, AfterDirectory, AfterFat
<1>2. IsSeq(stack)
  BY DEF IInv, Shapes
<1>3. LeadsTo(entries, stack, Collected)
  BY DEF Walking
<1>4. /\ LeadsTo(entries, Front(stack), Finished(entries, Top, Collected))
      /\ IsOpen(entries, Top) /\ Collected \in Walks(entries)
  BY <1>2, <1>3, PopLeads DEF Top
<1>5. IsSeq(Front(stack))
  BY <1>2, Fronted
<1>6. IsFrame(Top)
  BY TopFrame DEF IInv
<1> QED
  BY <1>1, <1>4, <1>5, <1>6 DEF IsDirectory, IsOpen

\* The top of the stack moved to a stage.
LEMMA TopMoved ==
  ASSUME NEW f, IsFrame(f), NEW stage, NEW g, g = [f EXCEPT !.stage = stage]
  PROVE  g.idx = f.idx /\ g.prefix = f.prefix /\ g.stage = stage
BY DEF IsFrame

\* An entry that was visited is no longer visited first.
LEMMA VisitWalking ==
  ASSUME IInv, Read, Walking, Visit PROVE Walking'
<1> DEFINE E == entries
           acc == Collected
           f == [Top EXCEPT !.stage = "self"]
           g == Frame(Me.left, Top.prefix)
           more == Seeing(acc, Top.idx)
           w == walkDir(E)
           next == WalkTo(w, Me.left, Top.prefix, more)
<1>1. /\ phase = "walk" /\ phase' = "walk" /\ stack # << >> /\ Top.stage = "left"
      /\ Top.idx \in 0 .. Len(E) - 1 /\ Top.idx \notin visited
      /\ visited' = visited \cup {Top.idx} /\ order' = order /\ entries' = E
      /\ stack' = Append(Append(Front(stack), f), g)
  BY DEF Visit, At, Visitable, MovedTo, found
<1>2. /\ IsArray(E) /\ IsSeq(E) /\ LeadsTo(E, Front(stack), Finished(E, Top, acc))
      /\ IsOpen(E, Top) /\ acc \in Walks(E) /\ IsSeq(Front(stack)) /\ IsFrame(Top)
  BY <1>1, TopLeads DEF AfterMiniFat, AfterContainer, AfterDirectory, AfterFat
<1>3. IsEntry(E, Top.idx)
  BY <1>1, <1>2, IndexesAre
<1>4. /\ Me.left \in Int /\ Me = E[Top.idx + 1] /\ Top.idx \in Int
  BY <1>2, <1>3, EntryIs DEF Me
<1>5. f.idx = Top.idx /\ f.prefix = Top.prefix /\ f.stage = "self"
  BY <1>2, TopMoved
<1>6. g.idx = Me.left /\ g.prefix = Top.prefix /\ g.stage = "left"
  BY DEF Frame
<1>7. acc.seen = visited
  BY DEF Collected
<1>8. more = [seen |-> acc.seen \cup {Top.idx}, order |-> acc.order]
  BY <1>2, SeeingIs DEF Walks
<1>9. more = Collected'
  BY <1>1, <1>8 DEF Collected
<1> HIDE DEF f, g, acc, E
<1>10. more \in Walks(E)
  <2>1. /\ acc.seen \subseteq Indexes(E) /\ acc.order \in Seq(PathPrefixes(E))
    BY <1>2, WalksAre
  <2>2. /\ more.seen \subseteq Indexes(E) /\ more.order \in Seq(PathPrefixes(E))
        /\ more = [seen |-> more.seen, order |-> more.order]
    BY <1>3, <1>8, <2>1 DEF IsEntry
  <2> QED
    BY <2>2, WalksAre
<1> HIDE DEF more, w
<1>11. IsOpen(E, f) /\ IsOpen(E, g)
  BY <1>2, <1>3, <1>4, <1>5, <1>6 DEF IsOpen
<1>12. next \in Walks(E)
  <2>1. IsCall(E, Me.left, Top.prefix, more)
    BY <1>2, <1>4, <1>10 DEF IsCall, IsOpen
  <2> QED
    BY <1>2, <2>1, WalkSound DEF w
<1>13. Finished(E, g, more) = next
  BY <1>6 DEF Finished, w
<1>14. Finished(E, f, next) = Finished(E, Top, acc)
  <2>1. Finished(E, Top, acc) = WalkTo(w, Top.idx, Top.prefix, acc)
    BY <1>1 DEF Finished, w
  <2>2. IsCall(E, Top.idx, Top.prefix, acc)
    BY <1>2, <1>4 DEF IsCall, IsOpen
  <2>3. WalkTo(w, Top.idx, Top.prefix, acc) = VisitAt(E, w, Top.idx, Top.prefix, acc)
    BY <1>2, <2>2, WalkVisits DEF w
  <2>4. VisitAt(E, w, Top.idx, Top.prefix, acc)
        = WalkTo(w, E[Top.idx + 1].right, Top.prefix, Self(E, w, Top.idx, Top.prefix, acc))
    BY <1>1, <1>3, <1>7 DEF VisitAt
  <2>5. Left(E, w, Top.idx, Top.prefix, acc) = next
    BY <1>4 DEF Left, more
  <2>6. Self(E, w, Top.idx, Top.prefix, acc) = Own(E, f, next)
    BY <1>5, <2>5 DEF Self, Own, w
  <2>7. Finished(E, f, next) = WalkTo(w, E[Top.idx + 1].right, Top.prefix, Own(E, f, next))
    BY <1>5 DEF Finished, w
  <2> QED
    BY <2>1, <2>3, <2>4, <2>6, <2>7
<1> HIDE DEF next
<1>15. LeadsTo(E, Append(Front(stack), f), next)
  BY <1>2, <1>11, <1>12, <1>14, PushLeads
<1>16. IsSeq(Append(Front(stack), f))
  BY <1>2, Appended
<1>17. LeadsTo(E, Append(Append(Front(stack), f), g), more)
  BY <1>10, <1>11, <1>13, <1>15, <1>16, PushLeads
<1> QED
  BY <1>1, <1>9, <1>17 DEF Walking, E

\* A call that finds nothing to visit returns what it was given.
LEMMA ReturnWalking ==
  ASSUME IInv, Read, Walking, Return PROVE Walking'
<1> DEFINE E == entries
           acc == Collected
<1>1. /\ phase = "walk" /\ phase' = "walk" /\ stack # << >> /\ Top.stage = "left"
      /\ ~(Top.idx \in 0 .. Len(E) - 1 /\ Top.idx \notin visited)
      /\ visited' = visited /\ order' = order /\ entries' = E
      /\ stack' = Front(stack)
  BY DEF Return, At, Visitable, found
<1>2. /\ IsArray(E) /\ IsSeq(E) /\ LeadsTo(E, Front(stack), Finished(E, Top, acc))
      /\ IsOpen(E, Top) /\ acc \in Walks(E)
  BY <1>1, TopLeads DEF AfterMiniFat, AfterContainer, AfterDirectory, AfterFat
<1>3. ~IsEntry(E, Top.idx) \/ Top.idx \in acc.seen
  BY <1>1, <1>2, IndexesAre DEF Collected
<1>4. acc = Collected'
  BY <1>1 DEF Collected
<1> HIDE DEF acc, E
<1>5. Finished(E, Top, acc) = acc
  <2>1. Finished(E, Top, acc) = WalkTo(walkDir(E), Top.idx, Top.prefix, acc)
    BY <1>1 DEF Finished
  <2>2. IsCall(E, Top.idx, Top.prefix, acc)
    BY <1>2 DEF IsCall, IsOpen
  <2>3. WalkTo(walkDir(E), Top.idx, Top.prefix, acc) = VisitAt(E, walkDir(E), Top.idx, Top.prefix, acc)
    BY <1>2, <2>2, WalkVisits
  <2> QED
    BY <1>3, <2>1, <2>3 DEF VisitAt
<1> QED
  BY <1>1, <1>2, <1>4, <1>5 DEF Walking, E

\* A storage is walked from its child, then the call goes on to the right.
LEMMA EnterWalking ==
  ASSUME IInv, Read, Walking, EnterStorage PROVE Walking'
<1> DEFINE E == entries
           acc == Collected
           f == [Top EXCEPT !.stage = "right"]
           path == Append(Top.prefix, Me.name)
           g == Frame(Me.child, path)
           next == WalkTo(walkDir(E), Me.child, path, acc)
<1>1. /\ phase = "walk" /\ phase' = "walk" /\ stack # << >> /\ Top.stage = "self"
      /\ Me.type = "storage"
      /\ visited' = visited /\ order' = order /\ entries' = E
      /\ stack' = Append(Append(Front(stack), f), g)
  BY DEF EnterStorage, At, MovedTo, found
<1>2. /\ IsArray(E) /\ LeadsTo(E, Front(stack), Finished(E, Top, acc))
      /\ IsOpen(E, Top) /\ acc \in Walks(E) /\ IsSeq(Front(stack)) /\ IsFrame(Top)
      /\ IsEntry(E, Top.idx)
  BY <1>1, TopLeads DEF AfterMiniFat, AfterContainer, AfterDirectory, AfterFat
<1>3. Me.child \in Int /\ Me.name \in EntryNames(E) /\ Me = E[Top.idx + 1] /\ Top.idx \in Int
  BY <1>2, EntryIs DEF Me
<1>4. path \in PathPrefixes(E)
  BY <1>2, <1>3 DEF IsOpen, PathPrefixes
<1>5. f.idx = Top.idx /\ f.prefix = Top.prefix /\ f.stage = "right"
  BY <1>2, TopMoved
<1>6. g.idx = Me.child /\ g.prefix = path /\ g.stage = "left"
  BY DEF Frame
<1>7. acc = Collected'
  BY <1>1 DEF Collected
<1> HIDE DEF f, g, acc, E
<1>8. Own(E, Top, acc) = next
  BY <1>1, <1>3 DEF Own
<1> HIDE DEF path
<1>9. IsOpen(E, f) /\ IsOpen(E, g)
  BY <1>2, <1>3, <1>4, <1>5, <1>6 DEF IsOpen
<1>10. next \in Walks(E)
  <2>1. IsCall(E, Me.child, path, acc)
    BY <1>2, <1>3, <1>4 DEF IsCall
  <2> QED
    BY <1>2, <2>1, WalkSound
<1>11. Finished(E, g, acc) = next
  BY <1>6 DEF Finished
<1> HIDE DEF next
<1>12. Finished(E, f, next) = Finished(E, Top, acc)
  <2>1. Finished(E, Top, acc) = WalkTo(walkDir(E), E[Top.idx + 1].right, Top.prefix, next)
    BY <1>1, <1>8 DEF Finished
  <2>2. Finished(E, f, next) = WalkTo(walkDir(E), E[Top.idx + 1].right, Top.prefix, next)
    BY <1>5 DEF Finished
  <2> QED
    BY <2>1, <2>2
<1>13. LeadsTo(E, Append(Front(stack), f), next)
  BY <1>2, <1>9, <1>10, <1>12, PushLeads
<1>14. IsSeq(Append(Front(stack), f))
  BY <1>2, Appended
<1>15. LeadsTo(E, Append(Append(Front(stack), f), g), acc)
  BY <1>2, <1>9, <1>11, <1>13, <1>14, PushLeads
<1> QED
  BY <1>1, <1>7, <1>15 DEF Walking, E

\* Another frame in the place of the top, that goes on to the same.
LEMMA BesideWalking ==
  ASSUME IInv, Read, Walking, phase \in AfterMiniFat, phase' = "walk", stack # << >>, entries' = entries,
         NEW f, IsOpen(entries, f), stack' = Append(Front(stack), f),
         Collected' \in Walks(entries),
         Finished(entries, f, Collected') = Finished(entries, Top, Collected)
  PROVE  Walking'
<1> DEFINE acc == Collected'
<1>1. LeadsTo(entries, Front(stack), Finished(entries, f, acc)) /\ IsSeq(Front(stack))
  BY TopLeads
<1>2. acc \in Walks(entries)
  OBVIOUS
<1> HIDE DEF acc
<1>3. LeadsTo(entries, Append(Front(stack), f), acc)
  BY <1>1, <1>2, PushLeads
<1> QED
  BY <1>3 DEF Walking, acc

\* An entry that is neither a storage nor a stream is passed.
LEMMA PassWalking ==
  ASSUME IInv, Read, Walking, PassOther PROVE Walking'
<1> DEFINE E == entries
           acc == Collected
           f == [Top EXCEPT !.stage = "right"]
<1>1. /\ phase = "walk" /\ phase' = "walk" /\ stack # << >> /\ Top.stage = "self"
      /\ Me.type \notin {"storage", "stream"}
      /\ visited' = visited /\ order' = order /\ entries' = E
      /\ stack' = Append(Front(stack), f)
  BY DEF PassOther, At, MovedTo, found
<1>2. phase \in AfterMiniFat
  BY <1>1 DEF AfterMiniFat, AfterContainer, AfterDirectory, AfterFat
<1>3. /\ IsOpen(E, Top) /\ acc \in Walks(E) /\ IsFrame(Top) /\ IsEntry(E, Top.idx)
  BY <1>1, <1>2, TopLeads
<1>4. f.idx = Top.idx /\ f.prefix = Top.prefix /\ f.stage = "right"
  BY <1>3, TopMoved
<1>5. acc = Collected'
  BY <1>1 DEF Collected
<1> HIDE DEF f, acc, E
<1>6. IsOpen(E, f)
  BY <1>3, <1>4 DEF IsOpen
<1>7. Own(E, Top, acc) = acc
  BY <1>1 DEF Own, Me, E
<1>8. Finished(E, f, acc) = Finished(E, Top, acc)
  <2>1. Finished(E, Top, acc) = WalkTo(walkDir(E), E[Top.idx + 1].right, Top.prefix, acc)
    BY <1>1, <1>7 DEF Finished
  <2>2. Finished(E, f, acc) = WalkTo(walkDir(E), E[Top.idx + 1].right, Top.prefix, acc)
    BY <1>4 DEF Finished
  <2> QED
    BY <2>1, <2>2
<1>9. Collected' \in Walks(entries)
  BY <1>3, <1>5 DEF E
<1>10. Finished(entries, f, Collected') = Finished(entries, Top, Collected)
  BY <1>5, <1>8 DEF E, acc
<1> QED
  BY <1>1, <1>2, <1>6, <1>9, <1>10, BesideWalking DEF E

\* The call for the right subtree returns what its caller returns.
LEMMA RightWalking ==
  ASSUME IInv, Read, Walking, TurnRight PROVE Walking'
<1> DEFINE E == entries
           acc == Collected
           f == Frame(Me.right, Top.prefix)
<1>1. /\ phase = "walk" /\ phase' = "walk" /\ stack # << >> /\ Top.stage = "right"
      /\ visited' = visited /\ order' = order /\ entries' = E
      /\ stack' = Append(Front(stack), f)
  BY DEF TurnRight, At, found
<1>2. phase \in AfterMiniFat
  BY <1>1 DEF AfterMiniFat, AfterContainer, AfterDirectory, AfterFat
<1>3. /\ IsArray(E) /\ IsOpen(E, Top) /\ acc \in Walks(E) /\ IsEntry(E, Top.idx)
  BY <1>1, <1>2, TopLeads
<1>4. f.idx = E[Top.idx + 1].right /\ f.prefix = Top.prefix /\ f.stage = "left"
  BY DEF Frame, Me
<1>5. acc = Collected'
  BY <1>1 DEF Collected
<1>6. E[Top.idx + 1].right \in Int
  BY <1>3, EntryIs
<1> HIDE DEF f, acc, E
<1>7. IsOpen(E, f)
  BY <1>3, <1>4, <1>6 DEF IsOpen
<1>8. Finished(E, f, acc) = Finished(E, Top, acc)
  <2>1. Finished(E, Top, acc) = WalkTo(walkDir(E), E[Top.idx + 1].right, Top.prefix, acc)
    BY <1>1 DEF Finished
  <2>2. Finished(E, f, acc) = WalkTo(walkDir(E), E[Top.idx + 1].right, Top.prefix, acc)
    BY <1>4 DEF Finished
  <2> QED
    BY <2>1, <2>2
<1>9. Collected' \in Walks(entries)
  BY <1>3, <1>5 DEF E
<1>10. Finished(entries, f, Collected') = Finished(entries, Top, Collected)
  BY <1>5, <1>8 DEF E, acc
<1> QED
  BY <1>1, <1>2, <1>7, <1>9, <1>10, BesideWalking DEF E

\* The paths of a longer list.
LEMMA PathsMore ==
  ASSUME NEW list, IsSeq(list), NEW r, NEW S, PathsOf(list) \in Seq(S), r.path \in S
  PROVE  PathsOf(Append(list, r)) = Append(PathsOf(list), r.path)
<1> DEFINE m == Len(list)
           t == Append(list, r)
           p == PathsOf(list)
           q == Append(p, r.path)
<1>1. /\ m \in Nat /\ DOMAIN list = 1 .. m /\ DOMAIN t = 1 .. m + 1 /\ t[m + 1] = r
      /\ \A k \in 1 .. m : t[k] = list[k]
  BY Appended DEF IsSeq
<1>2. p = [i \in DOMAIN list |-> list[i].path]
  BY DEF PathsOf
<1>3. /\ DOMAIN p = 1 .. m /\ \A k \in 1 .. m : p[k] = list[k].path
  BY <1>1, <1>2
<1>4. Len(p) = m
  BY <1>1, <1>3
<1>5. /\ q \in Seq(S) /\ Len(q) = m + 1 /\ q[m + 1] = r.path /\ \A k \in 1 .. m : q[k] = p[k]
  <2>1. p \in Seq(S)
    OBVIOUS
  <2> HIDE DEF p
  <2> QED
    BY <1>4, <2>1, AppendProperties
<1>6. q = [k \in 1 .. m + 1 |-> q[k]]
  <2> HIDE DEF q
  <2> QED
    BY <1>1, <1>5
<1> HIDE DEF p, q, t, m
<1>7. ASSUME NEW k \in 1 .. m + 1
      PROVE  q[k] = t[k].path
  <2>1. CASE k = m + 1
    BY <1>1, <1>5, <2>1
  <2>2. CASE k \in 1 .. m
    BY <1>1, <1>3, <1>5, <2>2
  <2> QED
    BY <1>1, <2>1, <2>2
<1>8. q = [k \in 1 .. m + 1 |-> t[k].path]
  BY <1>6, <1>7
<1>9. PathsOf(t) = [k \in 1 .. m + 1 |-> t[k].path]
  BY <1>1 DEF PathsOf
<1> QED
  BY <1>8, <1>9 DEF p, q, t

\* A stream is collected, then its call goes on to the right.
LEMMA StoreWalking ==
  ASSUME IInv, Read, Walking, StoreContent PROVE Walking'
<1> DEFINE E == entries
           acc == Collected
           f == [Top EXCEPT !.stage = "right"]
           path == Append(Top.prefix, Me.name)
           r == [idx |-> Top.idx, path |-> path]
<1>1. /\ phase \in {"content", "minicontent"} /\ phase' = "walk"
      /\ visited' = visited /\ order' = Append(order, r) /\ entries' = E
      /\ stack' = Append(Front(stack), f)
  BY DEF StoreContent, ChainEnds, MovedTo
<1>2. phase \in AfterMiniFat
  BY <1>1 DEF AfterMiniFat, AfterContainer, AfterDirectory, AfterFat, Chains
<1>3. stack # << >> /\ Top.stage = "self" /\ Me.type = "stream" /\ IsSeq(order)
  BY <1>1 DEF IInv, FramesOK, Shapes
<1>4. /\ IsArray(E) /\ IsOpen(E, Top) /\ acc \in Walks(E) /\ IsFrame(Top) /\ IsEntry(E, Top.idx)
  BY <1>2, <1>3, TopLeads
<1>5. Me.name \in EntryNames(E) /\ Me = E[Top.idx + 1]
  BY <1>4, EntryIs DEF Me
<1>6. path \in PathPrefixes(E)
  BY <1>4, <1>5 DEF IsOpen, PathPrefixes
<1>7. f.idx = Top.idx /\ f.prefix = Top.prefix /\ f.stage = "right"
  BY <1>4, TopMoved
<1>8. acc.order = PathsOf(order) /\ acc.seen = visited /\ acc = [seen |-> acc.seen, order |-> acc.order]
  BY DEF Collected
<1>9. acc.order \in Seq(PathPrefixes(E)) /\ acc.seen \subseteq Indexes(E)
  BY <1>4, WalksAre
<1>10. PathsOf(order') = Append(acc.order, path)
  <2>1. r.path \in PathPrefixes(E) /\ r.path = path
    BY <1>6
  <2> HIDE DEF r, acc, path
  <2> QED
    BY <1>1, <1>3, <1>8, <1>9, <2>1, PathsMore
<1>11. Collected' = [seen |-> acc.seen, order |-> Append(acc.order, path)]
  BY <1>1, <1>8, <1>10 DEF Collected
<1>12. Own(E, Top, acc) = [acc EXCEPT !.order = Append(@, path)]
  BY <1>3, <1>5 DEF Own
<1> HIDE DEF f, acc, E, path, r
<1>13. Own(E, Top, acc) = Collected'
  BY <1>8, <1>11, <1>12
<1>14. Collected' \in Walks(E)
  <2> DEFINE more == [seen |-> acc.seen, order |-> Append(acc.order, path)]
  <2>1. more.seen \subseteq Indexes(E) /\ more.order \in Seq(PathPrefixes(E))
    BY <1>6, <1>9
  <2>2. more = [seen |-> more.seen, order |-> more.order]
    OBVIOUS
  <2> HIDE DEF more
  <2>3. more \in Walks(E)
    BY <2>1, <2>2, WalksAre
  <2> QED
    BY <1>11, <2>3 DEF more
<1>15. IsOpen(E, f)
  BY <1>4, <1>7 DEF IsOpen
<1>16. Finished(E, f, Collected') = Finished(E, Top, acc)
  <2>1. Finished(E, Top, acc) = WalkTo(walkDir(E), E[Top.idx + 1].right, Top.prefix, Collected')
    BY <1>3, <1>13 DEF Finished
  <2>2. Finished(E, f, Collected') = WalkTo(walkDir(E), E[Top.idx + 1].right, Top.prefix, Collected')
    BY <1>7 DEF Finished
  <2> QED
    BY <2>1, <2>2
<1>17. Collected' \in Walks(entries)
  BY <1>14 DEF E
<1>18. Finished(entries, f, Collected') = Finished(entries, Top, Collected)
  BY <1>16 DEF E, acc
<1> QED
  BY <1>1, <1>2, <1>3, <1>15, <1>17, <1>18, BesideWalking DEF E

\* The walk begins with the child of the root.
LEMMA MiniFatWalking ==
  ASSUME FileOK, IInv, Read, Reading, Walking, ReadMiniFat PROVE Walking'
<1>1. /\ phase = "minifat" /\ phase' = "walk" /\ entries' = entries /\ visited' = visited
      /\ order' = order /\ stack' = << Frame(entries[1].child, << >>) >>
  BY DEF ReadMiniFat, ChainEnds, found
<1>2. visited = {} /\ order = << >>
  BY <1>1 DEF IInv, Early
<1>3. PathsOf(<< >>) = << >>
  <2> DEFINE value(i) == << >>[i].path
             p == [i \in DOMAIN << >> |-> value(i)]
  <2>1. PathsOf(<< >>) = p
    BY DEF PathsOf
  <2>2. p = << >>
    <3> HIDE DEF value
    <3> QED
      OBVIOUS
  <2> QED
    BY <2>1, <2>2
<1>4. Collected' = [seen |-> {}, order |-> << >>]
  BY <1>1, <1>2, <1>3 DEF Collected
<1>5. IsDirectory(entries) /\ entries # << >>
  BY <1>1 DEF Read, AfterDirectory, AfterFat, Chains
<1>6. LeadsTo(entries, << Frame(entries[1].child, << >>) >>, [seen |-> {}, order |-> << >>])
  BY <1>5, WalkStarts
<1> QED
  BY <1>1, <1>4, <1>6 DEF Walking

\* What leaves the walk alone.
LEMMA KeptWalking ==
  ASSUME Walking, UNCHANGED << stack, visited, order >>,
         phase' \in AfterMiniFat => phase \in AfterMiniFat /\ entries' = entries,
         phase' = "done" => stack = << >>
  PROVE  Walking'
<1>1. Collected' = Collected
  BY DEF Collected
<1> QED
  BY <1>1 DEF Walking

-----------------------------------------------------------------------------
(***************************************************************************)
(* The streams that are stored.                                            *)
(***************************************************************************)

\* A step that stores nothing.
LEMMA KeptStored ==
  ASSUME Stored, UNCHANGED << file, found >>,
         phase' \in AfterMiniFat => phase \in AfterMiniFat /\ entries' = entries
  PROVE  Stored'
<1>1. Image' = Image /\ Header' = Header
  BY SameFile
<1> QED
  BY <1>1 DEF Stored, found

\* Before the walk nothing is stored.
LEMMA MiniFatStored ==
  ASSUME IInv, ReadMiniFat PROVE Stored'
<1>1. phase = "minifat" /\ order' = order
  BY DEF ReadMiniFat, ChainEnds, found
<1>2. order' = << >>
  BY <1>1 DEF IInv, Early
<1>3. DOMAIN << >> = {}
  OBVIOUS
<1> QED
  BY <1>2, <1>3 DEF Stored

\* What the chain of a stream gave is the content of its entry.
LEMMA ContentIs ==
  ASSUME FileOK, IInv, Read, Reading, phase \in {"content", "minicontent"}, ~GoesOn
  PROVE  ContentRead = Content(Image, Header, Me)
<1> USE DEF AfterFat, AfterDirectory, AfterContainer, AfterMiniFat, Chains
<1> DEFINE small == phase = "minicontent"
<1>1. IsImage(Image)
  BY FileRead
<1>2. /\ IsTable(fatWords, Fat) /\ IsTable(miniWords, MiniFat) /\ miniData = MiniStream
      /\ IsDirectory(entries)
  BY DEF Read
<1>3. Me.size \in Nat
  <2>1. /\ stack # << >> /\ Top.stage = "self" /\ Shapes
    BY DEF IInv, FramesOK
  <2>2. Top.idx \in visited /\ visited \subseteq 0 .. Len(entries) - 1
    BY <2>1, TopIn DEF IInv, FramesOK
  <2>3. IsSeq(entries) /\ IsArray(entries) /\ \A i \in DOMAIN entries : entries[i].size \in Nat
    BY <1>2 DEF IsDirectory
  <2>4. Top.idx + 1 \in DOMAIN entries
    BY <2>2, <2>3, IndexesAre, EntryIs
  <2> QED
    BY <2>3, <2>4 DEF Me
<1>4. small <=> Me.size < Header.miniCutoff /\ MiniData(Image, Header) # << >>
  BY <1>2 DEF Reading, InMiniStream, MiniStream
<1>5. out = Walked(IF small THEN MiniNext(MiniData(Image, Header), MiniFAT(Image, Header))
                   ELSE FatNext(Image, buildFAT(Image, Header)),
                   IF Me.size = 0 THEN EndOfChain ELSE Me.start)
  <2>1. out = Walked(Followed, First)
    BY ChainRead
  <2>2. First = IF Me.size = 0 THEN EndOfChain ELSE Me.start
    BY DEF First, FirstOf
  <2>3. Followed = IF small THEN MiniNext(MiniData(Image, Header), MiniFAT(Image, Header))
                   ELSE FatNext(Image, buildFAT(Image, Header))
    BY <1>2 DEF Followed, MiniStream, MiniFat, Fat
  <2> QED
    BY <2>1, <2>2, <2>3
<1>6. /\ IsTable(fatWords, buildFAT(Image, Header)) /\ IsTable(miniWords, MiniFAT(Image, Header))
  BY <1>2 DEF Fat, MiniFat
<1>7. small \in BOOLEAN
  OBVIOUS
<1>8. ContentRead = Truncated(IF small THEN MiniParts(MiniData(Image, Header), out)
                              ELSE Data(Image, out), Me.size)
  <2>1. MiniSectors(out) = MiniParts(MiniData(Image, Header), out)
    BY <1>2 DEF MiniSectors, MiniParts, MiniStream
  <2> QED
    BY <2>1 DEF ContentRead
<1> HIDE DEF small
<1>9. Truncated(IF small THEN MiniParts(MiniData(Image, Header), out) ELSE Data(Image, out), Me.size)
        = Content(Image, Header, Me)
  BY <1>1, <1>3, <1>4, <1>5, <1>6, <1>7, ContentComputed
<1> QED
  BY <1>8, <1>9

\* The stream that is stored is the last one of its path.
LEMMA StoreStored ==
  ASSUME FileOK, IInv, Read, Reading, Stored, StoreContent PROVE Stored'
<1> DEFINE path == Append(Top.prefix, Me.name)
           r == [idx |-> Top.idx, path |-> path]
           m == Len(order)
           content == Content(Image, Header, Me)
<1>1. /\ phase \in {"content", "minicontent"} /\ ~GoesOn /\ file' = file /\ entries' = entries
      /\ streams' = StreamsWith(path) /\ order' = Append(order, r)
  BY DEF StoreContent, ChainEnds
<1>2. ContentRead = content
  BY <1>1, ContentIs
<1>3. r.idx = Top.idx /\ r.path = path /\ content = Content(Image, Header, entries[r.idx + 1])
  BY DEF Me
<1>4. IsSeq(order)
  BY DEF IInv, Shapes
<1>5. /\ m \in Nat /\ DOMAIN order = 1 .. m /\ DOMAIN order' = 1 .. m + 1 /\ order'[m + 1] = r
      /\ Len(order') = m + 1 /\ \A i \in 1 .. m : order'[i] = order[i]
  BY <1>1, <1>4, Appended DEF IsSeq
<1>6. Image' = Image /\ Header' = Header
  BY <1>1, SameFile
<1> HIDE DEF content, path, r, m
<1>7. /\ DOMAIN streams' = DOMAIN streams \cup {path} /\ streams'[path] = content
      /\ \A p \in DOMAIN streams : p # path => streams'[p] = streams[p]
  <2> DEFINE value(p) == IF p = path THEN content ELSE streams[p]
  <2>1. streams' = [p \in DOMAIN streams \cup {path} |-> value(p)]
    BY <1>1, <1>2 DEF StreamsWith
  <2> HIDE DEF value
  <2>2. /\ DOMAIN streams' = DOMAIN streams \cup {path}
        /\ \A p \in DOMAIN streams \cup {path} : streams'[p] = value(p)
    BY <2>1
  <2> QED
    BY <2>2 DEF value
<1>8. \A i \in 1 .. m :
        /\ order[i].path \in DOMAIN streams
        /\ (\A j \in i + 1 .. m : order[j].path # order[i].path) =>
             streams[order[i].path] = Content(Image, Header, entries[order[i].idx + 1])
  BY <1>1, <1>5 DEF Stored, AfterMiniFat, AfterContainer, AfterDirectory, AfterFat, Chains, m
<1>9. ASSUME NEW i \in 1 .. m + 1
      PROVE  /\ order'[i].path \in DOMAIN streams'
             /\ (\A j \in i + 1 .. m + 1 : order'[j].path # order'[i].path) =>
                  streams'[order'[i].path] = Content(Image, Header, entries[order'[i].idx + 1])
  <2>1. CASE i = m + 1
    BY <1>3, <1>5, <1>7, <2>1
  <2>2. CASE i \in 1 .. m
    <3>1. order'[i] = order[i] /\ order[i].path \in DOMAIN streams
      BY <1>5, <1>8, <2>2
    <3>2. ASSUME \A j \in i + 1 .. m + 1 : order'[j].path # order[i].path
          PROVE  streams'[order[i].path] = Content(Image, Header, entries[order[i].idx + 1])
      <4>1. m + 1 \in i + 1 .. m + 1 /\ \A j \in i + 1 .. m : j \in i + 1 .. m + 1 /\ j \in 1 .. m
        BY <1>5, <2>2
      <4>2. path # order[i].path
        BY <1>3, <1>5, <3>2, <4>1
      <4>3. \A j \in i + 1 .. m : order[j].path # order[i].path
        BY <1>5, <3>2, <4>1
      <4>4. streams[order[i].path] = Content(Image, Header, entries[order[i].idx + 1])
        BY <1>8, <2>2, <4>3
      <4> QED
        BY <1>7, <3>1, <4>2, <4>4
    <3> QED
      BY <1>7, <3>1, <3>2
  <2> QED
    BY <1>5, <2>1, <2>2
<1> QED
  BY <1>1, <1>5, <1>6, <1>9 DEF Stored

-----------------------------------------------------------------------------
(***************************************************************************)
(* All of it.                                                              *)
(***************************************************************************)

Computing == Read /\ Reading /\ Walking /\ Stored

\* Nothing is computed before the call.
LEMMA InitComputing == Idle => Computing
<1> SUFFICES ASSUME Idle
             PROVE  Computing
  OBVIOUS
<1>1. phase = "idle" /\ "idle" \notin AfterMiniFat
  BY DEF Idle, AfterMiniFat, AfterContainer, AfterDirectory, AfterFat, Chains
<1> QED
  BY <1>1, InitReading DEF Computing, Walking, Stored

\* Every step of Open keeps what was computed on the way to the result.
LEMMA NextComputing ==
  ASSUME FileOK, IInv, Computing, [Call \/ OpenNext]_openVars PROVE Computing'
<1> USE DEF Computing
<1>1. AfterMiniFat = {"content", "minicontent", "walk", "done"}
  BY DEF AfterMiniFat, AfterContainer, AfterDirectory, AfterFat, Chains
<1>2. CASE Call
  <2>1. phase' = "header" /\ UNCHANGED << stack, visited, order >>
    BY <1>2 DEF Call, found
  <2> QED
    BY <1>1, <1>2, <2>1, CallReading DEF Walking, Stored
<1>3. CASE BadHeader \/ NoDirectory
  <2>1. phase' = "error" /\ phase \in {"header", "directory"}
    BY <1>3 DEF BadHeader, NoDirectory, ChainEnds
  <2> QED
    BY <1>1, <2>1 DEF Walking, Stored, Read, Reading, AfterMiniFat, AfterContainer,
                      AfterDirectory, AfterFat, Chains
<1>4. CASE ReadHeader \/ FollowDifat \/ EndDifat \/ AppendFat \/ StartDirectory \/ ReadDirectory
           \/ ReadContainer
  <2>1. phase' \in {"difat", "fat", "directory", "container", "minifat"}
    BY <1>4 DEF ReadHeader, FollowDifat, EndDifat, AppendFat, StartDirectory, ReadDirectory,
                ReadContainer, StartChain
  <2>2. Read' /\ Reading'
    BY <1>4, HeaderReading, DifatReading, FatReading, DirectoryReading, ContainerReading
  <2> QED
    BY <1>1, <2>1, <2>2 DEF Walking, Stored
<1>5. CASE ReadMiniFat
  BY <1>5, MiniFatReading, MiniFatWalking, MiniFatStored
<1>6. CASE FollowChain
  <2>1. phase' = phase /\ UNCHANGED << file, entries, stack, visited, found >>
    BY <1>6 DEF FollowChain
  <2>2. order' = order /\ phase # "done"
    BY <1>6, <2>1 DEF found, FollowChain, Chains
  <2> QED
    BY <1>6, <2>1, <2>2, FollowReading, KeptWalking, KeptStored
<1>7. CASE StartContent
  <2>1. /\ phase = "walk" /\ phase' \in {"content", "minicontent"}
        /\ UNCHANGED << file, entries, stack, visited, found >>
    BY <1>7 DEF StartContent, At, StartChain
  <2>2. order' = order
    BY <2>1 DEF found
  <2> QED
    BY <1>1, <1>7, <2>1, <2>2, StartReading, KeptWalking, KeptStored
<1>8. CASE Opened
  <2>1. /\ phase = "walk" /\ phase' = "done" /\ stack = << >>
        /\ UNCHANGED << file, chain, fatSt, entries, mini, stack, visited, found >>
    BY <1>8 DEF Opened
  <2>2. order' = order /\ UNCHANGED << fatWords, miniData, miniWords >>
    BY <2>1 DEF found, fatSt, mini
  <2> QED
    BY <1>1, <2>1, <2>2, WalkReading, KeptWalking, KeptStored
<1>9. CASE Visit \/ Return \/ EnterStorage \/ PassOther \/ TurnRight
  <2>1. /\ phase = "walk" /\ phase' = "walk" /\ UNCHANGED << file, fatSt, entries, mini, found >>
    BY <1>9 DEF Visit, Return, EnterStorage, PassOther, TurnRight, At
  <2>2. UNCHANGED << fatWords, miniData, miniWords >>
    BY <2>1 DEF fatSt, mini
  <2>3. Walking'
    BY <1>9, VisitWalking, ReturnWalking, EnterWalking, PassWalking, RightWalking
  <2> QED
    BY <1>1, <2>1, <2>2, <2>3, WalkReading, KeptStored
<1>10. CASE StoreContent
  <2>1. /\ phase \in {"content", "minicontent"} /\ phase' = "walk"
        /\ UNCHANGED << file, fatSt, entries, mini >>
    BY <1>10 DEF StoreContent, ChainEnds
  <2>2. UNCHANGED << fatWords, miniData, miniWords >>
    BY <2>1 DEF fatSt, mini
  <2> QED
    BY <1>1, <1>10, <2>1, <2>2, WalkReading, StoreWalking, StoreStored
<1>11. CASE UNCHANGED openVars
  <2>1. UNCHANGED << file, phase, at, out, fatList, fatWords, entries, miniData, miniWords, stack,
                     visited, streams, order >>
    BY <1>11 DEF openVars, chain, fatSt, mini, found
  <2>2. /\ Image' = Image /\ Header' = Header
        /\ Fat' = Fat /\ MiniFat' = MiniFat /\ Directory' = Directory
        /\ MiniStream' = MiniStream /\ FatList' = FatList
    BY <2>1, SameFile
  <2>3. Me' = Me
    BY <2>1 DEF Me, Top, Last
  <2>4. Followed' = Followed /\ First' = First /\ InMiniStream(Me)' = InMiniStream(Me)
    BY <2>1, <2>2, <2>3 DEF Followed, First, InMiniStream
  <2>5. Read' /\ Reading'
    BY <2>1, <2>2, <2>4 DEF Read, Reading
  <2>6. Walking'
    BY <2>1, KeptWalking DEF Walking
  <2>7. UNCHANGED found
    BY <2>1 DEF found
  <2> QED
    BY <2>1, <2>5, <2>6, <2>7, KeptStored
<1> QED
  BY <1>2, <1>3, <1>4, <1>5, <1>6, <1>7, <1>8, <1>9, <1>10, <1>11 DEF OpenNext

\* On any file, however damaged, Open ends with the directory array that
\* entries and FAT of the file make, with the paths in the order of an in-order
\* walk, and under each path with the content of the last stream of that path.
THEOREM OpenComputesHolds == OpenSpec => []OpenComputes
<1>1. Idle => Computing
  BY InitComputing
<1>2. Computing /\ FileOK /\ IInv /\ [(Call /\ IsFile(file')) \/ OpenNext]_openVars => Computing'
  BY NextComputing
<1>3. Computing /\ IInv => OpenComputes
  <2> SUFFICES ASSUME Computing, IInv, phase = "done"
               PROVE  OpenComputes
    BY DEF OpenComputes
  <2>1. phase \in AfterMiniFat /\ phase \in AfterDirectory
    BY DEF AfterMiniFat, AfterContainer, AfterDirectory, AfterFat
  <2>2. entries = Directory
    BY <2>1 DEF Computing, Read
  <2>3. LeadsTo(entries, << >>, Collected)
    BY <2>1 DEF Computing, Walking
  <2>4. Collected = Walk(entries)
    <3>1. PICK res : IsLeading(entries, << >>, Collected, res)
      BY <2>3 DEF LeadsTo
    <3>2. Len(<< >>) = 0
      OBVIOUS
    <3> QED
      BY <3>1, <3>2 DEF IsLeading
  <2>5. PathsOf(order) = Walk(entries).order
    BY <2>4 DEF Collected
  <2> QED
    BY <2>1, <2>2, <2>5 DEF OpenComputes, Computing, Stored, PathsOf, Directory
<1> QED
  BY <1>1, <1>2, <1>3, OpenInvariant, FileStays, PTL DEF OpenSpec
=============================================================================
