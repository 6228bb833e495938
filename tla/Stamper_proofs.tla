--------------------------- MODULE Stamper_proofs ---------------------------
(***************************************************************************)
(* What stamping guarantees for every design, whatever its template graph. *)
(*                                                                         *)
(* TypeOK needs only that a template's indices are numbers.  PathDistinct  *)
(* needs to know the shape of the recursion: every occurrence but the      *)
(* innermost is waiting for a child it has just handed over, so the guard  *)
(* is taken and released by the innermost one alone.  Of the rows: the ids *)
(* of every table are 1..n, each issued once; and a row names rows of its  *)
(* own occurrence.  Together the instances are the unfolding of the design *)
(* that Hierarchy describes.                                               *)
(***************************************************************************)
EXTENDS StamperProperties, FiniteSetTheorems, FunctionTheorems, SequenceTheorems,
        WellFoundedInduction, TLAPS

-----------------------------------------------------------------------------
(* The data of a template.                                                 *)

LEMMA ElementType ==
    ASSUME NEW S, NEW s \in Seq(S), NEW i \in 1..Len(s)
    PROVE  s[i] \in S
  OBVIOUS

LEMMA BodyType ==
    ASSUME design \in Designs, NEW t \in Tpl
    PROVE  BodyOf(t) \in Body
  BY DesignsTyped DEF BodyOf, Design

\* The parts of a body that are counted.
LEMMA BodyParts ==
    ASSUME NEW b \in Body
    PROVE  /\ Len(b.scopes) \in Nat /\ Len(b.prims) \in Nat
           /\ Len(b.nets) \in Nat /\ Len(b.refs) \in Nat
           /\ Len(b.deps) \in Nat /\ Len(b.children) \in Nat
           /\ b.terms \in Nat
           /\ \A i \in 1..Len(b.children) : b.children[i] \in Child
  BY DEF Body

\* Indices picked out of a sequence can be counted.
LEMMA CountType ==
    ASSUME NEW n \in Nat, NEW S \in SUBSET (1..n)
    PROVE  Cardinality(S) \in Nat
<1>1. IsFiniteSet(1..n)
  BY FS_Interval
<1>2. IsFiniteSet(S)
  BY <1>1, FS_Subset
<1> QED
  BY <1>2, FS_CardinalityType

LEMMA SizeType ==
    ASSUME NEW b \in Body, NEW tab \in Reserved
    PROVE  Size(b, tab) \in Nat
<1>1. Cardinality(Inline(b)) \in Nat
  BY BodyParts, CountType DEF Inline
<1>2. tab \in Plain => Len(b.rows[tab]) \in Nat
  BY DEF Body
<1> QED
  BY <1>1, <1>2, BodyParts DEF Size, Reserved

-----------------------------------------------------------------------------
(* Interface bindings.                                                     *)

LEMMA BoundToType ==
    ASSUME NEW bind \in SUBSET Binding, NEW t, NEW s
    PROVE  BoundTo(bind, t, s) \in Nat
<1> DEFINE m == {e \in bind : e.term = t /\ e.seg = s}
<1>1. CASE m = {}
  BY <1>1 DEF BoundTo
<1>2. CASE m # {}
  <2>1. (CHOOSE e \in m : TRUE) \in Binding
    BY <1>2
  <2> QED
    BY <1>2, <2>1 DEF BoundTo, Binding
<1> QED
  BY <1>1, <1>2

LEMMA BindOfType ==
    ASSUME NEW f \in Frame, NEW c \in Child
    PROVE  BindOf(f, c) \in SUBSET Binding
<1>1. ASSUME NEW i \in 1..Len(c.conns)
      PROVE  [term |-> c.conns[i].term, seg |-> c.conns[i].seg,
              inst |-> Bound(f, c.conns[i])] \in Binding
  <2>1. c.conns[i] \in Conn
    BY DEF Child
  <2>2. Bound(f, c.conns[i]) \in Nat
    <3>1. f.childBase \in Nat /\ f.bind \in SUBSET Binding
      BY DEF Frame
    <3>2. c.conns[i].child \in Nat
      BY <2>1 DEF Conn
    <3>3. BoundTo(f.bind, c.conns[i].ownTerm, c.conns[i].ownSeg) \in Nat
      BY <3>1, BoundToType
    <3> QED
      BY <3>1, <3>2, <3>3 DEF Bound
  <2> QED
    BY <2>1, <2>2 DEF Conn, Binding
<1> QED
  BY <1>1 DEF BindOf

LEMMA NewFrameType ==
    ASSUME NEW t \in Tpl, NEW i \in Nat, NEW bind \in SUBSET Binding
    PROVE  NewFrame(t, i, bind) \in Frame
  BY DEF NewFrame, Frame, NoBase

\* The next child: the stage of the frame may change with it.
LEMMA NextFrameType ==
    ASSUME NEW f \in Frame
    PROVE  /\ [f EXCEPT !.next = @ + 1] \in Frame
           /\ [f EXCEPT !.stage = "kids", !.next = @ + 1] \in Frame
<1>1. f.next + 1 \in Nat \ {0}
  BY DEF Frame
<1>2. /\ [f EXCEPT !.next = f.next + 1] \in Frame
      /\ [f EXCEPT !.stage = "kids", !.next = f.next + 1] \in Frame
  BY <1>1 DEF Frame
<1> QED
  BY <1>2

-----------------------------------------------------------------------------
(* The stack.                                                              *)

LEMMA TopType ==
    ASSUME stack \in Seq(Frame), stack # <<>>
    PROVE  Len(stack) \in Nat \ {0} /\ Top \in Frame
  BY DEF Top

LEMMA ReplaceTop ==
    ASSUME stack \in Seq(Frame), stack # <<>>, NEW f \in Frame
    PROVE  /\ Replace(f) \in Seq(Frame)
           /\ Len(Replace(f)) = Len(stack)
           /\ Replace(f)[Len(stack)] = f
           /\ \A i \in 1..(Len(stack) - 1) : Replace(f)[i] = stack[i]
  BY DEF Replace

LEMMA PopTop ==
    ASSUME stack \in Seq(Frame), stack # <<>>
    PROVE  /\ Pop \in Seq(Frame)
           /\ Len(Pop) = Len(stack) - 1
           /\ \A i \in 1..(Len(stack) - 1) : Pop[i] = stack[i]
  BY DEF Pop

-----------------------------------------------------------------------------
(* The inductive invariant.  An occurrence waits for the connections of a  *)
(* child it has; every occurrence but the innermost waits so; and the      *)
(* guard holds the templates of those that have begun their children, each *)
(* template once.                                                          *)

Due == \A i \in 1..Len(stack) :
         stack[i].stage = "conns" =>
           stack[i].next <= Len(BodyOf(stack[i].tpl).children)

Suspended == \A i \in 1..(Len(stack) - 1) : stack[i].stage = "conns"

Held == onPath = {stack[i].tpl : i \in {j \in 1..Len(stack) : InChildren(j)}}

HeldOnce ==
    \A i, j \in 1..Len(stack) :
      InChildren(i) /\ InChildren(j) /\ stack[i].tpl = stack[j].tpl => i = j

PathInv == Due /\ Suspended /\ Held /\ HeldOnce

-----------------------------------------------------------------------------
(* TypeOK.                                                                 *)

LEMMA CountersType ==
    ASSUME last \in [Counter -> Nat], NEW a \in Counter, NEW c \in Counter,
           NEW m \in Nat, NEW n \in Nat
    PROVE  [last EXCEPT ![a] = @ + m, ![c] = @ + n] \in [Counter -> Nat]
<1>1. [last EXCEPT ![a] = @ + m] \in [Counter -> Nat]
  OBVIOUS
<1> QED
  BY <1>1

LEMMA TypeInit == Init => TypeOK
  BY DEF Init, TypeOK, Counter

\* What a step that leaves the counters and the stack alone keeps.
LEMMA TypeKept ==
    ASSUME TypeOK, UNCHANGED <<design, onPath, last, stack>>,
           cursor' \in Nat,
           phase' \in {"tree", "packages", "refs", "deps", "done"}
    PROVE  TypeOK'
  BY DEF TypeOK

LEMMA TypeStep == TypeOK /\ Due /\ [Next]_vars => TypeOK'
<1> SUFFICES ASSUME TypeOK, Due, [Next]_vars PROVE TypeOK'
  OBVIOUS
<1> USE DEF TypeOK
<1>0. /\ "node" \in Counter /\ "conn" \in Counter /\ "net" \in Counter
      /\ "term" \in Counter /\ "dep" \in Counter /\ Reserved \subseteq Counter
  BY DEF Counter, Reserved
<1>1. CASE UNCHANGED vars
  BY <1>1 DEF vars
<1>2. CASE StampTop
  <2> DEFINE top == design.tops[cursor + 1]
             id == last["node"] + 1
  <2>1. top.tpl \in Tpl
    <3>1. design.tops \in Seq([name : Name, tpl : Tpl])
      BY DesignsTyped DEF Design
    <3>2. cursor + 1 \in 1..Len(design.tops)
      BY <1>2, <3>1 DEF StampTop
    <3>3. top \in [name : Name, tpl : Tpl]
      BY <3>1, <3>2, ElementType
    <3> QED
      BY <3>3
  <2>2. id \in Nat
    BY <1>0
  <2>3. NewFrame(top.tpl, id, {}) \in Frame
    BY <2>1, <2>2, NewFrameType
  <2>4. /\ stack' = <<NewFrame(top.tpl, id, {})>>
        /\ last' = [last EXCEPT !["node"] = id]
        /\ UNCHANGED <<design, phase, onPath>> /\ cursor' = cursor + 1
    BY <1>2 DEF StampTop
  <2>5. stack' \in Seq(Frame)
    BY <2>3, <2>4
  <2> QED
    BY <1>0, <2>2, <2>4, <2>5
<1>3. CASE StampRows
  <2> DEFINE b == BodyOf(Top.tpl)
             f == [Top EXCEPT !.stage = "guard",
                              !.base = [tab \in Reserved |-> last[tab]],
                              !.scopeBase = last["node"]]
  <2>1. Top \in Frame /\ stack # <<>>
    BY <1>3, TopType DEF StampRows, At
  <2>2. b \in Body
    BY <2>1, BodyType DEF Frame
  <2>3. [tab \in Reserved |-> last[tab]] \in [Reserved -> Nat]
    BY <1>0
  <2>4. f \in Frame
    BY <1>0, <2>1, <2>3 DEF Frame
  <2>5. /\ last' = [c \in Counter |->
                      CASE c \in Reserved -> last[c] + Size(b, c)
                        [] c = "node" ->
                             last[c] + Len(b.scopes) + Len(b.prims)
                        [] OTHER -> last[c]]
        /\ stack' = Replace(f)
        /\ UNCHANGED <<design, phase, cursor, onPath>>
    BY <1>3 DEF StampRows
  <2>6. \A c \in Reserved : Size(b, c) \in Nat
    BY <2>2, SizeType
  <2>7. last' \in [Counter -> Nat]
    BY <2>2, <2>5, <2>6, BodyParts
  <2>8. stack' \in Seq(Frame)
    BY <2>1, <2>4, <2>5, ReplaceTop
  <2> QED
    BY <2>5, <2>7, <2>8
<1>4. CASE CutRecursion \/ Return
  <2>1. stack # <<>> /\ stack' = Pop
    BY <1>4 DEF CutRecursion, Return, At
  <2>2. /\ UNCHANGED <<design, phase, cursor, last>>
        /\ onPath' \subseteq onPath
    BY <1>4 DEF CutRecursion, Return
  <2>3. stack' \in Seq(Frame)
    BY <2>1, PopTop
  <2> QED
    BY <2>2, <2>3
<1>5. CASE EnterChildren
  <2>1. Top \in Frame /\ stack # <<>>
    BY <1>5, TopType DEF EnterChildren, At
  <2>2. Top.tpl \in Tpl /\ BodyOf(Top.tpl) \in Body
    BY <2>1, BodyType DEF Frame
  <2>3. [Top EXCEPT !.stage = "kids", !.childBase = last["node"]] \in Frame
    BY <1>0, <2>1 DEF Frame
  <2>4. /\ onPath' = onPath \cup {Top.tpl}
        /\ stack' = Replace([Top EXCEPT !.stage = "kids",
                                        !.childBase = last["node"]])
        /\ last' = [last EXCEPT !["node"] =
                      @ + Len(BodyOf(Top.tpl).children)]
        /\ UNCHANGED <<design, phase, cursor>>
    BY <1>5 DEF EnterChildren
  <2>5. last' \in [Counter -> Nat]
    BY <1>0, <2>2, <2>4, BodyParts
  <2>6. stack' \in Seq(Frame)
    BY <2>1, <2>3, <2>4, ReplaceTop
  <2> QED
    BY <2>2, <2>4, <2>5, <2>6
<1>6. CASE StampChildModule
  <2> DEFINE f == [Top EXCEPT !.stage = "conns", !.termBase = last["term"]]
             g == NewFrame(NextChild.tpl, ChildId, BindOf(Top, NextChild))
  <2>1. Top \in Frame /\ stack # <<>>
    BY <1>6, TopType DEF StampChildModule, ChildDue, At
  <2>2. NextChild \in Child /\ ChildId \in Nat
    <3>1. BodyOf(Top.tpl) \in Body /\ Top.next \in Nat \ {0} /\ Top.childBase \in Nat
      BY <2>1, BodyType DEF Frame
    <3> QED
      BY <1>6, <3>1, BodyParts DEF StampChildModule, ChildDue, NextChild, ChildId
  <2>3. f \in Frame
    BY <1>0, <2>1 DEF Frame
  <2>4. g \in Frame
    BY <2>1, <2>2, BindOfType, NewFrameType DEF Child
  <2>5. /\ stack' = Append(Replace(f), g)
        /\ UNCHANGED <<design, phase, cursor, onPath, last>>
    BY <1>6 DEF StampChildModule
  <2>6. stack' \in Seq(Frame)
    BY <2>1, <2>3, <2>4, <2>5, ReplaceTop
  <2> QED
    BY <2>5, <2>6
<1>7. CASE StampConns
  <2> DEFINE k == NextChild.conns
             made == {i \in 1..Len(k) : k[i].term # 0}
             f == [Top EXCEPT !.stage = "kids", !.next = @ + 1]
  <2>1. Top \in Frame /\ stack # <<>>
    BY <1>7, TopType DEF StampConns, At
  <2>2. Cardinality(made) \in Nat
    <3>1. BodyOf(Top.tpl) \in Body /\ Top.next \in Nat \ {0}
      BY <2>1, BodyType DEF Frame
    <3>2. Top.next <= Len(BodyOf(Top.tpl).children)
      BY <1>7, <2>1, TopType DEF StampConns, At, Top, Due
    <3>3. NextChild \in Child
      BY <3>1, <3>2, BodyParts DEF NextChild
    <3>4. Len(k) \in Nat
      BY <3>3 DEF Child
    <3> QED
      BY <3>4, CountType
  <2>3. f \in Frame
    BY <2>1, NextFrameType
  <2>4. /\ last' = [last EXCEPT !["conn"] = @ + Cardinality(made)]
        /\ stack' = Replace(f)
        /\ UNCHANGED <<design, phase, cursor, onPath>>
    BY <1>7 DEF StampConns
  <2>5. stack' \in Seq(Frame)
    BY <2>1, <2>3, <2>4, ReplaceTop
  <2> QED
    BY <1>0, <2>2, <2>4, <2>5
<1>8. CASE StampUnresolved
  <2> DEFINE f == [Top EXCEPT !.next = @ + 1]
  <2>1. Top \in Frame /\ stack # <<>>
    BY <1>8, TopType DEF StampUnresolved, ChildDue, At
  <2>2. NextChild \in Child
    <3>1. BodyOf(Top.tpl) \in Body /\ Top.next \in Nat \ {0}
      BY <2>1, BodyType DEF Frame
    <3>2. Top.next <= Len(BodyOf(Top.tpl).children)
      BY <1>8 DEF StampUnresolved, ChildDue
    <3> QED
      BY <3>1, <3>2, BodyParts DEF NextChild
  <2>3. NextChild.ports \in Nat /\ Len(NextChild.conns) \in Nat
    BY <2>2 DEF Child
  <2>4. f \in Frame
    BY <2>1, NextFrameType
  <2>5. /\ last' = [last EXCEPT !["term"] = @ + NextChild.ports,
                                !["conn"] = @ + Len(NextChild.conns)]
        /\ stack' = Replace(f)
        /\ UNCHANGED <<design, phase, cursor, onPath>>
    BY <1>8 DEF StampUnresolved
  <2>6. stack' \in Seq(Frame)
    BY <2>1, <2>4, <2>5, ReplaceTop
  <2>7. last' \in [Counter -> Nat]
    BY <1>0, <2>3, <2>5, CountersType
  <2> QED
    BY <2>5, <2>6, <2>7
<1>9. CASE StampPackage
  <2> DEFINE p == design.packages[cursor + 1]
  <2>1. Len(p.nets) \in Nat
    <3>1. design.packages \in Seq([name : Name, nets : Seq(Name)])
      BY DesignsTyped DEF Design
    <3>2. cursor + 1 \in 1..Len(design.packages)
      BY <1>9, <3>1 DEF StampPackage
    <3>3. p \in [name : Name, nets : Seq(Name)]
      BY <3>1, <3>2, ElementType
    <3> QED
      BY <3>3
  <2>2. /\ last' = [last EXCEPT !["node"] = @ + 1,
                                !["net"] = @ + Len(p.nets)]
        /\ cursor' = cursor + 1
        /\ UNCHANGED <<design, phase, stack, onPath>>
    BY <1>9 DEF StampPackage
  <2>3. last' \in [Counter -> Nat]
    BY <1>0, <2>1, <2>2, CountersType
  <2> QED
    BY <2>2, <2>3
<1>10. CASE ResolveRef
  BY <1>10, TypeKept DEF ResolveRef
<1>11. CASE CrossDep
  <2>1. last' = last \/ last' = [last EXCEPT !["dep"] = @ + 1]
    BY <1>11 DEF CrossDep
  <2>2. cursor' = cursor + 1 /\ UNCHANGED <<design, phase, stack, onPath>>
    BY <1>11 DEF CrossDep
  <2> QED
    BY <1>0, <2>1, <2>2
<1>12. CASE Advance
  <2>1. phase' \in {"tree", "packages", "refs", "deps", "done"}
    BY <1>12 DEF Advance
  <2> QED
    BY <1>12, <2>1, TypeKept DEF Advance
<1> QED
  BY <1>1, <1>2, <1>3, <1>4, <1>5, <1>6, <1>7, <1>8, <1>9, <1>10, <1>11,
     <1>12 DEF Next

-----------------------------------------------------------------------------
(* PathInv.                                                                *)

LEMMA PathInit == Init => PathInv
  BY DEF Init, PathInv, Due, Suspended, Held, HeldOnce

\* The stack without its innermost occurrence: all of it is on the path.
LEMMA Below ==
    ASSUME TypeOK, PathInv, stack # <<>>
    PROVE  /\ Len(stack) \in Nat \ {0}
           /\ \A i \in 1..(Len(stack) - 1) : InChildren(i)
           /\ ~InChildren(Len(stack)) =>
                onPath = {stack[i].tpl : i \in 1..(Len(stack) - 1)}
           /\ InChildren(Len(stack)) =>
                /\ onPath \ {Top.tpl} = {stack[i].tpl : i \in 1..(Len(stack) - 1)}
                /\ onPath = {stack[i].tpl : i \in 1..Len(stack)}
<1>1. Len(stack) \in Nat \ {0}
  BY TopType DEF TypeOK
<1>2. \A i \in 1..(Len(stack) - 1) : InChildren(i)
  BY <1>1 DEF PathInv, Suspended, InChildren
<1>3. ASSUME ~InChildren(Len(stack))
      PROVE  onPath = {stack[i].tpl : i \in 1..(Len(stack) - 1)}
  <2>1. {j \in 1..Len(stack) : InChildren(j)} = 1..(Len(stack) - 1)
    BY <1>1, <1>2, <1>3
  <2> QED
    BY <2>1 DEF PathInv, Held
<1>4. ASSUME InChildren(Len(stack))
      PROVE  /\ onPath \ {Top.tpl} = {stack[i].tpl : i \in 1..(Len(stack) - 1)}
             /\ onPath = {stack[i].tpl : i \in 1..Len(stack)}
  <2>1. {j \in 1..Len(stack) : InChildren(j)} = 1..Len(stack)
    BY <1>1, <1>2, <1>4
  <2>2. onPath = {stack[i].tpl : i \in 1..Len(stack)}
    BY <2>1 DEF PathInv, Held
  <2>3. \A i \in 1..(Len(stack) - 1) : stack[i].tpl # Top.tpl
    BY <1>1, <1>2, <1>4 DEF PathInv, HeldOnce, Top
  <2>4. 1..Len(stack) = 1..(Len(stack) - 1) \cup {Len(stack)}
    BY <1>1
  <2> QED
    BY <2>2, <2>3, <2>4 DEF Top
<1> QED
  BY <1>1, <1>2, <1>3, <1>4

LEMMA PathStep == TypeOK /\ PathInv /\ [Next]_vars => PathInv'
<1> SUFFICES ASSUME TypeOK, PathInv, [Next]_vars PROVE PathInv'
  OBVIOUS
<1> DEFINE n == Len(stack)
<1>0. design' = design
  BY DEF Next, StampTop, StampRows, CutRecursion, EnterChildren,
         StampChildModule, StampConns, StampUnresolved, Return, StampPackage,
         ResolveRef, CrossDep, Advance, vars
<1> USE DEF PathInv
<1>1. CASE UNCHANGED <<stack, onPath>>
  BY <1>0, <1>1 DEF Due, Suspended, Held, HeldOnce, InChildren, BodyOf
\* A step of the innermost occurrence that neither begins nor ends children.
<1>2. ASSUME stack # <<>>, NEW f \in Frame, stack' = Replace(f),
             f.tpl = Top.tpl, f.stage # "conns",
             f.stage = "kids" <=> InChildren(n), onPath' = onPath
      PROVE  PathInv'
  <2>1. /\ Len(stack') = n /\ n \in Nat \ {0} /\ stack'[n] = f
        /\ \A i \in 1..(n - 1) : stack'[i] = stack[i]
    BY <1>2, ReplaceTop, TopType DEF TypeOK
  <2>2. \A i \in 1..n : InChildren(i)' <=> InChildren(i)
    BY <1>2, <2>1 DEF InChildren
  <2>3. \A i \in 1..n : stack'[i].tpl = stack[i].tpl
    BY <1>2, <2>1 DEF Top
  <2>4. Due'
    BY <1>0, <1>2, <2>1 DEF Due, BodyOf
  <2>5. Suspended'
    BY <2>1 DEF Suspended
  <2>6. Held'
    <3>1. {j \in 1..Len(stack) : InChildren(j)}'
            = {j \in 1..n : InChildren(j)}
      BY <2>1, <2>2
    <3> QED
      BY <1>2, <2>3, <3>1 DEF Held
  <2>7. HeldOnce'
    BY <2>1, <2>2, <2>3 DEF HeldOnce
  <2> QED
    BY <2>4, <2>5, <2>6, <2>7
\* The innermost occurrence returns to the one that waits for it.
<1>3. ASSUME stack # <<>>, stack' = Pop,
             onPath' = {stack[i].tpl : i \in 1..(n - 1)}
      PROVE  PathInv'
  <2>1. /\ Len(stack') = n - 1 /\ n \in Nat \ {0}
        /\ \A i \in 1..(n - 1) : stack'[i] = stack[i]
    BY <1>3, PopTop, TopType DEF TypeOK
  <2>2. \A i \in 1..(n - 1) : InChildren(i) /\ InChildren(i)'
    BY <1>3, <2>1, Below DEF InChildren
  <2>3. Due' /\ Suspended'
    BY <1>0, <2>1 DEF Due, Suspended, BodyOf
  <2>4. Held'
    <3>1. {j \in 1..Len(stack) : InChildren(j)}' = 1..(n - 1)
      BY <2>1, <2>2
    <3> QED
      BY <1>3, <2>1, <3>1 DEF Held
  <2>5. HeldOnce'
    BY <2>1, <2>2 DEF HeldOnce
  <2> QED
    BY <2>3, <2>4, <2>5
<1>4. CASE StampTop
  <2> DEFINE g == NewFrame(design.tops[cursor + 1].tpl, last["node"] + 1, {})
  <2>1. stack = <<>> /\ stack' = <<g>> /\ onPath' = onPath
    BY <1>4 DEF StampTop
  <2>2. g.stage = "rows"
    BY DEF NewFrame
  <2>3. onPath = {}
    BY <2>1 DEF Held
  <2>4. Len(stack') = 1 /\ stack'[1].stage = "rows"
    BY <2>1, <2>2
  <2> HIDE DEF g
  <2>5. \A j \in 1..Len(stack') : ~InChildren(j)'
    BY <2>4 DEF InChildren
  <2>6. Held'
    BY <2>1, <2>3, <2>5 DEF Held
  <2> QED
    BY <2>4, <2>5, <2>6 DEF Due, Suspended, HeldOnce
<1>5. CASE StampRows
  <2> DEFINE f == [Top EXCEPT !.stage = "guard",
                              !.base = [tab \in Reserved |-> last[tab]],
                              !.scopeBase = last["node"]]
  <2>1. stack # <<>> /\ Top \in Frame /\ Top.stage = "rows"
    BY <1>5, TopType DEF StampRows, At, TypeOK
  <2>2. [tab \in Reserved |-> last[tab]] \in [Reserved -> Nat]
        /\ last["node"] \in Nat
    BY DEF TypeOK, Counter
  <2>3. f \in Frame /\ f.tpl = Top.tpl /\ f.stage = "guard"
    BY <2>1, <2>2 DEF Frame
  <2>4. stack' = Replace(f) /\ onPath' = onPath
    BY <1>5 DEF StampRows
  <2>5. ~InChildren(n)
    BY <2>1 DEF InChildren, Top
  <2> HIDE DEF f
  <2> QED
    BY <1>2, <2>1, <2>3, <2>4, <2>5
<1>6. CASE CutRecursion
  <2>1. stack # <<>> /\ Top.stage = "guard" /\ stack' = Pop /\ onPath' = onPath
    BY <1>6 DEF CutRecursion, At
  <2>2. ~InChildren(n)
    BY <2>1 DEF InChildren, Top
  <2> QED
    BY <1>3, <2>1, <2>2, Below
<1>7. CASE EnterChildren
  <2> DEFINE f == [Top EXCEPT !.stage = "kids", !.childBase = last["node"]]
  <2>1. /\ stack # <<>> /\ Top \in Frame /\ Top.stage = "guard"
        /\ Top.tpl \notin onPath
    BY <1>7, TopType DEF EnterChildren, At, Recurses, TypeOK
  <2>2. f \in Frame /\ f.tpl = Top.tpl /\ f.stage = "kids"
    BY <2>1 DEF Frame, TypeOK, Counter
  <2>3. stack' = Replace(f) /\ onPath' = onPath \cup {Top.tpl}
    BY <1>7 DEF EnterChildren
  <2> HIDE DEF f
  <2>4. ~InChildren(n)
    BY <2>1 DEF InChildren, Top
  <2>5. /\ Len(stack') = n /\ n \in Nat \ {0} /\ stack'[n] = f
        /\ \A i \in 1..(n - 1) : stack'[i] = stack[i]
    BY <2>1, <2>2, <2>3, ReplaceTop, TopType DEF TypeOK
  <2>6. onPath = {stack[i].tpl : i \in 1..(n - 1)}
    BY <2>1, <2>4, Below
  <2>7. \A i \in 1..n : InChildren(i)'
    BY <2>1, <2>2, <2>5, Below DEF InChildren
  <2>8. Due' /\ Suspended'
    BY <1>0, <2>2, <2>5 DEF Due, Suspended, BodyOf
  <2>9. \A i \in 1..(n - 1) : stack'[i].tpl # stack'[n].tpl
    BY <2>1, <2>2, <2>5, <2>6
  <2>10. Held'
    <3>1. {j \in 1..Len(stack) : InChildren(j)}' = 1..n
      BY <2>5, <2>7
    <3>2. {stack'[i].tpl : i \in 1..n}
            = {stack[i].tpl : i \in 1..(n - 1)} \cup {Top.tpl}
      <4>1. 1..n = 1..(n - 1) \cup {n}
        BY <2>5
      <4> QED
        BY <2>2, <2>5, <4>1
    <3> QED
      BY <2>3, <2>6, <3>1, <3>2 DEF Held
  <2>11. HeldOnce'
    <3> SUFFICES ASSUME NEW i \in 1..n, NEW j \in 1..n,
                        stack'[i].tpl = stack'[j].tpl
                 PROVE  i = j
      BY <2>5 DEF HeldOnce
    <3>1. CASE i = n \/ j = n
      BY <2>5, <2>9, <3>1
    <3>2. CASE i # n /\ j # n
      <4>1. i \in 1..(n - 1) /\ j \in 1..(n - 1)
        BY <2>5, <3>2
      <4> QED
        BY <2>1, <2>5, <4>1, Below DEF HeldOnce
    <3> QED
      BY <3>1, <3>2
  <2> QED
    BY <2>8, <2>10, <2>11
<1>8. CASE StampChildModule
  <2> DEFINE f == [Top EXCEPT !.stage = "conns", !.termBase = last["term"]]
             g == NewFrame(NextChild.tpl, ChildId, BindOf(Top, NextChild))
  <2>1. /\ stack # <<>> /\ Top \in Frame /\ Top.stage = "kids"
        /\ Top.next <= Len(BodyOf(Top.tpl).children)
    BY <1>8, TopType DEF StampChildModule, ChildDue, At, TypeOK
  <2>2. /\ f \in Frame /\ f.tpl = Top.tpl /\ f.stage = "conns"
        /\ f.next = Top.next
    BY <2>1 DEF Frame, TypeOK, Counter, Reserved
  <2>3. stack' = Append(Replace(f), g) /\ onPath' = onPath
    BY <1>8 DEF StampChildModule
  <2>4. g.stage = "rows"
    BY DEF NewFrame
  <2> HIDE DEF f, g
  <2>5. /\ Len(stack') = n + 1 /\ n \in Nat \ {0}
        /\ stack'[n] = f /\ stack'[n + 1] = g
        /\ \A i \in 1..(n - 1) : stack'[i] = stack[i]
    <3>1. /\ Replace(f) \in Seq(Frame) /\ Len(Replace(f)) = n
          /\ Replace(f)[n] = f /\ n \in Nat \ {0}
          /\ \A i \in 1..(n - 1) : Replace(f)[i] = stack[i]
      BY <2>1, <2>2, ReplaceTop, TopType DEF TypeOK
    <3> QED
      BY <2>3, <3>1
  <2>6. InChildren(n)
    BY <2>1 DEF InChildren, Top
  <2>7. \A i \in 1..n : InChildren(i) /\ InChildren(i)'
    BY <2>1, <2>2, <2>5, <2>6, Below DEF InChildren
  <2>8. \A i \in 1..(n + 1) : InChildren(i)' <=> i \in 1..n
    <3>1. \A i \in 1..(n + 1) : i \in 1..n \/ i = n + 1
      BY <2>5
    <3>2. \A i \in 1..(n + 1) : i = n + 1 => ~InChildren(i)' /\ i \notin 1..n
      BY <2>4, <2>5 DEF InChildren
    <3> QED
      BY <2>7, <3>1, <3>2
  <2>9. \A i \in 1..n : stack'[i].tpl = stack[i].tpl
    BY <2>2, <2>5 DEF Top
  <2>10. Suspended'
    BY <2>2, <2>5 DEF Suspended
  <2>11. Due'
    BY <1>0, <2>1, <2>2, <2>4, <2>5 DEF Due, BodyOf
  <2>12. Held'
    <3>1. {j \in 1..Len(stack) : InChildren(j)}' = 1..n
      BY <2>5, <2>8
    <3>2. onPath = {stack[i].tpl : i \in 1..n}
      BY <2>1, <2>6, Below
    <3> QED
      BY <2>3, <2>9, <3>1, <3>2 DEF Held
  <2>13. HeldOnce'
    <3> SUFFICES ASSUME NEW i \in 1..n, NEW j \in 1..n,
                        stack'[i].tpl = stack'[j].tpl
                 PROVE  i = j
      BY <2>5, <2>8 DEF HeldOnce
    <3> QED
      BY <2>7, <2>9 DEF HeldOnce
  <2> QED
    BY <2>10, <2>11, <2>12, <2>13
<1>9. CASE StampConns \/ StampUnresolved
  <2>1. /\ stack # <<>> /\ Top \in Frame /\ Top.stage \in {"kids", "conns"}
        /\ onPath' = onPath
    BY <1>9, TopType DEF StampConns, StampUnresolved, ChildDue, At, TypeOK
  <2>2. PICK f \in Frame :
          stack' = Replace(f) /\ f.tpl = Top.tpl /\ f.stage = "kids"
    <3>1. CASE StampConns
      <4> DEFINE f == [Top EXCEPT !.stage = "kids", !.next = @ + 1]
      <4>1. f \in Frame /\ f.tpl = Top.tpl /\ f.stage = "kids"
        BY <2>1, NextFrameType DEF Frame
      <4>2. stack' = Replace(f)
        BY <3>1 DEF StampConns
      <4> HIDE DEF f
      <4> QED
        BY <4>1, <4>2
    <3>2. CASE StampUnresolved
      <4> DEFINE f == [Top EXCEPT !.next = @ + 1]
      <4>1. f \in Frame /\ f.tpl = Top.tpl /\ f.stage = "kids"
        BY <2>1, <3>2, NextFrameType DEF Frame, StampUnresolved, ChildDue, At
      <4>2. stack' = Replace(f)
        BY <3>2 DEF StampUnresolved
      <4> HIDE DEF f
      <4> QED
        BY <4>1, <4>2
    <3> QED
      BY <1>9, <3>1, <3>2
  <2>3. InChildren(n)
    BY <2>1 DEF InChildren, Top
  <2> QED
    BY <1>2, <2>1, <2>2, <2>3
<1>10. CASE Return
  <2>1. /\ stack # <<>> /\ Top.stage = "kids" /\ stack' = Pop
        /\ onPath' = onPath \ {Top.tpl}
    BY <1>10 DEF Return, At
  <2>2. InChildren(n)
    BY <2>1 DEF InChildren, Top
  <2> QED
    BY <1>3, <2>1, <2>2, Below
<1>11. CASE StampPackage \/ ResolveRef \/ CrossDep \/ Advance \/ UNCHANGED vars
  <2>1. UNCHANGED <<stack, onPath>>
    BY <1>11 DEF StampPackage, ResolveRef, CrossDep, Advance, vars
  <2> QED
    BY <1>1, <2>1
<1> QED
  BY <1>4, <1>5, <1>6, <1>7, <1>8, <1>9, <1>10, <1>11 DEF Next

-----------------------------------------------------------------------------
(* The stack holds a template at most once, so it is no deeper than there  *)
(* are templates, and the innermost occurrence besides.                    *)

LEMMA DepthBound ==
    ASSUME TypeOK, PathInv, IsFiniteSet(Tpl)
    PROVE  Len(stack) <= Cardinality(Tpl) + 1
<1>1. CASE stack = <<>>
  BY <1>1, FS_CardinalityType
<1>2. CASE stack # <<>>
  <2> DEFINE below == 1..(Len(stack) - 1)
             tplOf == [i \in below |-> stack[i].tpl]
  <2>1. Len(stack) \in Nat \ {0} /\ \A i \in below : InChildren(i)
    BY <1>2, Below
  <2>2. tplOf \in [below -> Tpl]
    <3>1. \A i \in below : stack[i] \in Frame
      BY <2>1, ElementType DEF TypeOK
    <3> QED
      BY <3>1 DEF Frame
  <2>3. \A i, j \in below : tplOf[i] = tplOf[j] => i = j
    BY <2>1 DEF PathInv, HeldOnce
  <2>4. tplOf \in Injection(below, Tpl)
    BY <2>2, <2>3 DEF Injection, IsInjective
  <2>5. Cardinality(below) <= Cardinality(Tpl)
    BY <2>4, FS_Injection
  <2>6. Cardinality(below) = Len(stack) - 1
    BY <2>1, FS_Interval
  <2>7. Cardinality(Tpl) \in Nat
    BY FS_CardinalityType
  <2> QED
    BY <2>1, <2>5, <2>6, <2>7
<1> QED
  BY <1>1, <1>2

LEMMA Inductive == Spec => [](TypeOK /\ PathInv)
<1>1. PathInv => Due
  BY DEF PathInv
<1>2. TypeOK /\ PathInv /\ [Next]_vars => (TypeOK /\ PathInv)'
  BY <1>1, TypeStep, PathStep
<1> QED
  BY TypeInit, PathInit, <1>2, PTL DEF Spec

(* The stamping's control state keeps its type for every design.           *)
THEOREM TypeCorrect == Spec => []TypeOK
  BY Inductive, PTL

(* For every design over finitely many templates, recursive ones included, *)
(* the guard holds exactly the templates of the occurrences whose children *)
(* are being stamped, no template is entered again below itself, and the   *)
(* recursion is no deeper than there are templates, plus one.              *)
THEOREM PathHeld == ASSUME IsFiniteSet(Tpl) PROVE Spec => []PathDistinct
<1>1. TypeOK /\ PathInv => PathDistinct
  BY DepthBound DEF PathInv, Held, HeldOnce, PathDistinct
<1> QED
  BY Inductive, <1>1, PTL

-----------------------------------------------------------------------------
(* Blocks of ids.                                                          *)

Distinct(table) == \A r, s \in table : r.id = s.id => r = s

\* The rows of a table have the ids after a up to b, each once.
Block(table, a, b) == Ids(table) = (a + 1)..b /\ Distinct(table)

LEMMA UpTo ==
    ASSUME NEW n \in Nat
    PROVE  IsFiniteSet(1..n) /\ Cardinality(1..n) = n
<1>1. 1 \in Int /\ n \in Int
  OBVIOUS
<1>2. IsFiniteSet(1..n) /\ Cardinality(1..n) = IF 1 > n THEN 0 ELSE n - 1 + 1
  BY <1>1, FS_Interval
<1>3. (IF 1 > n THEN 0 ELSE n - 1 + 1) = n
  OBVIOUS
<1> QED
  BY <1>2, <1>3

LEMMA Plus ==
    ASSUME NEW a \in Nat, NEW c \in Nat, NEW d \in Nat
    PROVE  (a + c) + d = a + (c + d)
  OBVIOUS

LEMMA BlockIsDense ==
    ASSUME NEW table, NEW n \in Nat, Block(table, 0, n)
    PROVE  IsDense(table, n)
<1> DEFINE f == [r \in table |-> r.id]
<1>1. f \in [table -> 1..n]
  BY DEF Block, Ids
<1>2. f \in Injection(table, 1..n)
  BY <1>1 DEF Block, Distinct, Injection, IsInjective
<1>3. f \in Surjection(table, 1..n)
  <2>1. \A i \in 1..n : \E r \in table : f[r] = i
    <3>1. TAKE i \in 1..n
    <3>2. i \in Ids(table)
      BY DEF Block
    <3> QED
      BY <3>2 DEF Ids
  <2> QED
    BY <1>1, <2>1 DEF Surjection
<1>4. IsFiniteSet(1..n) /\ Cardinality(1..n) = n
  BY UpTo
<1> HIDE DEF f
<1>5. Cardinality(table) = Cardinality(1..n)
  BY <1>2, <1>3, <1>4, FS_Injection
<1> QED
  BY <1>4, <1>5 DEF IsDense, Block

LEMMA BlockGrows ==
    ASSUME NEW t, NEW u, NEW a \in Nat, NEW b \in Nat, NEW c \in Nat,
           a <= b, b <= c, Block(t, a, b), Block(u, b, c)
    PROVE  Block(t \cup u, a, c)
<1>1. Ids(t \cup u) = Ids(t) \cup Ids(u)
  BY DEF Ids
<1>2. Ids(t \cup u) = (a + 1)..c
  <2>1. (a + 1)..c = ((a + 1)..b) \cup ((b + 1)..c)
    OBVIOUS
  <2> QED
    BY <1>1, <2>1 DEF Block
<1>3. \A r \in t, s \in u : r.id # s.id
  <2>1. \A r \in t, s \in u : r.id \in (a + 1)..b /\ s.id \in (b + 1)..c
    BY DEF Block, Ids
  <2> QED
    BY <2>1
<1>4. Distinct(t \cup u)
  BY <1>3 DEF Block, Distinct
<1> QED
  BY <1>2, <1>4 DEF Block

LEMMA NoBlock == ASSUME NEW n \in Nat PROVE Block({}, n, n)
  BY DEF Block, Ids, Distinct

-----------------------------------------------------------------------------
(* Places in a set of indices.                                             *)

\* Counting the indices up to each one numbers them 1, 2, ...
LEMMA RankCounts ==
    ASSUME NEW n \in Nat, NEW S \in SUBSET (1..n)
    PROVE  /\ Cardinality(S) \in Nat
           /\ \A i \in S : Rank(S, i) \in 1..Cardinality(S)
           /\ \A i, j \in S : Rank(S, i) = Rank(S, j) => i = j
           /\ \A k \in 1..Cardinality(S) : \E i \in S : Rank(S, i) = k
<1> DEFINE upto(i) == {j \in S : j <= i}
           f == [i \in S |-> Rank(S, i)]
<1>1. IsFiniteSet(S) /\ Cardinality(S) \in Nat
  BY UpTo, FS_Subset, FS_CardinalityType
<1>2. \A i \in S : IsFiniteSet(upto(i)) /\ Cardinality(upto(i)) \in Nat
  <2>1. \A i \in S : IsFiniteSet(upto(i))
    BY <1>1, FS_Subset
  <2> QED
    BY <2>1, FS_CardinalityType
<1>3. \A i \in S : Rank(S, i) = Cardinality(upto(i))
  BY DEF Rank
<1>4. \A i \in S : Rank(S, i) \in 1..Cardinality(S)
  <2>1. TAKE i \in S
  <2>2. Cardinality(upto(i)) <= Cardinality(S)
    BY <1>1, FS_Subset
  <2>3. Cardinality(upto(i)) # 0
    <3>1. i \in upto(i)
      BY S \subseteq 1..n
    <3> QED
      BY <1>2, <3>1, FS_EmptySet
  <2> QED
    BY <1>1, <1>2, <1>3, <2>2, <2>3
<1>5. ASSUME NEW i \in S, NEW j \in S, i < j
      PROVE  Rank(S, i) # Rank(S, j)
  <2>1. upto(i) \in SUBSET upto(j) /\ j \in upto(j) /\ j \notin upto(i)
    <3>1. i \in 1..n /\ j \in 1..n /\ \A k \in S : k \in 1..n
      OBVIOUS
    <3>2. \A k \in S : k <= i => k <= j
      BY <1>5, <3>1
    <3>3. j <= j /\ ~(j <= i)
      BY <1>5, <3>1
    <3>4. upto(i) \in SUBSET upto(j)
      BY <3>2
    <3> QED
      BY <3>3, <3>4
  <2>2. Cardinality(upto(i)) # Cardinality(upto(j))
    BY <1>2, <2>1, FS_Subset
  <2> QED
    BY <1>3, <2>2
<1>6. \A i, j \in S : Rank(S, i) = Rank(S, j) => i = j
  <2>1. \A i, j \in S : i < j \/ j < i \/ i = j
    OBVIOUS
  <2> QED
    BY <1>5, <2>1
<1>7. f \in Injection(S, 1..Cardinality(S))
  BY <1>4, <1>6 DEF Injection, IsInjective
<1>8. f \in Surjection(S, 1..Cardinality(S))
  <2> HIDE DEF f
  <2>1. IsFiniteSet(1..Cardinality(S)) /\ Cardinality(1..Cardinality(S)) = Cardinality(S)
    BY <1>1, UpTo
  <2> QED
    BY <1>7, <2>1, FS_Injection
<1>9. \A k \in 1..Cardinality(S) : \E i \in S : Rank(S, i) = k
  BY <1>8 DEF Surjection
<1> QED
  BY <1>1, <1>4, <1>6, <1>9

\* The indices in order are the indices.
LEMMA OrderIsAll ==
    ASSUME NEW n \in Nat, NEW S \in SUBSET (1..n)
    PROVE  /\ InOrder(S) \in Seq(S)
           /\ \A i \in S : \E k \in 1..Len(InOrder(S)) : InOrder(S)[k] = i
           /\ \A j, k \in 1..Len(InOrder(S)) : InOrder(S)[j] = InOrder(S)[k] => j = k
<1>1. Cardinality(S) \in Nat
  BY RankCounts
<1>2. \A k \in 1..Cardinality(S) : InOrder(S)[k] \in S /\ Rank(S, InOrder(S)[k]) = k
  BY RankCounts DEF InOrder
<1>3. InOrder(S) \in Seq(S) /\ Len(InOrder(S)) = Cardinality(S)
  BY <1>1, <1>2 DEF InOrder
<1>4. ASSUME NEW i \in S
      PROVE  \E k \in 1..Cardinality(S) : InOrder(S)[k] = i
  <2>1. Rank(S, i) \in 1..Cardinality(S)
    BY RankCounts
  <2>2. Rank(S, InOrder(S)[Rank(S, i)]) = Rank(S, i)
    BY <1>2, <2>1
  <2> QED
    BY <1>2, <2>1, <2>2, RankCounts
<1>5. \A j, k \in 1..Cardinality(S) : InOrder(S)[j] = InOrder(S)[k] => j = k
  BY <1>2
<1> QED
  BY <1>3, <1>4, <1>5

\* Rows numbered one after the other, and rows numbered by their places.
LEMMA Numbered ==
    ASSUME NEW n \in Nat, NEW a \in Nat, NEW row, \A i \in 1..n : row[i].id = a + i
    PROVE  Block({row[i] : i \in 1..n}, a, a + n)
<1> DEFINE new == {row[i] : i \in 1..n}
<1>1. Ids(new) = {a + i : i \in 1..n}
  BY DEF Ids
<1>2. {a + i : i \in 1..n} = (a + 1)..(a + n)
  <2>1. \A k \in (a + 1)..(a + n) : k - a \in 1..n /\ k = a + (k - a)
    OBVIOUS
  <2> QED
    BY <2>1
<1>3. Distinct(new)
  BY DEF Distinct
<1> QED
  BY <1>1, <1>2, <1>3 DEF Block

LEMMA NumberedByRank ==
    ASSUME NEW n \in Nat, NEW S \in SUBSET (1..n), NEW a \in Nat, NEW row,
           \A i \in S : row[i].id = a + Rank(S, i)
    PROVE  Block({row[i] : i \in S}, a, a + Cardinality(S))
<1> DEFINE new == {row[i] : i \in S}
           m == Cardinality(S)
<1>1. m \in Nat /\ \A i \in S : Rank(S, i) \in 1..m
  BY RankCounts
<1>2. Ids(new) = (a + 1)..(a + m)
  <2>1. \A r \in new : r.id \in (a + 1)..(a + m)
    BY <1>1
  <2>2. ASSUME NEW k \in (a + 1)..(a + m)
        PROVE  \E r \in new : r.id = k
    <3>1. k - a \in 1..m
      BY <1>1
    <3>2. PICK i \in S : Rank(S, i) = k - a
      BY <3>1, RankCounts
    <3>3. row[i].id = a + (k - a)
      BY <3>2
    <3> QED
      BY <3>3
  <2> QED
    BY <2>1, <2>2 DEF Ids
<1>3. Distinct(new)
  <2>1. ASSUME NEW i \in S, NEW j \in S, row[i].id = row[j].id
        PROVE  i = j
    <3>1. Rank(S, i) = Rank(S, j)
      BY <1>1, <2>1
    <3> QED
      BY <3>1, RankCounts
  <2> QED
    BY <2>1 DEF Distinct
<1> QED
  BY <1>2, <1>3 DEF Block

-----------------------------------------------------------------------------
(* What the steps do, piece by piece.                                      *)

\* The innermost occurrence and its template, and the child it is at.
LEMMA TopBody ==
    ASSUME TypeOK, stack # <<>>
    PROVE  /\ Top \in Frame /\ Top.tpl \in Tpl
           /\ BodyOf(Top.tpl) \in Body
           /\ Len(stack) \in Nat \ {0} /\ Top = stack[Len(stack)]
  BY TopType, BodyType DEF TypeOK, Frame, Top

LEMMA NextChildType ==
    ASSUME TypeOK, stack # <<>>, Top.next <= Len(BodyOf(Top.tpl).children)
    PROVE  /\ NextChild \in Child /\ ChildId \in Nat
           /\ Len(NextChild.conns) \in Nat /\ NextChild.ports \in Nat
           /\ Top.next \in 1..Len(BodyOf(Top.tpl).children)
<1>1. /\ BodyOf(Top.tpl) \in Body /\ Top.next \in Nat \ {0}
      /\ Top.childBase \in Nat
  BY TopBody DEF Frame
<1>2. /\ Top.next \in 1..Len(BodyOf(Top.tpl).children)
      /\ NextChild \in Child
  BY <1>1, BodyParts DEF NextChild
<1> QED
  BY <1>1, <1>2 DEF ChildId, Child

\* The child of an occurrence that waits is one it has.
LEMMA WaitsForChild ==
    ASSUME TypeOK, PathInv, At("conns")
    PROVE  Top.next <= Len(BodyOf(Top.tpl).children)
  BY TopBody DEF At, PathInv, Due

\* The next top and the next package.
LEMMA TopInstType ==
    ASSUME TypeOK, StampTop
    PROVE  design.tops[cursor + 1] \in [name : Name, tpl : Tpl]
<1>1. design.tops \in Seq([name : Name, tpl : Tpl])
  BY DesignsTyped DEF Design, TypeOK
<1>2. cursor + 1 \in 1..Len(design.tops)
  BY <1>1 DEF StampTop, TypeOK
<1> QED
  BY <1>1, <1>2, ElementType

LEMMA PackageType ==
    ASSUME TypeOK, StampPackage
    PROVE  Len(design.packages[cursor + 1].nets) \in Nat
<1>1. design.packages \in Seq([name : Name, nets : Seq(Name)])
  BY DesignsTyped DEF Design, TypeOK
<1>2. cursor + 1 \in 1..Len(design.packages)
  BY <1>1 DEF StampPackage, TypeOK
<1>3. design.packages[cursor + 1] \in [name : Name, nets : Seq(Name)]
  BY <1>1, <1>2, ElementType
<1> QED
  BY <1>3

\* The frame StampRows leaves.
Stamped == [Top EXCEPT !.stage = "guard",
                       !.base = [tab \in Reserved |-> last[tab]],
                       !.scopeBase = last["node"]]

LEMMA StampedType ==
    ASSUME TypeOK, stack # <<>>
    PROVE  /\ Stamped \in Frame
           /\ Stamped.stage = "guard" /\ Stamped.tpl = Top.tpl
           /\ Stamped.inst = Top.inst /\ Stamped.bind = Top.bind
           /\ Stamped.next = Top.next /\ Stamped.scopeBase = last["node"]
           /\ Stamped.base \in [Reserved -> Nat]
           /\ \A tab \in Reserved : Stamped.base[tab] = last[tab]
<1>1. [tab \in Reserved |-> last[tab]] \in [Reserved -> Nat] /\ last["node"] \in Nat
  BY DEF TypeOK, Counter
<1> QED
  BY <1>1, TopBody DEF Stamped, Frame

NetRows(f, b) == {[id |-> f.base["net"] + i, inst |-> f.inst,
                   name |-> b.nets[i]] : i \in 1..Len(b.nets)}
TermRows(f, b) == {[id |-> f.base["term"] + i, inst |-> f.inst] : i \in 1..b.terms}
PlainRows(f, b, tab) == {Moved(f, tab, i) : i \in 1..Len(b.rows[tab])}
DepRows(f, b) == {InlineDep(f, i) : i \in Inline(b)}
RefJobs(f, b) == [i \in 1..Len(b.refs) |->
                    [id |-> f.base["ref"] + i, inst |-> f.inst, tpl |-> f.tpl,
                     idx |-> i, bind |-> f.bind]]
Queued(b) == InOrder((1..Len(b.deps)) \ Inline(b))
DepJobs(f, b) == [i \in 1..Len(Queued(b)) |->
                    [tpl |-> f.tpl, idx |-> Queued(b)[i], base |-> f.base,
                     inst |-> f.inst]]

LEMMA RowsStamped ==
    ASSUME TypeOK, StampRows, NEW b, b = BodyOf(Top.tpl)
    PROVE  /\ stack # <<>> /\ Top.stage = "rows" /\ b \in Body
           /\ phase = "tree"
           /\ stack' = Replace(Stamped)
           /\ \A tab \in Reserved : last'[tab] = last[tab] + Size(b, tab)
           /\ last'["node"] = last["node"] + (Len(b.scopes) + Len(b.prims))
           /\ last'["conn"] = last["conn"]
           /\ tree' = tree \cup BodyNodes(Stamped, b)
           /\ net' = net \cup NetRows(Stamped, b)
           /\ term' = term \cup TermRows(Stamped, b)
           /\ \A tab \in Plain : rows'[tab] = rows[tab] \cup PlainRows(Stamped, b, tab)
           /\ dep' = dep \cup DepRows(Stamped, b)
           /\ replayJobs' = replayJobs \o RefJobs(Stamped, b)
           /\ crossJobs' = crossJobs \o DepJobs(Stamped, b)
           /\ nodeTemplate' =
                [i \in DOMAIN nodeTemplate \cup {Top.inst} |->
                   IF i = Top.inst THEN [tpl |-> Top.tpl, net |-> last["net"]]
                   ELSE nodeTemplate[i]]
           /\ UNCHANGED <<design, phase, cursor, onPath, inst, conn, ref,
                          packageByName>>
<1>1. /\ stack # <<>> /\ Top.stage = "rows" /\ phase = "tree"
      /\ UNCHANGED <<design, phase, cursor, onPath, inst, conn, ref, packageByName>>
  BY DEF StampRows, At
<1>2. b \in Body
  BY <1>1, TopBody
<1>3. /\ stack' = Replace(Stamped)
      /\ tree' = tree \cup BodyNodes(Stamped, b)
      /\ net' = net \cup NetRows(Stamped, b)
      /\ term' = term \cup TermRows(Stamped, b)
      /\ dep' = dep \cup DepRows(Stamped, b)
  BY DEF StampRows, Stamped, NetRows, TermRows, DepRows
<1>4. /\ replayJobs' = replayJobs \o RefJobs(Stamped, b)
      /\ crossJobs' = crossJobs \o DepJobs(Stamped, b)
  BY DEF StampRows, Stamped, RefJobs, DepJobs, Queued
<1>5. last' = [c \in Counter |->
                 CASE c \in Reserved -> last[c] + Size(b, c)
                   [] c = "node" -> last[c] + Len(b.scopes) + Len(b.prims)
                   [] OTHER -> last[c]]
  <2>1. last' = [c \in Counter |->
                   CASE c \in Reserved -> last[c] + Size(BodyOf(Top.tpl), c)
                     [] c = "node" -> last[c] + Len(BodyOf(Top.tpl).scopes)
                                        + Len(BodyOf(Top.tpl).prims)
                     [] OTHER -> last[c]]
    BY DEF StampRows
  <2> QED
    BY <2>1
<1>6. /\ "node" \in Counter /\ "conn" \in Counter /\ Reserved \subseteq Counter
      /\ "node" \notin Reserved /\ "conn" \notin Reserved
  BY PlainTyped DEF Counter, Reserved
<1>7. /\ \A tab \in Reserved : last'[tab] = last[tab] + Size(b, tab)
      /\ last'["node"] = last["node"] + Len(b.scopes) + Len(b.prims)
      /\ last'["conn"] = last["conn"]
  BY <1>5, <1>6
<1>8. last'["node"] = last["node"] + (Len(b.scopes) + Len(b.prims))
  <2>1. last["node"] \in Nat /\ Len(b.scopes) \in Nat /\ Len(b.prims) \in Nat
    BY <1>2, <1>6, BodyParts DEF TypeOK
  <2> QED
    BY <1>7, <2>1, Plus
<1>9. rows' = [tab \in Plain |-> rows[tab] \cup PlainRows(Stamped, b, tab)]
  BY DEF StampRows, Stamped, PlainRows
<1>10. nodeTemplate' =
         [i \in DOMAIN nodeTemplate \cup {Top.inst} |->
            IF i = Top.inst THEN [tpl |-> Top.tpl, net |-> last["net"]]
            ELSE nodeTemplate[i]]
  <2>1. /\ Stamped.inst = Top.inst /\ Stamped.tpl = Top.tpl
        /\ Stamped.base["net"] = last["net"]
    BY <1>1, StampedType DEF Reserved
  <2>2. nodeTemplate' =
          [i \in DOMAIN nodeTemplate \cup {Stamped.inst} |->
             IF i = Stamped.inst
             THEN [tpl |-> Stamped.tpl, net |-> Stamped.base["net"]]
             ELSE nodeTemplate[i]]
    BY DEF StampRows, Stamped
  <2> HIDE DEF Stamped
  <2> QED
    BY <2>1, <2>2
<1> QED
  BY <1>1, <1>2, <1>3, <1>4, <1>7, <1>8, <1>9, <1>10

\* The rows of one occurrence fill the blocks reserved for it.
LEMMA RowsFillBlocks ==
    ASSUME TypeOK, stack # <<>>, NEW b, b = BodyOf(Top.tpl),
           NEW f, f = Stamped
    PROVE  /\ Block(NetRows(f, b), last["net"], last["net"] + Size(b, "net"))
           /\ Block(TermRows(f, b), last["term"], last["term"] + Size(b, "term"))
           /\ Block(DepRows(f, b), last["dep"], last["dep"] + Size(b, "dep"))
           /\ \A tab \in Plain :
                Block(PlainRows(f, b, tab), last[tab], last[tab] + Size(b, tab))
<1>1. /\ b \in Body /\ f \in Frame /\ f.tpl = Top.tpl
      /\ \A tab \in Reserved : f.base[tab] = last[tab] /\ last[tab] \in Nat
  <2>1. \A tab \in Reserved : last[tab] \in Nat
    BY DEF TypeOK, Counter
  <2> QED
    BY <2>1, TopBody, StampedType
<1>2. /\ "net" \in Reserved /\ "term" \in Reserved /\ "dep" \in Reserved
      /\ Plain \subseteq Reserved
  BY DEF Reserved
<1>3. \A tab \in Reserved : Size(b, tab) \in Nat
  BY <1>1, SizeType
<1>4. /\ Size(b, "net") = Len(b.nets) /\ Size(b, "term") = b.terms
      /\ Size(b, "dep") = Cardinality(Inline(b))
      /\ \A tab \in Plain : Size(b, tab) = Len(b.rows[tab])
  BY PlainTyped DEF Size
<1>5. Block(NetRows(f, b), last["net"], last["net"] + Size(b, "net"))
  <2> DEFINE row == [i \in 1..Len(b.nets) |->
                       [id |-> f.base["net"] + i, inst |-> f.inst, name |-> b.nets[i]]]
  <2>1. NetRows(f, b) = {row[i] : i \in 1..Len(b.nets)}
    BY DEF NetRows
  <2>2. \A i \in 1..Len(b.nets) : row[i].id = last["net"] + i
    BY <1>1, <1>2
  <2> HIDE DEF row
  <2>8. last["net"] \in Nat /\ Len(b.nets) \in Nat
    BY <1>1, <1>2, <1>3, <1>4
  <2>9. Block({row[i] : i \in 1..Len(b.nets)}, last["net"], last["net"] + Len(b.nets))
    BY <2>2, <2>8, Numbered
  <2> QED
    BY <1>4, <2>1, <2>9
<1>6. Block(TermRows(f, b), last["term"], last["term"] + Size(b, "term"))
  <2> DEFINE n == b.terms
             row == [i \in 1..n |-> [id |-> f.base["term"] + i, inst |-> f.inst]]
  <2>1. TermRows(f, b) = {row[i] : i \in 1..n}
    BY DEF TermRows
  <2>2. \A i \in 1..n : row[i].id = last["term"] + i
    BY <1>1, <1>2
  <2>3. last["term"] \in Nat /\ n \in Nat
    BY <1>1, <1>2, <1>3, <1>4
  <2>4. n = Size(b, "term")
    BY <1>4
  <2> HIDE DEF row, n
  <2>5. Block({row[i] : i \in 1..n}, last["term"], last["term"] + n)
    BY <2>2, <2>3, Numbered
  <2> QED
    BY <2>1, <2>4, <2>5
<1>7. Block(DepRows(f, b), last["dep"], last["dep"] + Size(b, "dep"))
  <2> DEFINE row == [i \in Inline(b) |-> InlineDep(f, i)]
  <2>1. DepRows(f, b) = {row[i] : i \in Inline(b)}
    BY DEF DepRows
  <2>2. BodyOf(f.tpl) = b
    BY <1>1
  <2>3. \A i \in Inline(b) : row[i].id = last["dep"] + Rank(Inline(b), i)
    BY <1>1, <1>2, <2>2 DEF InlineDep
  <2>4. Inline(b) \in SUBSET (1..Len(b.deps)) /\ Len(b.deps) \in Nat
    BY <1>1, BodyParts DEF Inline
  <2> HIDE DEF row
  <2>8. last["dep"] \in Nat
    BY <1>1, <1>2
  <2>9. Block({row[i] : i \in Inline(b)}, last["dep"], last["dep"] + Cardinality(Inline(b)))
    BY <2>3, <2>4, <2>8, NumberedByRank
  <2> QED
    BY <1>4, <2>1, <2>9
<1>8. ASSUME NEW tab \in Plain
      PROVE  Block(PlainRows(f, b, tab), last[tab], last[tab] + Size(b, tab))
  <2> DEFINE row == [i \in 1..Len(b.rows[tab]) |-> Moved(f, tab, i)]
  <2>1. PlainRows(f, b, tab) = {row[i] : i \in 1..Len(b.rows[tab])}
    BY DEF PlainRows
  <2>2. \A i \in 1..Len(b.rows[tab]) : row[i].id = last[tab] + i
    BY <1>1, <1>2 DEF Moved
  <2> HIDE DEF row
  <2>8. last[tab] \in Nat /\ Len(b.rows[tab]) \in Nat
    BY <1>1, <1>2, <1>3, <1>4
  <2>9. Block({row[i] : i \in 1..Len(b.rows[tab])}, last[tab], last[tab] + Len(b.rows[tab]))
    BY <2>2, <2>8, Numbered
  <2> QED
    BY <1>4, <2>1, <2>9
<1> QED
  BY <1>5, <1>6, <1>7, <1>8

-----------------------------------------------------------------------------
(* The tables whose rows are written as their ids are issued.              *)

TablesIssued ==
    /\ Block(net, 0, last["net"]) /\ Block(term, 0, last["term"])
    /\ \A tab \in Plain : Block(rows[tab], 0, last[tab])
    /\ Block(conn, 0, last["conn"]) /\ Block(dep, 0, last["dep"])

LEMMA TablesInit == Init => TablesIssued
<1> SUFFICES ASSUME Init PROVE TablesIssued
  OBVIOUS
<1>1. /\ net = {} /\ term = {} /\ conn = {} /\ dep = {}
      /\ \A tab \in Plain : rows[tab] = {}
      /\ \A c \in Counter : last[c] = 0
  BY DEF Init
<1>2. /\ "net" \in Counter /\ "term" \in Counter /\ "conn" \in Counter
      /\ "dep" \in Counter /\ Plain \subseteq Counter
  BY DEF Counter, Reserved
<1> QED
  BY <1>1, <1>2, NoBlock DEF TablesIssued

\* The connections of a black box are all of them made, one id each.
LEMMA BlackBoxConns ==
    ASSUME TypeOK, StampUnresolved
    PROVE  {i \in 1..Len(NextChild.conns) :
              NextChild.conns[i].term \in 1..NextChild.ports}
             = 1..Len(NextChild.conns)
<1>1. /\ stack # <<>> /\ Top.next <= Len(BodyOf(Top.tpl).children)
      /\ NextChild.kind = "unresolved"
  BY DEF StampUnresolved, ChildDue, At
<1>2. Top.tpl \in Tpl /\ Top.next \in 1..Len(BodyOf(Top.tpl).children)
  BY <1>1, TopBody, NextChildType
<1>3. ConnsLocal(design, BodyOf(Top.tpl))
  BY <1>2, IndicesLocal DEF TypeOK, BodyOf
<1>4. \A i \in 1..Len(NextChild.conns) :
        NextChild.conns[i].term \in 1..NextChild.ports
  BY <1>1, <1>2, <1>3 DEF ConnsLocal, NextChild
<1> QED
  BY <1>4

LEMMA TablesStep ==
    TypeOK /\ PathInv /\ TablesIssued /\ [Next]_vars => TablesIssued'
<1> SUFFICES ASSUME TypeOK, PathInv, TablesIssued, [Next]_vars PROVE TablesIssued'
  OBVIOUS
<1>0. /\ "node" \in Counter /\ "conn" \in Counter /\ "net" \in Counter
      /\ "term" \in Counter /\ "dep" \in Counter /\ Plain \subseteq Counter
      /\ \A tab \in Plain : tab \notin {"node", "conn", "net", "term", "dep"}
      /\ \A c \in Counter : last[c] \in Nat
  BY PlainTyped DEF Counter, Reserved, TypeOK
<1>1. CASE /\ UNCHANGED <<net, term, rows, conn, dep>>
           /\ last' = last \/ \E k : last' = [last EXCEPT !["node"] = k]
  BY <1>0, <1>1 DEF TablesIssued, TypeOK, Block, Ids, Distinct
<1>2. CASE StampRows
  <2> DEFINE b == BodyOf(Top.tpl)
             f == Stamped
  <2>1. /\ stack # <<>> /\ b \in Body
        /\ \A tab \in Reserved : last'[tab] = last[tab] + Size(b, tab)
        /\ last'["conn"] = last["conn"] /\ conn' = conn
        /\ net' = net \cup NetRows(f, b)
        /\ term' = term \cup TermRows(f, b)
        /\ \A tab \in Plain : rows'[tab] = rows[tab] \cup PlainRows(f, b, tab)
        /\ dep' = dep \cup DepRows(f, b)
    BY <1>2, RowsStamped
  <2>2. \A tab \in Reserved : last[tab] \in Nat /\ Size(b, tab) \in Nat
    BY <1>0, <2>1, SizeType DEF Counter
  <2>3. /\ "net" \in Reserved /\ "term" \in Reserved /\ "dep" \in Reserved
        /\ Plain \subseteq Reserved
    BY DEF Reserved
  <2> HIDE DEF b, f
  <2>4. /\ Block(NetRows(f, b), last["net"], last["net"] + Size(b, "net"))
        /\ Block(TermRows(f, b), last["term"], last["term"] + Size(b, "term"))
        /\ Block(DepRows(f, b), last["dep"], last["dep"] + Size(b, "dep"))
        /\ \A tab \in Plain :
             Block(PlainRows(f, b, tab), last[tab], last[tab] + Size(b, tab))
    BY <2>1, RowsFillBlocks DEF b, f
  <2>5. ASSUME NEW tab \in Reserved, NEW t, NEW u,
               Block(t, 0, last[tab]), Block(u, last[tab], last[tab] + Size(b, tab))
        PROVE  Block(t \cup u, 0, last'[tab])
    <3>1. /\ last[tab] \in Nat /\ last[tab] + Size(b, tab) \in Nat
          /\ 0 <= last[tab] /\ last[tab] <= last[tab] + Size(b, tab)
      BY <2>2
    <3>2. Block(t \cup u, 0, last[tab] + Size(b, tab))
      BY <2>5, <3>1, BlockGrows
    <3> QED
      BY <2>1, <3>2
  <2>6. Block(net', 0, last'["net"])
    BY <2>1, <2>3, <2>4, <2>5 DEF TablesIssued
  <2>7. Block(term', 0, last'["term"])
    BY <2>1, <2>3, <2>4, <2>5 DEF TablesIssued
  <2>8. Block(dep', 0, last'["dep"])
    <3>1. /\ Block(dep, 0, last["dep"])
          /\ Block(DepRows(f, b), last["dep"], last["dep"] + Size(b, "dep"))
      BY <2>4 DEF TablesIssued
    <3> QED
      BY <2>1, <2>3, <2>5, <3>1
  <2>9. ASSUME NEW tab \in Plain PROVE Block(rows'[tab], 0, last'[tab])
    <3>1. /\ Block(rows[tab], 0, last[tab])
          /\ Block(PlainRows(f, b, tab), last[tab], last[tab] + Size(b, tab))
      BY <2>4 DEF TablesIssued
    <3>2. tab \in Reserved /\ rows'[tab] = rows[tab] \cup PlainRows(f, b, tab)
      BY <2>1, <2>3
    <3>3. Block(rows[tab] \cup PlainRows(f, b, tab), 0, last'[tab])
      BY <2>5, <3>1, <3>2
    <3> QED
      BY <3>2, <3>3
  <2>10. Block(conn', 0, last'["conn"])
    BY <2>1 DEF TablesIssued
  <2> QED
    BY <2>6, <2>7, <2>8, <2>9, <2>10 DEF TablesIssued, Block, Ids, Distinct
<1>3. CASE StampConns
  <2> DEFINE k == NextChild.conns
             made == {i \in 1..Len(k) : k[i].term # 0}
             row == [i \in made |-> ConnRow(Top, last["conn"] + Rank(made, i), k[i],
                                            ChildTerm(k[i]))]
  <2>1. stack # <<>> /\ At("conns")
    BY <1>3 DEF StampConns, At
  <2>2. Len(k) \in Nat
    BY <2>1, WaitsForChild, NextChildType
  <2>3. Cardinality(made) \in Nat
    BY <2>2, CountType
  <2>4. /\ conn' = conn \cup {row[i] : i \in made}
        /\ last' = [last EXCEPT !["conn"] = @ + Cardinality(made)]
        /\ UNCHANGED <<net, term, rows, dep>>
    BY <1>3 DEF StampConns
  <2>5. \A i \in made : row[i].id = last["conn"] + Rank(made, i)
    BY DEF ConnRow
  <2>6. made \in SUBSET (1..Len(k))
    OBVIOUS
  <2> HIDE DEF row, made, k
  <2>7. Block({row[i] : i \in made}, last["conn"], last["conn"] + Cardinality(made))
    BY <1>0, <2>2, <2>5, <2>6, NumberedByRank
  <2>8. Block(conn', 0, last["conn"] + Cardinality(made))
    <3>1. /\ last["conn"] \in Nat /\ last["conn"] + Cardinality(made) \in Nat
          /\ 0 <= last["conn"] /\ last["conn"] <= last["conn"] + Cardinality(made)
      BY <1>0, <2>3
    <3> QED
      BY <2>4, <2>7, <3>1, BlockGrows DEF TablesIssued
  <2>9. /\ last'["conn"] = last["conn"] + Cardinality(made)
        /\ \A c \in Counter : c # "conn" => last'[c] = last[c]
    BY <1>0, <2>4 DEF TypeOK
  <2> QED
    BY <1>0, <2>4, <2>8, <2>9 DEF TablesIssued, Block, Ids, Distinct
<1>4. CASE StampUnresolved
  <2> DEFINE k == NextChild.conns
             p == NextChild.ports
             termRow == [i \in 1..p |-> [id |-> last["term"] + i, inst |-> ChildId]]
             row == [i \in 1..Len(k) |->
                       ConnRow(Top, last["conn"] + i, [k[i] EXCEPT !.iface = FALSE],
                               last["term"] + k[i].term)]
  <2>1. stack # <<>> /\ Top.next <= Len(BodyOf(Top.tpl).children)
    BY <1>4 DEF StampUnresolved, ChildDue, At
  <2>2. Len(k) \in Nat /\ p \in Nat
    BY <2>1, NextChildType
  <2>3. {i \in 1..Len(k) : k[i].term \in 1..p} = 1..Len(k)
    BY <1>4, BlackBoxConns
  <2>4. conn' = conn \cup {row[i] : i \in 1..Len(k)}
    <3>1. conn' = conn \cup
            {ConnRow(Top, last["conn"] + i, [k[i] EXCEPT !.iface = FALSE],
                     last["term"] + k[i].term) :
               i \in {j \in 1..Len(k) : k[j].term \in 1..p}}
      BY <1>4 DEF StampUnresolved
    <3> QED
      BY <2>3, <3>1
  <2>5. /\ term' = term \cup {termRow[i] : i \in 1..p}
        /\ last' = [last EXCEPT !["term"] = @ + p, !["conn"] = @ + Len(k)]
        /\ UNCHANGED <<net, rows, dep>>
    BY <1>4 DEF StampUnresolved
  <2>6. /\ \A i \in 1..Len(k) : row[i].id = last["conn"] + i
        /\ \A i \in 1..p : termRow[i].id = last["term"] + i
    BY DEF ConnRow
  <2> HIDE DEF row, termRow, k, p
  <2>7. Block(conn', 0, last["conn"] + Len(k))
    <3>1. Block({row[i] : i \in 1..Len(k)}, last["conn"], last["conn"] + Len(k))
      BY <1>0, <2>2, <2>6, Numbered
    <3>2. /\ last["conn"] \in Nat /\ last["conn"] + Len(k) \in Nat
          /\ 0 <= last["conn"] /\ last["conn"] <= last["conn"] + Len(k)
      BY <1>0, <2>2
    <3> QED
      BY <2>4, <3>1, <3>2, BlockGrows DEF TablesIssued
  <2>8. Block(term', 0, last["term"] + p)
    <3>1. Block({termRow[i] : i \in 1..p}, last["term"], last["term"] + p)
      BY <1>0, <2>2, <2>6, Numbered
    <3>2. /\ last["term"] \in Nat /\ last["term"] + p \in Nat
          /\ 0 <= last["term"] /\ last["term"] <= last["term"] + p
      BY <1>0, <2>2
    <3> QED
      BY <2>5, <3>1, <3>2, BlockGrows DEF TablesIssued
  <2>9. /\ last'["conn"] = last["conn"] + Len(k) /\ last'["term"] = last["term"] + p
        /\ \A c \in Counter : c \notin {"conn", "term"} => last'[c] = last[c]
    BY <1>0, <2>5 DEF TypeOK
  <2> QED
    BY <1>0, <2>5, <2>7, <2>8, <2>9 DEF TablesIssued, Block, Ids, Distinct
<1>5. CASE StampPackage
  <2> DEFINE p == design.packages[cursor + 1]
             row == [i \in 1..Len(p.nets) |->
                       [id |-> last["net"] + i, inst |-> last["node"] + 1,
                        name |-> p.nets[i]]]
  <2>1. Len(p.nets) \in Nat
    BY <1>5, PackageType
  <2>2. /\ net' = net \cup {row[i] : i \in 1..Len(p.nets)}
        /\ last' = [last EXCEPT !["node"] = last["node"] + 1,
                                !["net"] = @ + Len(p.nets)]
        /\ UNCHANGED <<term, rows, conn, dep>>
    BY <1>5 DEF StampPackage
  <2>3. \A i \in 1..Len(p.nets) : row[i].id = last["net"] + i
    OBVIOUS
  <2> HIDE DEF row, p
  <2>4. Block(net', 0, last["net"] + Len(p.nets))
    <3>1. Block({row[i] : i \in 1..Len(p.nets)}, last["net"], last["net"] + Len(p.nets))
      BY <1>0, <2>1, <2>3, Numbered
    <3>2. /\ last["net"] \in Nat /\ last["net"] + Len(p.nets) \in Nat
          /\ 0 <= last["net"] /\ last["net"] <= last["net"] + Len(p.nets)
      BY <1>0, <2>1
    <3> QED
      BY <2>2, <3>1, <3>2, BlockGrows DEF TablesIssued
  <2>5. /\ last'["net"] = last["net"] + Len(p.nets)
        /\ \A c \in Counter : c \notin {"node", "net"} => last'[c] = last[c]
    BY <1>0, <2>2 DEF TypeOK
  <2> QED
    BY <1>0, <2>2, <2>4, <2>5 DEF TablesIssued, Block, Ids, Distinct
<1>6. CASE CrossDep
  <2> DEFINE job == crossJobs[cursor + 1]
             d == BodyOf(job.tpl).deps[job.idx]
             row == CrossRow(last["dep"] + 1, job, d)
  <2>1. /\ UNCHANGED <<net, term, rows, conn>>
        /\ \/ dep' = dep \cup {row} /\ last' = [last EXCEPT !["dep"] = @ + 1]
           \/ UNCHANGED <<dep, last>>
    BY <1>6 DEF CrossDep
  <2>2. row.id = last["dep"] + 1
    BY DEF CrossRow
  <2> HIDE DEF row
  <2>3. CASE dep' = dep \cup {row} /\ last' = [last EXCEPT !["dep"] = @ + 1]
    <3>1. Block({row}, last["dep"], last["dep"] + 1)
      BY <1>0, <2>2 DEF Block, Ids, Distinct
    <3>2. Block(dep', 0, last["dep"] + 1)
      <4>1. /\ last["dep"] \in Nat /\ last["dep"] + 1 \in Nat
            /\ 0 <= last["dep"] /\ last["dep"] <= last["dep"] + 1
        BY <1>0
      <4> QED
        BY <2>3, <3>1, <4>1, BlockGrows DEF TablesIssued
    <3>3. /\ last'["dep"] = last["dep"] + 1
          /\ \A c \in Counter : c # "dep" => last'[c] = last[c]
      BY <1>0, <2>3 DEF TypeOK
    <3> QED
      BY <1>0, <2>1, <3>2, <3>3 DEF TablesIssued, Block, Ids, Distinct
  <2> QED
    BY <1>1, <2>1, <2>3
<1>7. CASE StampTop \/ EnterChildren
  <2>1. /\ UNCHANGED <<net, term, rows, conn, dep>>
        /\ \E k : last' = [last EXCEPT !["node"] = k]
    BY <1>7 DEF StampTop, EnterChildren, dbVars
  <2> QED
    BY <1>1, <2>1
<1>8. CASE \/ CutRecursion \/ StampChildModule \/ Return \/ ResolveRef
           \/ Advance \/ UNCHANGED vars
  <2>1. UNCHANGED <<net, term, rows, conn, dep, last>>
    BY <1>8 DEF CutRecursion, StampChildModule, Return, ResolveRef, Advance,
                dbVars, vars
  <2> QED
    BY <1>1, <2>1
<1> QED
  BY <1>2, <1>3, <1>4, <1>5, <1>6, <1>7, <1>8 DEF Next

-----------------------------------------------------------------------------
(* The nodes of the tree: the ids issued are those of the rows written and *)
(* those promised to children still to be stamped, each one of the two.    *)

PromisedOnce ==
    \A i, j \in 1..Len(stack) :
        i # j => Promised(stack[i]) \cap Promised(stack[j]) = {}

NodesIssued ==
    /\ Ids(tree) \cup AllPromised = 1..last["node"]
    /\ Ids(tree) \cap AllPromised = {}
    /\ Distinct(tree) /\ PromisedOnce

\* An occurrence begins with the first of its children.
Fresh == \A i \in 1..Len(stack) : stack[i].stage \in {"rows", "guard"} => stack[i].next = 1

LEMMA FreshInit == Init => Fresh
  BY DEF Init, Fresh

LEMMA NewFrameFields ==
    ASSUME NEW t, NEW i, NEW bind
    PROVE  /\ NewFrame(t, i, bind).stage = "rows" /\ NewFrame(t, i, bind).next = 1
           /\ NewFrame(t, i, bind).tpl = t /\ NewFrame(t, i, bind).inst = i
           /\ NewFrame(t, i, bind).bind = bind
  BY DEF NewFrame

\* The frame of an occurrence that hands over to a child, and after it.
Waiting == [Top EXCEPT !.stage = "conns", !.termBase = last["term"]]
ChildFrame == NewFrame(NextChild.tpl, ChildId, BindOf(Top, NextChild))
Entering == [Top EXCEPT !.stage = "kids", !.childBase = last["node"]]
Following == [Top EXCEPT !.stage = "kids", !.next = @ + 1]

LEMMA FrameFields ==
    ASSUME TypeOK, stack # <<>>
    PROVE  /\ Waiting \in Frame /\ Waiting.stage = "conns"
           /\ Waiting.tpl = Top.tpl /\ Waiting.inst = Top.inst
           /\ Waiting.base = Top.base /\ Waiting.next = Top.next
           /\ Waiting.childBase = Top.childBase /\ Waiting.termBase = last["term"]
           /\ Entering \in Frame /\ Entering.stage = "kids"
           /\ Entering.tpl = Top.tpl /\ Entering.inst = Top.inst
           /\ Entering.base = Top.base /\ Entering.next = Top.next
           /\ Entering.childBase = last["node"]
           /\ Following \in Frame /\ Following.stage = "kids"
           /\ Following.tpl = Top.tpl /\ Following.inst = Top.inst
           /\ Following.base = Top.base /\ Following.next = Top.next + 1
           /\ Following.childBase = Top.childBase
<1>1. last["term"] \in Nat /\ last["node"] \in Nat
  BY DEF TypeOK, Counter, Reserved
<1>2. Top \in Frame
  BY TopBody
<1>3. Top.next + 1 \in Nat \ {0}
  BY <1>2 DEF Frame
<1>4. Waiting \in Frame /\ Entering \in Frame
  BY <1>1, <1>2 DEF Frame, Waiting, Entering
<1>5. Following = [Top EXCEPT !.stage = "kids", !.next = Top.next + 1]
  BY <1>2 DEF Following, Frame
<1>6. Following \in Frame
  BY <1>2, <1>3, <1>5 DEF Frame
<1> QED
  BY <1>2, <1>4, <1>5, <1>6 DEF Frame, Waiting, Entering

\* How the stack changes: the occurrences below the innermost stay.
BelowKept == \A i \in 1..(Len(stack) - 1) : i \in 1..Len(stack') /\ stack'[i] = stack[i]
Topped(f) == BelowKept /\ Len(stack') = Len(stack) /\ stack'[Len(stack)] = f

LEMMA StackMoves ==
    ASSUME TypeOK, PathInv, stack # <<>>
    PROVE  /\ StampRows => Topped(Stamped)
           /\ CutRecursion \/ Return => BelowKept /\ Len(stack') = Len(stack) - 1
           /\ EnterChildren => Topped(Entering)
           /\ StampChildModule =>
                /\ BelowKept /\ Len(stack') = Len(stack) + 1
                /\ stack'[Len(stack)] = Waiting
                /\ stack'[Len(stack) + 1] = ChildFrame
           /\ StampConns \/ StampUnresolved => Topped(Following)
<1> DEFINE n == Len(stack)
<1>1. n \in Nat \ {0} /\ stack \in Seq(Frame) /\ Top \in Frame
  BY TopBody DEF TypeOK
<1>2. ASSUME NEW f \in Frame, stack' = Replace(f)
      PROVE  Topped(f)
  BY <1>1, <1>2, ReplaceTop DEF Topped, BelowKept
<1>3. StampRows => Topped(Stamped)
  BY <1>2, RowsStamped, StampedType
<1>4. CutRecursion \/ Return => BelowKept /\ Len(stack') = n - 1
  <2>1. CutRecursion \/ Return => stack' = Pop
    BY DEF CutRecursion, Return
  <2> QED
    BY <1>1, <2>1, PopTop DEF BelowKept
<1>5. EnterChildren => Topped(Entering)
  <2>1. EnterChildren => stack' = Replace(Entering)
    BY DEF EnterChildren, Entering
  <2> QED
    BY <1>2, <2>1, FrameFields
<1>6. ASSUME StampChildModule
      PROVE  /\ BelowKept /\ Len(stack') = n + 1
             /\ stack'[n] = Waiting /\ stack'[n + 1] = ChildFrame
  <2>1. stack' = Append(Replace(Waiting), ChildFrame)
    BY <1>6 DEF StampChildModule, Waiting, ChildFrame
  <2>2. Waiting \in Frame
    BY FrameFields
  <2> HIDE DEF n
  <2>3. /\ Replace(Waiting) \in Seq(Frame) /\ Len(Replace(Waiting)) = n
        /\ Replace(Waiting)[n] = Waiting
        /\ \A i \in 1..(n - 1) : Replace(Waiting)[i] = stack[i]
    BY <1>1, <2>2, ReplaceTop DEF n
  <2>4. Len(stack') = n + 1 /\ stack'[n + 1] = ChildFrame
    BY <1>1, <2>1, <2>3
  <2>5. \A i \in 1..n : i \in 1..Len(stack') /\ stack'[i] = Replace(Waiting)[i]
    BY <1>1, <2>1, <2>3
  <2>6. stack'[n] = Waiting
    BY <1>1, <2>3, <2>5
  <2>7. BelowKept
    BY <1>1, <2>3, <2>5 DEF BelowKept, n
  <2> QED
    BY <2>4, <2>6, <2>7
<1>7. StampConns \/ StampUnresolved => Topped(Following)
  <2>1. StampConns => stack' = Replace(Following)
    BY DEF StampConns, Following
  <2>2. ASSUME StampUnresolved PROVE stack' = Replace(Following)
    <3>1. Top.stage = "kids" /\ stack' = Replace([Top EXCEPT !.next = @ + 1])
      BY <2>2 DEF StampUnresolved, ChildDue, At
    <3>2. [Top EXCEPT !.next = @ + 1] = Following
      BY <1>1, <3>1 DEF Following, Frame
    <3> QED
      BY <3>1, <3>2
  <2> QED
    BY <1>2, <2>1, <2>2, FrameFields
<1> QED
  BY <1>3, <1>4, <1>5, <1>6, <1>7

\* The only frame of a top that begins.
LEMMA StackOfTop ==
    ASSUME TypeOK, StampTop
    PROVE  /\ stack = <<>> /\ Len(stack') = 1
           /\ stack'[1] = NewFrame(design.tops[cursor + 1].tpl, last["node"] + 1, {})
  BY DEF StampTop

\* The actions that leave the stack as it is.
LEMMA StackStays ==
    StampPackage \/ ResolveRef \/ CrossDep \/ Advance \/ UNCHANGED vars => stack' = stack
  BY DEF StampPackage, ResolveRef, CrossDep, Advance, vars

\* Every other action is a step of the innermost occurrence.
LEMMA OnStack ==
    StampRows \/ CutRecursion \/ EnterChildren \/ StampChildModule \/ StampConns
      \/ StampUnresolved \/ Return => stack # <<>> /\ phase = "tree"
  BY DEF StampRows, CutRecursion, EnterChildren, StampChildModule, StampConns,
         StampUnresolved, Return, ChildDue, At

LEMMA FreshStep == TypeOK /\ PathInv /\ Fresh /\ [Next]_vars => Fresh'
<1> SUFFICES ASSUME TypeOK, PathInv, Fresh, [Next]_vars PROVE Fresh'
  OBVIOUS
<1> DEFINE n == Len(stack)
           Ok(f) == f.stage \in {"rows", "guard"} => f.next = 1
<1>1. CASE stack' = stack
  BY <1>1 DEF Fresh
<1>2. CASE StampTop
  <2> DEFINE g == NewFrame(design.tops[cursor + 1].tpl, last["node"] + 1, {})
  <2>1. Len(stack') = 1 /\ stack'[1] = g
    BY <1>2, StackOfTop
  <2>2. g.next = 1
    BY NewFrameFields
  <2> HIDE DEF g
  <2> QED
    BY <2>1, <2>2 DEF Fresh
<1>3. ASSUME stack # <<>>, BelowKept, Len(stack') \in {n - 1, n, n + 1},
             Len(stack') >= n => Ok(stack'[n]), Len(stack') > n => Ok(stack'[n + 1])
      PROVE  Fresh'
  <2>1. n \in Nat \ {0}
    BY <1>3, TopBody
  <2>2. ASSUME NEW i \in 1..Len(stack') PROVE Ok(stack'[i])
    <3>1. i \in 1..(n - 1) \/ i = n \/ i = n + 1
      BY <1>3, <2>1
    <3>2. CASE i \in 1..(n - 1)
      <4>1. stack'[i] = stack[i] /\ i \in 1..n
        BY <1>3, <2>1, <3>2 DEF BelowKept
      <4> QED
        BY <4>1 DEF Fresh
    <3> QED
      BY <1>3, <2>1, <3>1, <3>2
  <2> QED
    BY <2>2 DEF Fresh
<1>4. CASE \/ StampRows \/ CutRecursion \/ EnterChildren \/ StampChildModule
           \/ StampConns \/ StampUnresolved \/ Return
  <2>1. stack # <<>> /\ n \in Nat \ {0} /\ Top = stack[n]
    BY <1>4, OnStack, TopBody
  <2>2. StampRows => Ok(Stamped)
    <3>1. StampRows => Top.stage = "rows"
      BY DEF StampRows, At
    <3>2. n \in 1..n
      BY <2>1
    <3>3. StampRows => Top.next = 1
      BY <2>1, <3>1, <3>2 DEF Fresh
    <3> QED
      BY <2>1, <3>3, StampedType
  <2>3. Ok(Entering) /\ Ok(Following) /\ Ok(Waiting) /\ Ok(ChildFrame)
    BY <2>1, FrameFields, NewFrameFields DEF ChildFrame
  <2> HIDE DEF Ok, n
  <2>4. CASE StampRows \/ EnterChildren \/ StampConns \/ StampUnresolved
    BY <1>3, <2>1, <2>2, <2>3, <2>4, StackMoves DEF Topped, n
  <2>5. CASE CutRecursion \/ Return
    BY <1>3, <2>1, <2>5, StackMoves DEF n
  <2>6. CASE StampChildModule
    BY <1>3, <2>1, <2>3, <2>6, StackMoves DEF n
  <2> QED
    BY <1>4, <2>4, <2>5, <2>6
<1> QED
  BY <1>1, <1>2, <1>4, StackStays DEF Next
LEMMA NodesInit == Init => NodesIssued
<1> SUFFICES ASSUME Init PROVE NodesIssued
  OBVIOUS
<1>1. tree = {} /\ stack = <<>> /\ last["node"] = 0
  BY DEF Init, Counter
<1> QED
  BY <1>1 DEF NodesIssued, AllPromised, PromisedOnce, Distinct, Ids

LEMMA PromisesNext ==
    ASSUME design' = design
    PROVE  /\ AllPromised' = UNION {Promised(stack'[i]) : i \in 1..Len(stack')}
           /\ PromisedOnce' <=>
                \A i, j \in 1..Len(stack') :
                  i # j => Promised(stack'[i]) \cap Promised(stack'[j]) = {}
  BY DEF AllPromised, PromisedOnce, Promised, BodyOf

\* The innermost occurrence turns what it promised, and ids never issued
\* before, into the rows N and the promises P.
Moves(P, N) ==
    /\ BelowKept /\ Len(stack') \in {Len(stack) - 1, Len(stack), Len(stack) + 1}
    /\ Len(stack') = Len(stack) - 1 => P = {}
    /\ Len(stack') >= Len(stack) => Promised(stack'[Len(stack)]) = P
    /\ Len(stack') = Len(stack) + 1 => Promised(stack'[Len(stack) + 1]) = {}
    /\ tree' = tree \cup N /\ Distinct(N)
    /\ last'["node"] \in Nat /\ last["node"] <= last'["node"]
    /\ Ids(N) \cup P = Promised(Top) \cup ((last["node"] + 1)..last'["node"])
    /\ Ids(N) \cap P = {}

LEMMA PromisesMove ==
    ASSUME TypeOK, NodesIssued, stack # <<>>, design' = design, NEW P, NEW N,
           Moves(P, N)
    PROVE  NodesIssued'
<1> DEFINE n == Len(stack)
<1>0. /\ BelowKept /\ Len(stack') \in {n - 1, n, n + 1}
      /\ Len(stack') = n - 1 => P = {}
      /\ Len(stack') >= n => Promised(stack'[n]) = P
      /\ Len(stack') = n + 1 => Promised(stack'[n + 1]) = {}
      /\ tree' = tree \cup N /\ Distinct(N)
      /\ last'["node"] \in Nat /\ last["node"] <= last'["node"]
      /\ Ids(N) \cup P = Promised(Top) \cup ((last["node"] + 1)..last'["node"])
      /\ Ids(N) \cap P = {}
  BY DEF Moves
<1> USE <1>0
<1> DEFINE others == UNION {Promised(stack[i]) : i \in 1..(n - 1)}
           own == Promised(Top)
           new == (last["node"] + 1)..last'["node"]
<1>1. n \in Nat \ {0} /\ Top = stack[n] /\ last["node"] \in Nat
  BY TopBody DEF TypeOK, Counter
<1>2. AllPromised = others \cup own
  <2>1. 1..n = (1..(n - 1)) \cup {n}
    BY <1>1
  <2> QED
    BY <1>1, <2>1 DEF AllPromised
<1>3. others \cap own = {}
  <2>1. \A i \in 1..(n - 1) : i \in 1..n /\ n \in 1..n /\ i # n
    BY <1>1
  <2>2. \A i \in 1..(n - 1) : Promised(stack[i]) \cap Promised(stack[n]) = {}
    BY <2>1 DEF NodesIssued, PromisedOnce
  <2> QED
    BY <1>1, <2>2
<1>4. AllPromised' = others \cup P
  <2>1. \A i \in 1..(n - 1) : i \in 1..Len(stack') /\ stack'[i] = stack[i]
    BY DEF BelowKept
  <2>2. \A i \in 1..Len(stack') : i \in 1..(n - 1) \/ i = n \/ i = n + 1
    BY <1>1
  <2>3. AllPromised' \subseteq others \cup P
    <3> SUFFICES ASSUME NEW i \in 1..Len(stack')
                 PROVE  Promised(stack'[i]) \subseteq others \cup P
      BY PromisesNext
    <3>1. CASE i \in 1..(n - 1)
      BY <2>1, <3>1
    <3>2. CASE i = n
      BY <1>1, <3>2
    <3>3. CASE i = n + 1
      BY <1>1, <3>3
    <3> QED
      BY <2>2, <3>1, <3>2, <3>3
  <2>4. others \subseteq AllPromised'
    BY <2>1, PromisesNext
  <2>5. P \subseteq AllPromised'
    <3>1. CASE Len(stack') = n - 1
      BY <3>1
    <3>2. CASE Len(stack') >= n /\ n \in 1..Len(stack')
      BY <3>2, PromisesNext
    <3> QED
      BY <1>1, <3>1, <3>2
  <2> QED
    BY <2>3, <2>4, <2>5
<1>5. /\ Ids(tree) \cup others \cup own = 1..last["node"]
      /\ Ids(tree) \cap others = {} /\ Ids(tree) \cap own = {}
  BY <1>2 DEF NodesIssued
<1>6. /\ new \cap (1..last["node"]) = {}
      /\ (1..last["node"]) \cup new = 1..last'["node"]
  BY <1>1
<1>7. /\ new \cap Ids(tree) = {} /\ new \cap others = {} /\ new \cap own = {}
  BY <1>5, <1>6
<1>8. Ids(tree') = Ids(tree) \cup Ids(N)
  BY DEF Ids
<1>9. Ids(N) \cup P = own \cup new
  OBVIOUS
<1> HIDE DEF others, own, new
<1>10. Ids(tree') \cup AllPromised' = 1..last'["node"]
  BY <1>4, <1>5, <1>6, <1>8, <1>9
<1>11. Ids(tree') \cap AllPromised' = {}
  BY <1>3, <1>4, <1>5, <1>7, <1>8, <1>9
<1>12. Distinct(tree')
  <2>1. Ids(tree) \cap Ids(N) = {}
    BY <1>5, <1>7, <1>9
  <2>2. \A r \in tree, q \in N : r.id # q.id
    BY <2>1 DEF Ids
  <2> QED
    BY <2>2 DEF Distinct, NodesIssued
<1>13. PromisedOnce'
  <2>1. ASSUME NEW i \in 1..(n - 1), NEW j \in 1..(n - 1), i # j
        PROVE  Promised(stack'[i]) \cap Promised(stack'[j]) = {}
    <3>1. i \in 1..n /\ j \in 1..n /\ stack'[i] = stack[i] /\ stack'[j] = stack[j]
      BY <1>1 DEF BelowKept
    <3> QED
      BY <2>1, <3>1 DEF NodesIssued, PromisedOnce
  <2>2. ASSUME NEW i \in 1..(n - 1), Len(stack') >= n
        PROVE  Promised(stack'[i]) \cap Promised(stack'[n]) = {}
    <3>1. Promised(stack'[i]) \subseteq others
      BY DEF BelowKept, others
    <3>2. Promised(stack'[n]) \subseteq own \cup new
      BY <1>9, <2>2
    <3> QED
      BY <1>3, <1>7, <3>1, <3>2
  <2>3. ASSUME NEW i \in 1..Len(stack'), NEW j \in 1..Len(stack'), i # j
        PROVE  Promised(stack'[i]) \cap Promised(stack'[j]) = {}
    <3>1. CASE i = n + 1 \/ j = n + 1
      BY <1>1, <3>1
    <3>2. CASE i # n + 1 /\ j # n + 1 /\ (i = n \/ j = n)
      BY <1>1, <2>2, <2>3, <3>2
    <3>3. CASE i \in 1..(n - 1) /\ j \in 1..(n - 1)
      BY <2>1, <2>3, <3>3
    <3> QED
      BY <1>1, <3>1, <3>2, <3>3
  <2> QED
    BY <2>3, PromisesNext
<1> QED
  BY <1>10, <1>11, <1>12, <1>13 DEF NodesIssued, Ids, Distinct

LEMMA TwoBlocks ==
    ASSUME NEW a \in Nat, NEW s \in Nat, NEW q \in Nat, NEW level, NEW prim,
           Block(level, a, a + s), Block(prim, a + s, a + s + q)
    PROVE  Block(level \cup prim, a, a + (s + q))
<1>1. /\ a + s \in Nat /\ a + s + q \in Nat /\ a <= a + s /\ a + s <= a + s + q
      /\ a + s + q = a + (s + q)
  OBVIOUS
<1> QED
  BY <1>1, BlockGrows

\* The levels and primitives of a body take consecutive ids.
LEMMA NodesFillBlock ==
    ASSUME NEW b \in Body, NEW f, f.scopeBase \in Nat
    PROVE  /\ Len(b.scopes) + Len(b.prims) \in Nat
           /\ Block(BodyNodes(f, b), f.scopeBase,
                    f.scopeBase + (Len(b.scopes) + Len(b.prims)))
<1> DEFINE s == Len(b.scopes)
           q == Len(b.prims)
           a == f.scopeBase
           level == [i \in 1..s |->
                       NodeRow(a + i, ScopeNode(f, b.scopes[i].parent),
                               b.scopes[i].name, "generate", Ordinal(b, i))]
           prim == [i \in 1..q |->
                      NodeRow(a + s + i, ScopeNode(f, b.prims[i].scope),
                              b.prims[i].name, "primitive", Ordinal(b, s + i))]
<1>1. s \in Nat /\ q \in Nat /\ a \in Nat
  BY BodyParts
<1>2. BodyNodes(f, b) = {level[i] : i \in 1..s} \cup {prim[i] : i \in 1..q}
  BY DEF BodyNodes
<1>3. /\ \A i \in 1..s : level[i].id = a + i
      /\ \A i \in 1..q : prim[i].id = a + s + i
  BY DEF NodeRow
<1>4. s + q \in Nat /\ Block(BodyNodes(f, b), a, a + (s + q))
  <2> HIDE DEF level, prim, s, q, a
  <2>1. Block({level[i] : i \in 1..s}, a, a + s)
    BY <1>1, <1>3, Numbered
  <2>2. a + s \in Nat /\ s + q \in Nat
    BY <1>1
  <2>3. Block({prim[i] : i \in 1..q}, a + s, a + s + q)
    <3> DEFINE e == a + s
    <3>1. e \in Nat /\ \A i \in 1..q : prim[i].id = e + i
      BY <1>3, <2>2
    <3> HIDE DEF e
    <3>2. Block({prim[i] : i \in 1..q}, e, e + q)
      BY <1>1, <3>1, Numbered
    <3> QED
      BY <3>2 DEF e
  <2> QED
    BY <1>1, <1>2, <2>1, <2>2, <2>3, TwoBlocks
<1> QED
  BY <1>4
\* What a frame promises, stage by stage.
LEMMA PromisedBy ==
    ASSUME NEW f
    PROVE  /\ f.stage \in {"rows", "guard"} => Promised(f) = {}
           /\ f.stage = "kids" =>
                Promised(f) = {f.childBase + i :
                                 i \in f.next..Len(BodyOf(f.tpl).children)}
           /\ f.stage = "conns" =>
                Promised(f) = {f.childBase + i :
                                 i \in (f.next + 1)..Len(BodyOf(f.tpl).children)}
  BY DEF Promised

LEMMA PromisesStay ==
    ASSUME design' = design, stack' = stack
    PROVE  AllPromised' = AllPromised /\ (PromisedOnce' <=> PromisedOnce)
  BY DEF AllPromised, PromisedOnce, Promised, BodyOf

\* Numbers promised from a base on: none, all, and the first of them.
LEMMA Promises ==
    ASSUME NEW a \in Nat, NEW k \in Nat, NEW m \in Nat
    PROVE  /\ k > m => {a + i : i \in k..m} = {}
           /\ {a + i : i \in 1..m} = (a + 1)..(a + m)
           /\ k <= m => /\ {a + i : i \in k..m} = {a + k} \cup {a + i : i \in (k + 1)..m}
                        /\ a + k \notin {a + i : i \in (k + 1)..m}
<1>1. \A j \in (a + 1)..(a + m) : j - a \in 1..m /\ j = a + (j - a)
  OBVIOUS
<1>2. {a + i : i \in 1..m} = (a + 1)..(a + m)
  BY <1>1
<1>3. ASSUME k <= m
      PROVE  {a + i : i \in k..m} = {a + k} \cup {a + i : i \in (k + 1)..m}
  <2>1. k..m = {k} \cup ((k + 1)..m)
    BY <1>3
  <2> QED
    BY <2>1
<1>4. a + k \notin {a + i : i \in (k + 1)..m}
  OBVIOUS
<1> QED
  BY <1>2, <1>3, <1>4

\* A row whose id was just issued.
LEMMA NodeAdded ==
    ASSUME NodesIssued, last["node"] \in Nat, NEW node, node.id = last["node"] + 1,
           tree' = tree \cup {node}, last'["node"] = last["node"] + 1,
           AllPromised' = AllPromised, PromisedOnce'
    PROVE  NodesIssued'
<1>1. Ids(tree') = Ids(tree) \cup {last["node"] + 1}
  BY DEF Ids
<1>2. last["node"] + 1 \notin Ids(tree) \cup AllPromised
  BY DEF NodesIssued
<1>3. 1..(last["node"] + 1) = (1..last["node"]) \cup {last["node"] + 1}
  OBVIOUS
<1>4. Ids(tree') \cup AllPromised' = 1..last'["node"]
  BY <1>1, <1>3 DEF NodesIssued
<1>5. Ids(tree') \cap AllPromised' = {}
  BY <1>1, <1>2 DEF NodesIssued
<1>6. Distinct(tree')
  BY <1>2 DEF NodesIssued, Distinct, Ids
<1> QED
  BY <1>4, <1>5, <1>6 DEF NodesIssued, Ids, Distinct

LEMMA NodesStep ==
    TypeOK /\ PathInv /\ Fresh /\ NodesIssued /\ [Next]_vars => NodesIssued'
<1> SUFFICES ASSUME TypeOK, PathInv, Fresh, NodesIssued, [Next]_vars
             PROVE  NodesIssued'
  OBVIOUS
<1> DEFINE n == Len(stack)
           a == last["node"]
           kids == Len(BodyOf(Top.tpl).children)
<1>0. /\ "node" \in Counter /\ "conn" \in Counter /\ "net" \in Counter
      /\ "term" \in Counter /\ "dep" \in Counter
      /\ a \in Nat /\ design' = design
  <2>1. design' = design
    BY DEF Next, StampTop, StampRows, CutRecursion, EnterChildren,
           StampChildModule, StampConns, StampUnresolved, Return, StampPackage,
           ResolveRef, CrossDep, Advance, vars
  <2> QED
    BY <2>1 DEF Counter, Reserved, TypeOK
<1>1. CASE UNCHANGED <<tree, stack>> /\ last'["node"] = last["node"]
  <2>1. AllPromised' = AllPromised /\ (PromisedOnce' <=> PromisedOnce)
    BY <1>0, <1>1, PromisesStay
  <2> QED
    BY <1>1, <2>1 DEF NodesIssued, Ids, Distinct
<1>2. CASE StampTop
  <2> DEFINE g == NewFrame(design.tops[cursor + 1].tpl, last["node"] + 1, {})
             node == NodeRow(last["node"] + 1, 0, design.tops[cursor + 1].name,
                             "root", cursor)
  <2>1. stack = <<>> /\ Len(stack') = 1 /\ stack'[1] = g /\ g.stage = "rows"
    BY <1>2, StackOfTop, NewFrameFields
  <2>2. tree' = tree \cup {node} /\ last' = [last EXCEPT !["node"] = last["node"] + 1]
    BY <1>2 DEF StampTop
  <2>3. node.id = last["node"] + 1
    BY DEF NodeRow
  <2> HIDE DEF g, node
  <2>4. Promised(g) = {}
    BY <2>1, PromisedBy
  <2>5. AllPromised = {} /\ AllPromised' = {} /\ PromisedOnce'
    BY <1>0, <2>1, <2>4, PromisesNext DEF AllPromised
  <2>6. last'["node"] = last["node"] + 1
    BY <1>0, <2>2 DEF TypeOK
  <2> QED
    BY <1>0, <2>2, <2>3, <2>5, <2>6, NodeAdded
<1>3. CASE StampRows
  <2> DEFINE b == BodyOf(Top.tpl)
             m == Len(b.scopes) + Len(b.prims)
  <2>1. /\ stack # <<>> /\ Top.stage = "rows" /\ b \in Body
        /\ last'["node"] = a + m /\ tree' = tree \cup BodyNodes(Stamped, b)
    BY <1>3, RowsStamped
  <2>2. Topped(Stamped) /\ Stamped.stage = "guard" /\ Stamped.scopeBase = a
    BY <1>3, <2>1, StackMoves, StampedType
  <2>3. m \in Nat /\ Block(BodyNodes(Stamped, b), a, a + m)
    BY <1>0, <2>1, <2>2, NodesFillBlock
  <2>4. Promised(Top) = {} /\ Promised(Stamped) = {}
    BY <2>1, <2>2, PromisedBy
  <2> HIDE DEF b, m, a
  <2>5. a + m \in Nat /\ a <= a + m
    BY <1>0, <2>3
  <2>6. Moves({}, BodyNodes(Stamped, b))
    BY <1>0, <2>1, <2>2, <2>3, <2>4, <2>5 DEF Moves, Topped, Block, a
  <2> QED
    BY <1>0, <2>1, <2>6, PromisesMove
<1>4. CASE CutRecursion \/ Return
  <2>1. stack # <<>> /\ UNCHANGED <<tree, last>>
    BY <1>4 DEF CutRecursion, Return, At, dbVars
  <2>2. BelowKept /\ Len(stack') = n - 1
    BY <1>4, <2>1, StackMoves
  <2>3. Promised(Top) = {}
    <3>1. Top \in Frame /\ kids \in Nat
      BY <2>1, TopBody, BodyParts
    <3>2. Top.stage = "guard" \/ (Top.stage = "kids" /\ Top.next > kids)
      BY <1>4 DEF CutRecursion, Return, At
    <3>3. Top.childBase \in Nat /\ Top.next \in Nat
      BY <3>1 DEF Frame
    <3>4. Top.next > kids => {Top.childBase + i : i \in Top.next..kids} = {}
      BY <3>1, <3>3, Promises
    <3> QED
      BY <3>2, <3>4, PromisedBy
  <2>4. (last["node"] + 1)..last'["node"] = {}
    BY <1>0, <2>1
  <2>5. n \in Nat
    BY <2>1, TopBody
  <2>6. Ids({}) = {} /\ Distinct({})
    BY DEF Ids, Distinct
  <2>7. Moves({}, {})
    <3>1. /\ Len(stack') # n /\ Len(stack') # n + 1 /\ ~(Len(stack') >= n)
      BY <2>2, <2>5
    <3>2. last'["node"] \in Nat /\ last["node"] <= last'["node"] /\ tree' = tree \cup {}
      BY <1>0, <2>1
    <3> QED
      BY <2>2, <2>3, <2>4, <2>6, <3>1, <3>2 DEF Moves
  <2> QED
    BY <1>0, <2>1, <2>7, PromisesMove
<1>5. CASE EnterChildren
  <2>1. /\ stack # <<>> /\ Top.stage = "guard" /\ tree' = tree
        /\ last' = [last EXCEPT !["node"] = @ + kids]
    BY <1>5 DEF EnterChildren, At, dbVars
  <2>2. Topped(Entering) /\ Len(stack) \in Nat
    BY <1>5, <2>1, StackMoves, TopBody
  <2>3. kids \in Nat
    BY <2>1, TopBody, BodyParts
  <2>4. Top.next = 1
    BY <2>1, TopBody DEF Fresh
  <2>5. /\ Entering.stage = "kids" /\ Entering.next = 1 /\ Entering.tpl = Top.tpl
        /\ Entering.childBase = a
    BY <2>1, <2>4, FrameFields
  <2>6. Promised(Entering) = {a + i : i \in 1..kids}
    BY <2>5, PromisedBy
  <2>7. Promised(Top) = {}
    BY <2>1, PromisedBy
  <2>8. last'["node"] = a + kids
    BY <1>0, <2>1 DEF TypeOK
  <2>9. Ids({}) = {} /\ Distinct({})
    BY DEF Ids, Distinct
  <2> HIDE DEF kids, a
  <2>10. {a + i : i \in 1..kids} = (a + 1)..(a + kids)
    BY <1>0, <2>3, Promises
  <2>11. a + kids \in Nat /\ a <= a + kids
    BY <1>0, <2>3
  <2>12. Moves(Promised(Entering), {})
    BY <1>0, <2>1, <2>2, <2>6, <2>7, <2>8, <2>9, <2>10, <2>11 DEF Moves, Topped, a
  <2> QED
    BY <1>0, <2>1, <2>12, PromisesMove
<1>6. ASSUME NEW kind, ChildDue, tree' = tree \cup {ChildNode(kind)},
             last'["node"] = last["node"],
             BelowKept, Len(stack') \in {n, n + 1},
             stack'[n] \in {Waiting, Following},
             Len(stack') = n + 1 => Promised(stack'[n + 1]) = {}
      PROVE  NodesIssued'
  <2>1. stack # <<>> /\ Top.stage = "kids" /\ Top.next <= kids
    BY <1>6 DEF ChildDue, At
  <2>2. kids \in Nat /\ Top.next \in Nat /\ Top.childBase \in Nat /\ n \in Nat
    BY <2>1, TopBody, BodyParts DEF Frame
  <2> DEFINE after == {Top.childBase + i : i \in (Top.next + 1)..kids}
  <2>3. Promised(Waiting) = after /\ Promised(Following) = after
    <3>1. /\ Waiting.stage = "conns" /\ Following.stage = "kids"
          /\ Waiting.tpl = Top.tpl /\ Following.tpl = Top.tpl
          /\ Waiting.next = Top.next /\ Following.next = Top.next + 1
          /\ Waiting.childBase = Top.childBase /\ Following.childBase = Top.childBase
      BY <2>1, FrameFields
    <3> QED
      BY <3>1, PromisedBy
  <2>4. Promised(Top) = {ChildId} \cup after /\ ChildId \notin after
    <3>1. Promised(Top) = {Top.childBase + i : i \in Top.next..kids}
      BY <2>1, PromisedBy
    <3> QED
      BY <2>1, <2>2, <3>1, Promises DEF ChildId
  <2>5. Ids({ChildNode(kind)}) = {ChildId} /\ Distinct({ChildNode(kind)})
    BY DEF Ids, Distinct, ChildNode, NodeRow
  <2>6. (last["node"] + 1)..last'["node"] = {}
    BY <1>0, <1>6
  <2>7. Promised(stack'[n]) = after
    BY <1>6, <2>3
  <2> HIDE DEF after
  <2>8. Moves(after, {ChildNode(kind)})
    <3>1. Len(stack') # n - 1 /\ Len(stack') \in {n - 1, n, n + 1}
      BY <1>6, <2>2
    <3>2. last'["node"] \in Nat /\ last["node"] <= last'["node"]
      BY <1>0, <1>6
    <3>3. /\ Ids({ChildNode(kind)}) \cup after = Promised(Top) \cup {}
          /\ Ids({ChildNode(kind)}) \cap after = {}
      BY <2>4, <2>5
    <3> QED
      BY <1>6, <2>5, <2>6, <2>7, <3>1, <3>2, <3>3 DEF Moves
  <2> QED
    BY <1>0, <2>1, <2>8, PromisesMove
<1>7. CASE StampChildModule
  <2>1. /\ ChildDue /\ tree' = tree \cup {ChildNode("instance")} /\ last' = last
        /\ stack # <<>>
    BY <1>7 DEF StampChildModule, ChildDue, At
  <2>2. /\ BelowKept /\ Len(stack') = n + 1 /\ stack'[n] = Waiting
        /\ stack'[n + 1] = ChildFrame
    BY <1>7, <2>1, StackMoves
  <2>3. Promised(ChildFrame) = {}
    <3>1. ChildFrame.stage = "rows"
      BY NewFrameFields DEF ChildFrame
    <3> QED
      BY <3>1, PromisedBy
  <2> QED
    BY <1>6, <2>1, <2>2, <2>3
<1>8. CASE StampUnresolved
  <2>1. /\ ChildDue /\ tree' = tree \cup {ChildNode("unresolved")} /\ stack # <<>>
        /\ last' = [last EXCEPT !["term"] = @ + NextChild.ports,
                                !["conn"] = @ + Len(NextChild.conns)]
    BY <1>8 DEF StampUnresolved, ChildDue, At
  <2>2. Topped(Following) /\ Len(stack) \in Nat
    BY <1>8, <2>1, StackMoves, TopBody
  <2>3. last'["node"] = last["node"]
    BY <1>0, <2>1 DEF TypeOK
  <2> QED
    BY <1>6, <2>1, <2>2, <2>3 DEF Topped
<1>9. CASE StampConns
  <2>1. /\ stack # <<>> /\ Top.stage = "conns" /\ tree' = tree
        /\ \E k : last' = [last EXCEPT !["conn"] = k]
    BY <1>9 DEF StampConns, At
  <2>2. Topped(Following) /\ Len(stack) \in Nat
    BY <1>9, <2>1, StackMoves, TopBody
  <2>3. Promised(Following) = Promised(Top)
    <3> DEFINE after == {Top.childBase + i : i \in (Top.next + 1)..kids}
    <3>1. /\ Following.stage = "kids" /\ Following.tpl = Top.tpl
          /\ Following.next = Top.next + 1 /\ Following.childBase = Top.childBase
      BY <2>1, FrameFields
    <3>2. Promised(Following) = after
      BY <3>1, PromisedBy
    <3>3. Promised(Top) = after
      BY <2>1, PromisedBy
    <3> QED
      BY <3>2, <3>3
  <2>4. last'["node"] = last["node"] /\ (last["node"] + 1)..last'["node"] = {}
    BY <1>0, <2>1 DEF TypeOK
  <2>5. Ids({}) = {} /\ Distinct({})
    BY DEF Ids, Distinct
  <2>6. Moves(Promised(Top), {})
    BY <1>0, <2>1, <2>2, <2>3, <2>4, <2>5 DEF Moves, Topped
  <2> QED
    BY <1>0, <2>1, <2>6, PromisesMove
<1>10. CASE StampPackage
  <2> DEFINE node == NodeRow(last["node"] + 1, 0, design.packages[cursor + 1].name,
                             "package", Len(design.tops) + cursor)
  <2>1. /\ tree' = tree \cup {node} /\ stack' = stack
        /\ \E k : last' = [last EXCEPT !["node"] = last["node"] + 1, !["net"] = k]
    BY <1>10 DEF StampPackage
  <2>2. node.id = last["node"] + 1
    BY DEF NodeRow
  <2> HIDE DEF node
  <2>3. last'["node"] = last["node"] + 1
    BY <1>0, <2>1 DEF TypeOK
  <2>4. AllPromised' = AllPromised /\ PromisedOnce'
    BY <1>0, <2>1, PromisesStay DEF NodesIssued
  <2> QED
    BY <1>0, <2>1, <2>2, <2>3, <2>4, NodeAdded
<1>11. CASE ResolveRef \/ Advance \/ CrossDep \/ UNCHANGED vars
  <2>1. /\ UNCHANGED <<tree, stack>>
        /\ last' = last \/ \E k : last' = [last EXCEPT !["dep"] = k]
    BY <1>11 DEF ResolveRef, Advance, CrossDep, dbVars, vars
  <2>2. last'["node"] = last["node"]
    BY <1>0, <2>1 DEF TypeOK
  <2> QED
    BY <1>1, <2>1, <2>2
<1> QED
  BY <1>2, <1>3, <1>4, <1>5, <1>7, <1>8, <1>9, <1>10, <1>11 DEF Next

-----------------------------------------------------------------------------
(* The references: their ids are reserved while the tree is stamped, in    *)
(* the order of the queue, and their rows written as it is replayed.       *)

LEMMA Concat ==
    ASSUME NEW S, NEW s \in Seq(S), NEW t \in Seq(S)
    PROVE  /\ s \o t \in Seq(S)
           /\ Len(s) \in Nat /\ Len(t) \in Nat /\ Len(s \o t) = Len(s) + Len(t)
           /\ \A i \in 1..Len(s) : i \in 1..Len(s \o t) /\ (s \o t)[i] = s[i]
           /\ \A i \in 1..Len(t) : Len(s) + i \in 1..Len(s \o t)
                                   /\ (s \o t)[Len(s) + i] = t[i]
           /\ \A j \in 1..Len(s \o t) :
                j \in 1..Len(s) \/ \E i \in 1..Len(t) : j = Len(s) + i
<1>1. /\ s \o t \in Seq(S)
      /\ Len(s) \in Nat /\ Len(t) \in Nat /\ Len(s \o t) = Len(s) + Len(t)
  OBVIOUS
<1>2. \A i \in 1..Len(s) : i \in 1..Len(s \o t) /\ (s \o t)[i] = s[i]
  BY <1>1
<1>3. \A i \in 1..Len(t) : Len(s) + i \in 1..Len(s \o t) /\ (s \o t)[Len(s) + i] = t[i]
  BY <1>1
<1>4. ASSUME NEW j \in 1..Len(s \o t), j \notin 1..Len(s)
      PROVE  \E i \in 1..Len(t) : j = Len(s) + i
  <2>1. j - Len(s) \in 1..Len(t) /\ j = Len(s) + (j - Len(s))
    BY <1>1, <1>4
  <2> QED
    BY <2>1
<1> QED
  BY <1>1, <1>2, <1>3, <1>4

RefJob == [id : Nat, inst : Nat, tpl : Tpl, idx : Nat, bind : SUBSET Binding]
DepJob == [tpl : Tpl, idx : Nat, base : [Reserved -> Nat], inst : Nat]

JobsNumbered ==
    /\ replayJobs \in Seq(RefJob) /\ crossJobs \in Seq(DepJob)
    /\ Len(replayJobs) = last["ref"]
    /\ \A i \in 1..Len(replayJobs) : replayJobs[i].id = i

RefsWritten ==
    /\ phase \in {"tree", "packages"} => ref = {}
    /\ phase = "refs" => Block(ref, 0, cursor) /\ cursor <= last["ref"]
    /\ phase \in {"deps", "done"} => Block(ref, 0, last["ref"])

RefsIssued == JobsNumbered /\ RefsWritten

LEMMA RefsInit == Init => RefsIssued
<1> SUFFICES ASSUME Init PROVE RefsIssued
  OBVIOUS
<1>1. /\ replayJobs = <<>> /\ crossJobs = <<>> /\ ref = {} /\ phase = "tree"
      /\ last["ref"] = 0
  BY DEF Init, Counter, Reserved
<1> QED
  BY <1>1 DEF RefsIssued, JobsNumbered, RefsWritten

\* The jobs an occurrence queues.
LEMMA JobsType ==
    ASSUME TypeOK, stack # <<>>
    PROVE  LET b == BodyOf(Top.tpl)
               f == Stamped
           IN  /\ RefJobs(f, b) \in Seq(RefJob) /\ Len(RefJobs(f, b)) = Len(b.refs)
               /\ \A i \in 1..Len(b.refs) :
                    RefJobs(f, b)[i] = [id |-> last["ref"] + i, inst |-> Top.inst,
                                        tpl |-> Top.tpl, idx |-> i, bind |-> Top.bind]
               /\ Queued(b) \in Seq((1..Len(b.deps)) \ Inline(b))
               /\ \A i \in (1..Len(b.deps)) \ Inline(b) :
                    \E k \in 1..Len(Queued(b)) : Queued(b)[k] = i
               /\ \A j, k \in 1..Len(Queued(b)) : Queued(b)[j] = Queued(b)[k] => j = k
               /\ DepJobs(f, b) \in Seq(DepJob) /\ Len(DepJobs(f, b)) = Len(Queued(b))
               /\ \A i \in 1..Len(Queued(b)) :
                    DepJobs(f, b)[i] = [tpl |-> Top.tpl, idx |-> Queued(b)[i],
                                        base |-> f.base, inst |-> Top.inst]
<1> DEFINE b == BodyOf(Top.tpl)
           f == Stamped
<1>1. /\ b \in Body /\ Top \in Frame /\ f.tpl = Top.tpl /\ f.inst = Top.inst
      /\ f.bind = Top.bind /\ f.base \in [Reserved -> Nat]
      /\ "ref" \in Reserved /\ f.base["ref"] = last["ref"] /\ last["ref"] \in Nat
  BY TopBody, StampedType DEF Reserved, TypeOK, Counter
<1>2. Len(b.refs) \in Nat /\ Len(b.deps) \in Nat
  BY <1>1, BodyParts
<1>3. Top.tpl \in Tpl /\ Top.inst \in Nat /\ Top.bind \in SUBSET Binding
  BY <1>1 DEF Frame
<1> DEFINE m == Len(b.refs)
<1>4. RefJobs(f, b) = [i \in 1..m |->
        [id |-> last["ref"] + i, inst |-> Top.inst, tpl |-> Top.tpl, idx |-> i,
         bind |-> Top.bind]]
  BY <1>1 DEF RefJobs
<1>5. \A i \in 1..m : [id |-> last["ref"] + i, inst |-> Top.inst, tpl |-> Top.tpl,
                       idx |-> i, bind |-> Top.bind] \in RefJob
  BY <1>1, <1>2, <1>3 DEF RefJob
<1>6. RefJobs(f, b) \in Seq(RefJob) /\ Len(RefJobs(f, b)) = m
  <2> HIDE DEF m
  <2> QED
    BY <1>2, <1>4, <1>5 DEF m
<1>7. /\ Queued(b) \in Seq((1..Len(b.deps)) \ Inline(b))
      /\ \A i \in (1..Len(b.deps)) \ Inline(b) :
           \E k \in 1..Len(Queued(b)) : Queued(b)[k] = i
      /\ \A j, k \in 1..Len(Queued(b)) : Queued(b)[j] = Queued(b)[k] => j = k
  <2> DEFINE S == (1..Len(b.deps)) \ Inline(b)
             n == Len(b.deps)
  <2>1. S \in SUBSET (1..n) /\ n \in Nat
    BY <1>2
  <2>2. Queued(b) = InOrder(S)
    BY DEF Queued
  <2> HIDE DEF S, n
  <2>3. /\ InOrder(S) \in Seq(S)
        /\ \A i \in S : \E k \in 1..Len(InOrder(S)) : InOrder(S)[k] = i
        /\ \A j, k \in 1..Len(InOrder(S)) : InOrder(S)[j] = InOrder(S)[k] => j = k
    BY <2>1, OrderIsAll
  <2> QED
    BY <2>2, <2>3 DEF S
<1>8. /\ DepJobs(f, b) \in Seq(DepJob) /\ Len(DepJobs(f, b)) = Len(Queued(b))
      /\ \A i \in 1..Len(Queued(b)) :
           DepJobs(f, b)[i] = [tpl |-> Top.tpl, idx |-> Queued(b)[i], base |-> f.base,
                               inst |-> Top.inst]
  <2> DEFINE k == Len(Queued(b))
  <2>1. k \in Nat /\ \A i \in 1..k : Queued(b)[i] \in Nat
    BY <1>2, <1>7
  <2>2. DepJobs(f, b) = [i \in 1..k |-> [tpl |-> Top.tpl, idx |-> Queued(b)[i],
                                         base |-> f.base, inst |-> Top.inst]]
    BY <1>1 DEF DepJobs
  <2>3. \A i \in 1..k : [tpl |-> Top.tpl, idx |-> Queued(b)[i], base |-> f.base,
                          inst |-> Top.inst] \in DepJob
    BY <1>1, <1>3, <2>1 DEF DepJob
  <2> HIDE DEF k
  <2> QED
    BY <2>1, <2>2, <2>3 DEF k
<1> QED
  BY <1>4, <1>6, <1>7, <1>8

LEMMA JobsStep ==
    ASSUME TypeOK, JobsNumbered, StampRows
    PROVE  JobsNumbered'
<1> DEFINE b == BodyOf(Top.tpl)
           q == RefJobs(Stamped, b)
<1>1. /\ stack # <<>> /\ b \in Body /\ replayJobs' = replayJobs \o q
      /\ crossJobs' = crossJobs \o DepJobs(Stamped, b)
      /\ last'["ref"] = last["ref"] + Size(b, "ref")
  BY RowsStamped DEF Reserved
<1>2. Size(b, "ref") = Len(b.refs)
  BY DEF Size
<1>3. /\ q \in Seq(RefJob) /\ Len(q) = Len(b.refs)
      /\ DepJobs(Stamped, b) \in Seq(DepJob)
  BY <1>1, JobsType
<1>4. ASSUME NEW i \in 1..Len(q) PROVE q[i].id = last["ref"] + i
  <2>1. i \in 1..Len(b.refs)
    BY <1>3
  <2>2. q[i] = [id |-> last["ref"] + i, inst |-> Top.inst, tpl |-> Top.tpl,
                idx |-> i, bind |-> Top.bind]
    <3>1. \A k \in 1..Len(b.refs) :
            RefJobs(Stamped, b)[k] =
              [id |-> last["ref"] + k, inst |-> Top.inst, tpl |-> Top.tpl,
               idx |-> k, bind |-> Top.bind]
      BY <1>1, JobsType
    <3> QED
      BY <2>1, <3>1
  <2> QED
    BY <2>2
<1> HIDE DEF b, q
<1> DEFINE r == replayJobs
<1>5. r \in Seq(RefJob) /\ crossJobs \in Seq(DepJob) /\ Len(r) = last["ref"]
  BY DEF JobsNumbered
<1>6. crossJobs' \in Seq(DepJob)
  BY <1>1, <1>3, <1>5, Concat
<1>7. \A i \in 1..Len(r) : r[i].id = i
  BY DEF JobsNumbered
<1>8. replayJobs' = r \o q
  BY <1>1
<1> HIDE DEF r
<1>9. /\ r \o q \in Seq(RefJob)
      /\ Len(r) \in Nat /\ Len(q) \in Nat /\ Len(r \o q) = Len(r) + Len(q)
  BY <1>3, <1>5, Concat
<1>10. \A i \in 1..Len(r) : i \in 1..Len(r \o q) /\ (r \o q)[i] = r[i]
  BY <1>3, <1>5, <1>9
<1>11. \A i \in 1..Len(q) : Len(r) + i \in 1..Len(r \o q) /\ (r \o q)[Len(r) + i] = q[i]
  BY <1>3, <1>5, <1>9
<1>12. \A j \in 1..Len(r \o q) : j \in 1..Len(r) \/ \E i \in 1..Len(q) : j = Len(r) + i
  <2>1. \A j \in 1..Len(r \o q) :
          j \notin 1..Len(r) => j - Len(r) \in 1..Len(q) /\ j = Len(r) + (j - Len(r))
    BY <1>9
  <2> QED
    BY <2>1
<1>13. \A j \in 1..Len(r \o q) : (r \o q)[j].id = j
  <2> DEFINE u == r \o q
  <2>1. \A i \in 1..Len(r) : u[i].id = i
    BY <1>7, <1>10
  <2>2. \A i \in 1..Len(q) : u[Len(r) + i].id = Len(r) + i
    BY <1>4, <1>5, <1>11
  <2>3. \A j \in 1..Len(u) : j \in 1..Len(r) \/ \E i \in 1..Len(q) : j = Len(r) + i
    BY <1>12
  <2> HIDE DEF u
  <2>4. \A j \in 1..Len(u) : u[j].id = j
    BY <2>1, <2>2, <2>3
  <2> QED
    BY <2>4 DEF u
<1> QED
  BY <1>1, <1>2, <1>3, <1>5, <1>6, <1>8, <1>9, <1>13 DEF JobsNumbered
LEMMA RefsStep ==
    TypeOK /\ PathInv /\ RefsIssued /\ [Next]_vars => RefsIssued'
<1> SUFFICES ASSUME TypeOK, PathInv, RefsIssued, [Next]_vars PROVE RefsIssued'
  OBVIOUS
<1>0. /\ "node" \in Counter /\ "conn" \in Counter /\ "net" \in Counter
      /\ "term" \in Counter /\ "dep" \in Counter /\ "ref" \in Counter
      /\ last \in [Counter -> Nat] /\ last["ref"] \in Nat
      /\ phase \in {"tree", "packages", "refs", "deps", "done"} /\ cursor \in Nat
  BY DEF Counter, Reserved, TypeOK
<1>1. ASSUME UNCHANGED <<replayJobs, crossJobs>>, last'["ref"] = last["ref"]
      PROVE  JobsNumbered'
  BY <1>1 DEF RefsIssued, JobsNumbered
<1>2. CASE UNCHANGED <<phase, ref, replayJobs, crossJobs>> /\ last'["ref"] = last["ref"]
           /\ (phase = "refs" => cursor' = cursor)
  BY <1>1, <1>2 DEF RefsIssued, RefsWritten, Block, Ids, Distinct
<1>3. CASE StampTop \/ EnterChildren \/ StampConns \/ StampUnresolved \/ StampPackage
           \/ CrossDep
  <2>1. UNCHANGED <<phase, ref, replayJobs, crossJobs>>
    BY <1>3 DEF StampTop, EnterChildren, StampConns, StampUnresolved, StampPackage,
                CrossDep, dbVars
  <2>2. phase # "refs"
    BY <1>3 DEF StampTop, EnterChildren, StampConns, StampUnresolved, StampPackage,
                CrossDep, ChildDue, At
  <2>3. \/ \E k : last' = [last EXCEPT !["node"] = k]
        \/ \E k : last' = [last EXCEPT !["conn"] = k]
        \/ \E k, m : last' = [last EXCEPT !["term"] = k, !["conn"] = m]
        \/ \E k, m : last' = [last EXCEPT !["node"] = k, !["net"] = m]
        \/ \E k : last' = [last EXCEPT !["dep"] = k]
        \/ last' = last
    BY <1>3 DEF StampTop, EnterChildren, StampConns, StampUnresolved, StampPackage,
                CrossDep
  <2>4. last'["ref"] = last["ref"]
    BY <1>0, <2>3
  <2> QED
    BY <1>2, <2>1, <2>2, <2>4
<1>4. CASE CutRecursion \/ StampChildModule \/ Return \/ UNCHANGED vars
  <2>1. UNCHANGED <<phase, cursor, ref, replayJobs, crossJobs, last>>
    BY <1>4 DEF CutRecursion, StampChildModule, Return, dbVars, vars
  <2> QED
    BY <1>2, <2>1
<1>5. CASE StampRows
  <2>1. UNCHANGED <<phase, ref>> /\ phase = "tree"
    BY <1>5 DEF StampRows, At
  <2>2. JobsNumbered'
    BY <1>5, JobsStep DEF RefsIssued
  <2> QED
    BY <2>1, <2>2 DEF RefsIssued, RefsWritten
<1>6. CASE ResolveRef
  <2> DEFINE job == replayJobs[cursor + 1]
             row == [id |-> job.id, inst |-> job.inst, tpl |-> job.tpl,
                     idx |-> job.idx, net |-> Resolve(job)]
  <2>1. /\ phase = "refs" /\ phase' = phase /\ cursor < Len(replayJobs)
        /\ cursor' = cursor + 1 /\ ref' = ref \cup {row}
        /\ UNCHANGED <<replayJobs, crossJobs, last>>
    BY <1>6 DEF ResolveRef
  <2>2. row.id = cursor + 1
    BY <1>0, <2>1 DEF RefsIssued, JobsNumbered
  <2> HIDE DEF row
  <2>3. Block({row}, cursor, cursor + 1)
    BY <1>0, <2>2 DEF Block, Ids, Distinct
  <2>4. Block(ref', 0, cursor')
    <3>1. /\ 0 <= cursor /\ cursor <= cursor + 1 /\ cursor + 1 \in Nat
      BY <1>0
    <3>2. Block(ref, 0, cursor)
      BY <2>1 DEF RefsIssued, RefsWritten
    <3> QED
      BY <1>0, <2>1, <2>3, <3>1, <3>2, BlockGrows
  <2>5. cursor' <= last'["ref"]
    BY <1>0, <2>1 DEF RefsIssued, JobsNumbered
  <2>6. JobsNumbered'
    BY <1>1, <2>1
  <2> QED
    BY <2>1, <2>4, <2>5, <2>6 DEF RefsIssued, RefsWritten, Block, Ids, Distinct
<1>7. CASE Advance
  <2>1. /\ cursor = Work /\ cursor' = 0
        /\ UNCHANGED <<last, ref, replayJobs, crossJobs>>
        /\ phase' = CASE phase = "tree" -> "packages"
                      [] phase = "packages" -> "refs"
                      [] phase = "refs" -> "deps"
                      [] OTHER -> "done"
        /\ phase # "done"
    BY <1>7 DEF Advance, dbVars
  <2>2. JobsNumbered'
    BY <1>1, <2>1
  <2>3. CASE phase = "tree"
    BY <2>1, <2>2, <2>3 DEF RefsIssued, RefsWritten
  <2>4. CASE phase = "packages"
    <3>1. ref' = {} /\ phase' = "refs" /\ cursor' = 0 /\ 0 <= last'["ref"]
      BY <1>0, <2>1, <2>4 DEF RefsIssued, RefsWritten
    <3>2. Block({}, 0, 0)
      BY NoBlock
    <3> QED
      BY <2>2, <3>1, <3>2 DEF RefsIssued, RefsWritten, Block, Ids, Distinct
  <2>5. CASE phase = "refs"
    <3>1. cursor = last["ref"]
      BY <2>1, <2>5 DEF Work, RefsIssued, JobsNumbered
    <3> QED
      BY <2>1, <2>2, <2>5, <3>1 DEF RefsIssued, RefsWritten, Block, Ids, Distinct
  <2>6. CASE phase = "deps"
    BY <2>1, <2>2, <2>6 DEF RefsIssued, RefsWritten, Block, Ids, Distinct
  <2> QED
    BY <1>0, <2>1, <2>3, <2>4, <2>5, <2>6
<1> QED
  BY <1>3, <1>4, <1>5, <1>6, <1>7 DEF Next

-----------------------------------------------------------------------------
(* The ids.                                                                *)

IdsInv == Fresh /\ TablesIssued /\ NodesIssued /\ RefsIssued

LEMMA IdsInductive == Spec => [](TypeOK /\ PathInv /\ IdsInv)
<1>1. Init => IdsInv
  BY FreshInit, TablesInit, NodesInit, RefsInit DEF IdsInv
<1>2. TypeOK /\ PathInv /\ IdsInv /\ [Next]_vars => IdsInv'
  BY FreshStep, TablesStep, NodesStep, RefsStep DEF IdsInv
<1> QED
  BY <1>1, <1>2, Inductive, PTL DEF Spec

\* Rows that are told apart by their ids are as many as these.
LEMMA AsManyIds ==
    ASSUME NEW table, Distinct(table), NEW n \in Nat, Ids(table) \subseteq 1..n
    PROVE  Cardinality(table) = Cardinality(Ids(table))
<1> DEFINE f == [r \in table |-> r.id]
<1>1. f \in Bijection(table, Ids(table))
  BY DEF Distinct, Ids, Bijection, Injection, Surjection, IsInjective
<1>2. IsFiniteSet(Ids(table))
  BY UpTo, FS_Subset
<1> HIDE DEF f
<1>3. f \in Injection(table, Ids(table)) /\ f \in Surjection(table, Ids(table))
  BY <1>1 DEF Bijection
<1> QED
  BY <1>2, <1>3, FS_Injection

(* For every design whose templates have indices of their own, every table *)
(* has the ids 1..n, each in one row: blocks reserved before their rows    *)
(* are written, node ids promised to children and the queue of references  *)
(* never skip an id nor give one away twice.                               *)
THEOREM IdsAreIssuedOnce == Spec => []IdsIssuedOnce
<1>1. TypeOK /\ IdsInv => IdsIssuedOnce
  <2> SUFFICES ASSUME TypeOK, IdsInv PROVE IdsIssuedOnce
    OBVIOUS
  <2>1. \A c \in Counter : last[c] \in Nat
    BY DEF TypeOK
  <2>2. /\ "node" \in Counter /\ "conn" \in Counter /\ "net" \in Counter
        /\ "term" \in Counter /\ "dep" \in Counter /\ "ref" \in Counter
        /\ Plain \subseteq Counter
    BY DEF Counter, Reserved
  <2>3. /\ IsDense(net, last["net"]) /\ IsDense(term, last["term"])
        /\ \A tab \in Plain : IsDense(rows[tab], last[tab])
        /\ IsDense(conn, last["conn"]) /\ IsDense(dep, last["dep"])
    BY <2>1, <2>2, BlockIsDense DEF IdsInv, TablesIssued
  <2>4. /\ Ids(tree) \cup AllPromised = 1..last["node"]
        /\ Ids(tree) \cap AllPromised = {}
        /\ Cardinality(tree) = Cardinality(Ids(tree))
    BY <2>1, <2>2, AsManyIds DEF IdsInv, NodesIssued
  <2>5. /\ Distinct(ref) /\ Ids(ref) \subseteq 1..last["ref"]
        /\ phase = "done" => Ids(ref) = 1..last["ref"]
    <3>1. CASE phase \in {"tree", "packages"}
      BY <3>1 DEF IdsInv, RefsIssued, RefsWritten, Distinct, Ids
    <3>2. CASE phase = "refs"
      <4>1. Ids(ref) = 1..cursor /\ Distinct(ref) /\ cursor <= last["ref"]
        BY <3>2 DEF IdsInv, RefsIssued, RefsWritten, Block
      <4> QED
        BY <2>1, <2>2, <3>2, <4>1 DEF TypeOK
    <3>3. CASE phase \in {"deps", "done"}
      <4>1. Block(ref, 0, last["ref"])
        BY <3>3 DEF IdsInv, RefsIssued, RefsWritten
      <4>2. Ids(ref) = 1..last["ref"] /\ Distinct(ref)
        BY <4>1 DEF Block
      <4> QED
        BY <4>2
    <3> QED
      BY <3>1, <3>2, <3>3 DEF TypeOK
  <2>6. Cardinality(ref) = Cardinality(Ids(ref))
    BY <2>1, <2>2, <2>5, AsManyIds
  <2> QED
    BY <2>3, <2>4, <2>5, <2>6 DEF IdsIssuedOnce
<1> QED
  BY IdsInductive, <1>1, PTL

-----------------------------------------------------------------------------
(* Rows and jobs are never taken back.                                     *)

Grown ==
    /\ design' = design
    /\ net \subseteq net' /\ term \subseteq term' /\ inst \subseteq inst'
    /\ \A tab \in Plain : rows[tab] \subseteq rows'[tab]
    /\ ref \subseteq ref' /\ dep \subseteq dep'
    /\ \A i \in 1..Len(replayJobs) :
         i \in 1..Len(replayJobs') /\ replayJobs'[i] = replayJobs[i]
    /\ \A i \in 1..Len(crossJobs) :
         i \in 1..Len(crossJobs') /\ crossJobs'[i] = crossJobs[i]

LEMMA Prefix ==
    ASSUME NEW S, NEW s \in Seq(S), NEW t \in Seq(S), NEW i \in 1..Len(s)
    PROVE  i \in 1..Len(s \o t) /\ (s \o t)[i] = s[i]
  OBVIOUS

LEMMA Grows ==
    ASSUME TypeOK, JobsNumbered, [Next]_vars
    PROVE  Grown
<1>1. CASE StampRows
  <2> DEFINE b == BodyOf(Top.tpl)
  <2>1. /\ stack # <<>> /\ b \in Body
        /\ net' = net \cup NetRows(Stamped, b) /\ term' = term \cup TermRows(Stamped, b)
        /\ \A tab \in Plain : rows'[tab] = rows[tab] \cup PlainRows(Stamped, b, tab)
        /\ dep' = dep \cup DepRows(Stamped, b)
        /\ replayJobs' = replayJobs \o RefJobs(Stamped, b)
        /\ crossJobs' = crossJobs \o DepJobs(Stamped, b)
        /\ UNCHANGED <<design, inst, ref>>
    BY <1>1, RowsStamped
  <2>2. RefJobs(Stamped, b) \in Seq(RefJob) /\ DepJobs(Stamped, b) \in Seq(DepJob)
    BY <2>1, JobsType
  <2> HIDE DEF b
  <2>3. \A i \in 1..Len(replayJobs) :
          i \in 1..Len(replayJobs') /\ replayJobs'[i] = replayJobs[i]
    BY <2>1, <2>2, Prefix DEF JobsNumbered
  <2>4. \A i \in 1..Len(crossJobs) :
          i \in 1..Len(crossJobs') /\ crossJobs'[i] = crossJobs[i]
    BY <2>1, <2>2, Prefix DEF JobsNumbered
  <2> QED
    BY <2>1, <2>3, <2>4 DEF Grown
<1>2. CASE \/ StampTop \/ CutRecursion \/ EnterChildren \/ StampChildModule
           \/ StampConns \/ StampUnresolved \/ Return \/ StampPackage \/ ResolveRef
           \/ CrossDep \/ Advance \/ UNCHANGED vars
  <2>1. /\ UNCHANGED <<design, rows, replayJobs, crossJobs>>
        /\ net \subseteq net' /\ term \subseteq term' /\ inst \subseteq inst'
        /\ ref \subseteq ref' /\ dep \subseteq dep'
    BY <1>2 DEF StampTop, CutRecursion, EnterChildren, StampChildModule, StampConns,
                StampUnresolved, Return, StampPackage, ResolveRef, CrossDep, Advance,
                dbVars, vars
  <2> QED
    BY <2>1 DEF Grown
<1> QED
  BY <1>1, <1>2 DEF Next

-----------------------------------------------------------------------------
(* Whose rows they are.                                                    *)

\* The n rows of a table after base are instance i's; likewise the jobs.
Owned(table, base, n, i) ==
    \A k \in 1..n : \E r \in table : r.id = base + k /\ r.inst = i
JobsOf(jobs, base, n, i) ==
    \A k \in 1..n : base + k \in 1..Len(jobs) /\ jobs[base + k].inst = i

\* What an occurrence whose body is stamped has.
Owns(f, nets, jobs) ==
    /\ Owned(nets, f.base["net"], Len(BodyOf(f.tpl).nets), f.inst)
    /\ JobsOf(jobs, f.base["ref"], Len(BodyOf(f.tpl).refs), f.inst)

LEMMA OwnsStill ==
    ASSUME NEW f, NEW g, g.base = f.base, g.tpl = f.tpl, g.inst = f.inst,
           Owns(f, net, replayJobs), Grown
    PROVE  Owns(g, net', replayJobs')
<1>1. net \subseteq net'
      /\ \A i \in 1..Len(replayJobs) :
           i \in 1..Len(replayJobs') /\ replayJobs'[i] = replayJobs[i]
  BY DEF Grown
<1>2. Owned(net', f.base["net"], Len(BodyOf(f.tpl).nets), f.inst)
  BY <1>1 DEF Owns, Owned
<1>3. JobsOf(replayJobs', f.base["ref"], Len(BodyOf(f.tpl).refs), f.inst)
  BY <1>1 DEF Owns, JobsOf
<1> QED
  BY <1>2, <1>3 DEF Owns

\* The rows an occurrence has just stamped are its own.
LEMMA StampedOwns ==
    ASSUME TypeOK, JobsNumbered, StampRows
    PROVE  /\ Owns(Stamped, net', replayJobs')
           /\ Owned(term', last["term"], BodyOf(Top.tpl).terms, Top.inst)
<1> DEFINE b == BodyOf(Top.tpl)
           f == Stamped
           q == RefJobs(f, b)
<1>1. /\ stack # <<>> /\ b \in Body /\ net' = net \cup NetRows(f, b)
      /\ term' = term \cup TermRows(f, b) /\ replayJobs' = replayJobs \o q
  BY RowsStamped
<1>2. /\ f.tpl = Top.tpl /\ f.inst = Top.inst
      /\ \A tab \in Reserved : f.base[tab] = last[tab]
      /\ "net" \in Reserved /\ "term" \in Reserved /\ "ref" \in Reserved
  BY <1>1, StampedType DEF Reserved
<1>3. /\ q \in Seq(RefJob) /\ Len(q) = Len(b.refs)
      /\ \A i \in 1..Len(b.refs) : q[i].inst = Top.inst
  <2>1. q \in Seq(RefJob) /\ Len(q) = Len(b.refs)
    BY <1>1, JobsType
  <2>2. \A i \in 1..Len(b.refs) :
          q[i] = [id |-> last["ref"] + i, inst |-> Top.inst, tpl |-> Top.tpl,
                  idx |-> i, bind |-> Top.bind]
    BY <1>1, JobsType
  <2>3. ASSUME NEW i \in 1..Len(b.refs) PROVE q[i].inst = Top.inst
    <3>1. q[i] = [id |-> last["ref"] + i, inst |-> Top.inst, tpl |-> Top.tpl,
                  idx |-> i, bind |-> Top.bind]
      BY <2>2
    <3> HIDE DEF q, b, f
    <3> QED
      BY <3>1
  <2> QED
    BY <2>1, <2>3
<1>4. Owned(net', f.base["net"], Len(b.nets), f.inst)
  <2>1. ASSUME NEW k \in 1..Len(b.nets)
        PROVE  \E r \in net' : r.id = f.base["net"] + k /\ r.inst = f.inst
    <3> DEFINE row == [id |-> f.base["net"] + k, inst |-> f.inst, name |-> b.nets[k]]
    <3>1. row \in net'
      BY <1>1 DEF NetRows
    <3> QED
      BY <3>1
  <2> QED
    BY <2>1 DEF Owned
<1>5. Owned(term', last["term"], b.terms, Top.inst)
  <2>1. ASSUME NEW k \in 1..b.terms
        PROVE  \E r \in term' : r.id = last["term"] + k /\ r.inst = Top.inst
    <3> DEFINE row == [id |-> f.base["term"] + k, inst |-> f.inst]
    <3>1. row \in term'
      BY <1>1 DEF TermRows
    <3>2. row.id = last["term"] + k /\ row.inst = Top.inst
      BY <1>2
    <3> QED
      BY <3>1, <3>2
  <2> QED
    BY <2>1 DEF Owned
<1>6. JobsOf(replayJobs', f.base["ref"], Len(b.refs), f.inst)
  <2> HIDE DEF q, b, f
  <2> DEFINE r == replayJobs
  <2>1. r \in Seq(RefJob) /\ Len(r) = last["ref"] /\ replayJobs' = r \o q
    BY <1>1 DEF JobsNumbered
  <2> HIDE DEF r
  <2>2. \A i \in 1..Len(q) : Len(r) + i \in 1..Len(r \o q) /\ (r \o q)[Len(r) + i] = q[i]
    <3>1. PICK u \in Seq(RefJob), v \in Seq(RefJob) : u = r /\ v = q
      BY <1>3, <2>1
    <3>2. \A i \in 1..Len(v) : Len(u) + i \in 1..Len(u \o v) /\ (u \o v)[Len(u) + i] = v[i]
      BY Concat
    <3> QED
      BY <3>1, <3>2
  <2> QED
    BY <1>2, <1>3, <2>1, <2>2 DEF JobsOf
<1> QED
  BY <1>2, <1>4, <1>5, <1>6 DEF Owns

\* An instance row comes with its node, and no node comes twice.
InstsOnce == Ids(inst) \subseteq Ids(tree) /\ Distinct(inst)

LEMMA InstAdded ==
    ASSUME InstsOnce, NEW r, NEW node, r.id \notin Ids(tree), node.id = r.id,
           inst' = inst \cup {r}, tree' = tree \cup {node}
    PROVE  InstsOnce'
<1>1. \A q \in inst : q.id \in Ids(tree) /\ q.id # r.id
  BY DEF InstsOnce, Ids
<1>2. Distinct(inst')
  BY <1>1 DEF InstsOnce, Distinct
<1>3. Ids(inst') \subseteq Ids(tree')
  <2>1. Ids(inst') = Ids(inst) \cup {r.id} /\ Ids(tree') = Ids(tree) \cup {r.id}
    BY DEF Ids
  <2> QED
    BY <2>1 DEF InstsOnce
<1> QED
  BY <1>2, <1>3 DEF InstsOnce, Ids, Distinct

\* The next child's node is promised, so it is not there yet.
LEMMA ChildPromised ==
    ASSUME TypeOK, NodesIssued, ChildDue
    PROVE  ChildId \notin Ids(tree)
<1>1. stack # <<>> /\ Top.stage = "kids" /\ Top.next <= Len(BodyOf(Top.tpl).children)
  BY DEF ChildDue, At
<1>2. Top.next \in Nat /\ Len(BodyOf(Top.tpl).children) \in Nat
  BY <1>1, TopBody, BodyParts DEF Frame
<1>3. ChildId \in Promised(Top)
  <2>1. Promised(Top) = {Top.childBase + i :
                           i \in Top.next..Len(BodyOf(Top.tpl).children)}
    BY <1>1, PromisedBy
  <2>2. Top.next \in Top.next..Len(BodyOf(Top.tpl).children)
    BY <1>1, <1>2
  <2> QED
    BY <2>1, <2>2 DEF ChildId
<1>4. ChildId \in AllPromised
  <2>1. Len(stack) \in 1..Len(stack) /\ Top = stack[Len(stack)]
    BY <1>1, TopBody
  <2> QED
    BY <1>3, <2>1 DEF AllPromised
<1> QED
  BY <1>4 DEF NodesIssued

LEMMA InstsStep ==
    ASSUME TypeOK, PathInv, NodesIssued, InstsOnce, [Next]_vars
    PROVE  InstsOnce'
<1>1. CASE inst' = inst /\ tree \subseteq tree'
  BY <1>1 DEF InstsOnce, Ids, Distinct
<1>2. last["node"] + 1 \notin Ids(tree)
  BY DEF NodesIssued, TypeOK, Counter
<1>3. CASE StampTop
  <2> DEFINE top == design.tops[cursor + 1]
             r == InstRow(last["node"] + 1, top.tpl, 0)
             node == NodeRow(last["node"] + 1, 0, top.name, "root", cursor)
  <2>1. inst' = inst \cup {r} /\ tree' = tree \cup {node}
    BY <1>3 DEF StampTop
  <2>2. r.id = last["node"] + 1 /\ node.id = r.id
    BY DEF InstRow, NodeRow
  <2> HIDE DEF r, node
  <2> QED
    BY <1>2, <2>1, <2>2, InstAdded
<1>4. CASE StampChildModule
  <2> DEFINE r == InstRow(ChildId, NextChild.tpl, Top.inst)
             node == ChildNode("instance")
  <2>1. inst' = inst \cup {r} /\ tree' = tree \cup {node} /\ ChildDue
    BY <1>4 DEF StampChildModule
  <2>2. r.id = ChildId /\ node.id = r.id
    BY DEF InstRow, NodeRow, ChildNode
  <2> HIDE DEF r, node
  <2> QED
    BY <2>1, <2>2, ChildPromised, InstAdded
<1>5. CASE StampUnresolved
  <2> DEFINE r == BlackBoxRow(ChildId, Top.inst)
             node == ChildNode("unresolved")
  <2>1. inst' = inst \cup {r} /\ tree' = tree \cup {node} /\ ChildDue
    BY <1>5 DEF StampUnresolved
  <2>2. r.id = ChildId /\ node.id = r.id
    BY DEF BlackBoxRow, NodeRow, ChildNode
  <2> HIDE DEF r, node
  <2> QED
    BY <2>1, <2>2, ChildPromised, InstAdded
<1>6. CASE StampPackage
  <2> DEFINE r == BlackBoxRow(last["node"] + 1, 0)
             node == NodeRow(last["node"] + 1, 0, design.packages[cursor + 1].name,
                             "package", Len(design.tops) + cursor)
  <2>1. inst' = inst \cup {r} /\ tree' = tree \cup {node}
    BY <1>6 DEF StampPackage
  <2>2. r.id = last["node"] + 1 /\ node.id = r.id
    BY DEF BlackBoxRow, NodeRow
  <2> HIDE DEF r, node
  <2> QED
    BY <1>2, <2>1, <2>2, InstAdded
<1>7. CASE \/ StampRows \/ CutRecursion \/ EnterChildren \/ StampConns \/ Return
           \/ ResolveRef \/ CrossDep \/ Advance \/ UNCHANGED vars
  <2>1. inst' = inst /\ tree \subseteq tree'
    BY <1>7 DEF StampRows, CutRecursion, EnterChildren, StampConns, Return,
                ResolveRef, CrossDep, Advance, dbVars, vars
  <2> QED
    BY <1>1, <2>1
<1> QED
  BY <1>3, <1>4, <1>5, <1>6, <1>7 DEF Next

\* Every occurrence whose body is stamped has its nets and its references.
FramesOwn ==
    \A i \in 1..Len(stack) :
        stack[i].stage # "rows" => Owns(stack[i], net, replayJobs)

\* What becomes of the frames.
LEMMA FrameCases ==
    ASSUME TypeOK, PathInv, [Next]_vars, NEW i \in 1..Len(stack')
    PROVE  \/ i \in 1..Len(stack) /\ stack'[i] = stack[i]
           \/ StampRows /\ stack'[i] = Stamped
           \/ /\ stack # <<>> /\ Top.stage # "rows"
              /\ stack'[i].base = Top.base /\ stack'[i].tpl = Top.tpl
              /\ stack'[i].inst = Top.inst
           \/ stack'[i].stage = "rows"
<1>1. CASE stack' = stack
  BY <1>1
<1>2. CASE StampTop
  <2> DEFINE g == NewFrame(design.tops[cursor + 1].tpl, last["node"] + 1, {})
  <2>1. Len(stack') = 1 /\ stack'[1] = g /\ g.stage = "rows"
    BY <1>2, StackOfTop, NewFrameFields
  <2> HIDE DEF g
  <2>2. i = 1
    BY <2>1
  <2> QED
    BY <2>1, <2>2
<1>3. CASE \/ StampRows \/ CutRecursion \/ EnterChildren \/ StampChildModule
           \/ StampConns \/ StampUnresolved \/ Return
  <2> DEFINE n == Len(stack)
  <2>1. stack # <<>> /\ n \in Nat \ {0}
    BY <1>3, OnStack, TopBody
  <2>2. ~StampRows => Top.stage # "rows"
    BY <1>3 DEF CutRecursion, EnterChildren, StampChildModule, StampConns,
                StampUnresolved, Return, ChildDue, At
  <2>3. BelowKept /\ Len(stack') \in {n - 1, n, n + 1}
    BY <1>3, <2>1, StackMoves DEF Topped
  <2>4. CASE i \in 1..(n - 1)
    BY <2>1, <2>3, <2>4 DEF BelowKept
  <2>5. CASE i = n + 1
    <3>1. StampChildModule /\ stack'[n + 1] = ChildFrame
      BY <1>3, <2>1, <2>5, StackMoves DEF Topped
    <3>2. ChildFrame.stage = "rows"
      BY NewFrameFields DEF ChildFrame
    <3> QED
      BY <2>5, <3>1, <3>2
  <2>6. CASE i = n
    <3>1. /\ StampRows => stack'[n] = Stamped
          /\ ~StampRows => stack'[n] \in {Entering, Waiting, Following}
      BY <1>3, <2>1, <2>6, StackMoves DEF Topped
    <3>2. ASSUME NEW f \in {Entering, Waiting, Following}
          PROVE  f.base = Top.base /\ f.tpl = Top.tpl /\ f.inst = Top.inst
      BY <2>1, FrameFields
    <3> QED
      BY <2>1, <2>2, <2>6, <3>1, <3>2
  <2> QED
    BY <2>1, <2>3, <2>4, <2>5, <2>6
<1> QED
  BY <1>1, <1>2, <1>3, StackStays DEF Next

LEMMA FramesStep ==
    ASSUME TypeOK, PathInv, JobsNumbered, FramesOwn, [Next]_vars
    PROVE  FramesOwn'
<1>1. Grown
  BY Grows
<1>2. ASSUME NEW i \in 1..Len(stack'), stack'[i].stage # "rows"
      PROVE  Owns(stack'[i], net', replayJobs')
  <2>1. CASE i \in 1..Len(stack) /\ stack'[i] = stack[i]
    <3>1. Owns(stack[i], net, replayJobs)
      BY <1>2, <2>1 DEF FramesOwn
    <3> QED
      BY <1>1, <2>1, <3>1, OwnsStill
  <2>2. CASE StampRows /\ stack'[i] = Stamped
    BY <2>2, StampedOwns
  <2>3. CASE /\ stack # <<>> /\ Top.stage # "rows"
             /\ stack'[i].base = Top.base /\ stack'[i].tpl = Top.tpl
             /\ stack'[i].inst = Top.inst
    <3>1. Len(stack) \in 1..Len(stack) /\ Top = stack[Len(stack)]
      BY <2>3, TopBody
    <3>2. Owns(Top, net, replayJobs)
      BY <2>3, <3>1 DEF FramesOwn
    <3> QED
      BY <1>1, <2>3, <3>2, OwnsStill
  <2> QED
    BY <1>2, <2>1, <2>2, <2>3, FrameCases
<1> QED
  BY <1>1, <1>2 DEF FramesOwn, Owns, Owned, JobsOf, BodyOf, Grown

\* What an occurrence that waits for a child knows of it: the child's inst
\* row, that the ids of its terminals start where termBase says, and then
\* that the terminals there are the child's.
ChildAt(f) == BodyOf(f.tpl).children[f.next]
Told(f, insts) ==
    /\ ChildAt(f).kind = "module"
    /\ \E r \in insts : r.id = f.childBase + f.next /\ r.parent = f.inst
Begins(f, g, terms) ==
    /\ g.tpl = ChildAt(f).tpl /\ g.inst = f.childBase + f.next
    /\ f.termBase = terms
HasTerms(f, terms) ==
    Owned(terms, f.termBase, BodyOf(ChildAt(f).tpl).terms, f.childBase + f.next)

ChildTold ==
    \A i \in 1..Len(stack) :
        stack[i].stage = "conns" =>
            /\ Told(stack[i], inst)
            /\ IF i < Len(stack) /\ stack[i + 1].stage = "rows"
               THEN Begins(stack[i], stack[i + 1], last["term"])
               ELSE HasTerms(stack[i], term)

LEMMA ToldStill ==
    ASSUME Grown, NEW f
    PROVE  /\ Told(f, inst) => Told(f, inst')
           /\ HasTerms(f, term) => HasTerms(f, term')
  BY DEF Grown, Told, HasTerms, Owned

\* The occurrences that wait below the innermost one.
LEMMA ToldBelow ==
    ASSUME TypeOK, PathInv, JobsNumbered, ChildTold, StampRows \/ Top.stage # "rows",
           stack # <<>>, [Next]_vars, NEW i \in 1..(Len(stack) - 1)
    PROVE  stack[i].stage = "conns" /\ Told(stack[i], inst') /\ HasTerms(stack[i], term')
<1> DEFINE n == Len(stack)
           f == stack[i]
<1>1. n \in Nat \ {0} /\ Top = stack[n] /\ Grown
  BY TopBody, Grows
<1>2. i \in 1..n /\ i < n /\ f.stage = "conns" /\ i + 1 \in 1..n
  BY <1>1 DEF PathInv, Suspended
<1>3. Told(f, inst')
  BY <1>1, <1>2, ToldStill DEF ChildTold
<1>4. CASE i < n - 1 \/ Top.stage # "rows"
  <2>1. stack[i + 1].stage # "rows"
    <3>1. CASE i < n - 1
      <4>1. i + 1 \in 1..(n - 1)
        BY <1>1, <1>2, <3>1
      <4> QED
        BY <4>1 DEF PathInv, Suspended
    <3>2. CASE i = n - 1
      BY <1>1, <1>2, <1>4, <3>2
    <3> QED
      BY <1>1, <1>2, <3>1, <3>2
  <2>2. HasTerms(f, term)
    BY <1>2, <2>1 DEF ChildTold
  <2> QED
    BY <1>1, <1>2, <1>3, <2>2, ToldStill
<1>5. CASE i = n - 1 /\ StampRows
  <2>0. i + 1 = n
    BY <1>1, <1>5
  <2>1. Top.stage = "rows" /\ stack[i + 1] = Top
    BY <1>1, <1>5, <2>0 DEF StampRows, At
  <2>2. Begins(f, Top, last["term"])
    BY <1>2, <2>1 DEF ChildTold
  <2>3. Owned(term', last["term"], BodyOf(Top.tpl).terms, Top.inst)
    BY <1>5, StampedOwns
  <2>4. HasTerms(f, term')
    BY <2>2, <2>3 DEF Begins, HasTerms
  <2> QED
    BY <1>2, <1>3, <2>4
<1> QED
  BY <1>1, <1>2, <1>4, <1>5

LEMMA ToldInit == Init => ChildTold
  BY DEF Init, ChildTold

\* The innermost occurrence begins to wait for a module.
LEMMA WaitingTold ==
    ASSUME TypeOK, StampChildModule
    PROVE  Told(Waiting, inst') /\ Begins(Waiting, ChildFrame, last'["term"])
<1>1. /\ stack # <<>> /\ NextChild.kind = "module" /\ last' = last
      /\ inst' = inst \cup {InstRow(ChildId, NextChild.tpl, Top.inst)}
  BY DEF StampChildModule, ChildDue, At
<1>2. /\ Waiting.tpl = Top.tpl /\ Waiting.next = Top.next /\ Waiting.inst = Top.inst
      /\ Waiting.childBase = Top.childBase /\ Waiting.termBase = last["term"]
  BY <1>1, FrameFields
<1>3. ChildAt(Waiting) = NextChild /\ ChildId = Waiting.childBase + Waiting.next
  BY <1>2 DEF ChildAt, NextChild, ChildId
<1>4. Told(Waiting, inst')
  <2> DEFINE r == InstRow(ChildId, NextChild.tpl, Top.inst)
  <2>1. r.id = ChildId /\ r.parent = Top.inst /\ r \in inst'
    BY <1>1 DEF InstRow
  <2> HIDE DEF r
  <2> QED
    BY <1>1, <1>2, <1>3, <2>1 DEF Told
<1>5. ChildFrame.tpl = NextChild.tpl /\ ChildFrame.inst = ChildId
  BY NewFrameFields DEF ChildFrame
<1> QED
  BY <1>1, <1>2, <1>3, <1>4, <1>5 DEF Begins

LEMMA ToldStep ==
    ASSUME TypeOK, PathInv, JobsNumbered, ChildTold, [Next]_vars
    PROVE  ChildTold'
<1> DEFINE n == Len(stack)
           Told1(i) ==
             stack'[i].stage = "conns" =>
               /\ Told(stack'[i], inst')
               /\ IF i < Len(stack') /\ stack'[i + 1].stage = "rows"
                  THEN Begins(stack'[i], stack'[i + 1], last'["term"])
                  ELSE HasTerms(stack'[i], term')
<1>0. Grown
  BY Grows
<1>1. CASE stack' = stack /\ last'["term"] = last["term"]
  <2>1. ASSUME NEW i \in 1..Len(stack), stack[i].stage = "conns"
        PROVE  /\ Told(stack[i], inst')
               /\ IF i < Len(stack) /\ stack[i + 1].stage = "rows"
                  THEN Begins(stack[i], stack[i + 1], last["term"])
                  ELSE HasTerms(stack[i], term')
    BY <1>0, <2>1, ToldStill DEF ChildTold
  <2> HIDE DEF Told1
  <2>2. \A i \in 1..Len(stack') : Told1(i)
    BY <1>1, <2>1 DEF Told1
  <2> QED
    BY <1>0, <2>2 DEF Told1, ChildTold, Told, Begins, HasTerms, ChildAt, Owned,
                       BodyOf, Grown
<1>2. CASE StampTop
  <2> DEFINE g == NewFrame(design.tops[cursor + 1].tpl, last["node"] + 1, {})
  <2>1. Len(stack') = 1 /\ stack'[1] = g /\ g.stage = "rows"
    BY <1>2, StackOfTop, NewFrameFields
  <2> HIDE DEF g
  <2> QED
    BY <2>1 DEF ChildTold
<1>3. CASE \/ StampRows \/ CutRecursion \/ EnterChildren \/ StampChildModule
           \/ StampConns \/ StampUnresolved \/ Return
  <2>1. stack # <<>> /\ n \in Nat \ {0}
    BY <1>3, OnStack, TopBody
  <2>2. BelowKept /\ Len(stack') \in {n - 1, n, n + 1}
    BY <1>3, <2>1, StackMoves DEF Topped
  <2>3. StampRows \/ Top.stage # "rows"
    BY <1>3 DEF CutRecursion, EnterChildren, StampChildModule, StampConns,
                StampUnresolved, Return, ChildDue, At
  <2>4. Len(stack') >= n =>
          stack'[n].stage \in {"guard", "kids"} \/
          (StampChildModule /\ Len(stack') = n + 1 /\ stack'[n] = Waiting
             /\ stack'[n + 1] = ChildFrame)
    <3>1. Stamped.stage = "guard" /\ Entering.stage = "kids" /\ Following.stage = "kids"
      BY <2>1, StampedType, FrameFields
    <3>2. CASE CutRecursion \/ Return
      BY <2>1, <3>2, StackMoves
    <3> QED
      BY <1>3, <2>1, <3>1, <3>2, StackMoves DEF Topped
  <2>5. ASSUME NEW i \in 1..(n - 1) PROVE Told1(i)
    <3>1. stack'[i] = stack[i]
      BY <2>2 DEF BelowKept
    <3>2. Told(stack[i], inst') /\ HasTerms(stack[i], term')
      BY <2>1, <2>3, ToldBelow
    <3>3. i < Len(stack') => stack'[i + 1].stage # "rows"
      <4>1. CASE i + 1 \in 1..(n - 1)
        <5>1. stack'[i + 1] = stack[i + 1] /\ stack[i + 1].stage = "conns"
          BY <2>2, <4>1 DEF PathInv, Suspended, BelowKept
        <5> QED
          BY <5>1
      <4>2. CASE i + 1 = n
        <5>1. Waiting.stage = "conns"
          BY <2>1, FrameFields
        <5> QED
          BY <2>1, <2>2, <2>4, <4>2, <5>1
      <4> QED
        BY <2>1, <4>1, <4>2
    <3> QED
      BY <3>1, <3>2, <3>3
  <2>6. ASSUME n \in 1..Len(stack') PROVE Told1(n)
    <3>1. CASE stack'[n].stage \in {"guard", "kids"}
      BY <3>1
    <3>2. CASE /\ StampChildModule /\ Len(stack') = n + 1 /\ stack'[n] = Waiting
               /\ stack'[n + 1] = ChildFrame
      <4>1. ChildFrame.stage = "rows"
        BY NewFrameFields DEF ChildFrame
      <4>2. Told(Waiting, inst') /\ Begins(Waiting, ChildFrame, last'["term"])
        BY <3>2, WaitingTold
      <4>3. n < Len(stack')
        BY <2>1, <3>2
      <4> QED
        BY <3>2, <4>1, <4>2, <4>3
    <3> QED
      BY <2>1, <2>4, <2>6, <3>1, <3>2
  <2>7. ASSUME n + 1 \in 1..Len(stack') PROVE Told1(n + 1)
    <3>1. StampChildModule /\ stack'[n + 1] = ChildFrame
      BY <1>3, <2>1, <2>2, <2>7, StackMoves DEF Topped
    <3>2. ChildFrame.stage = "rows"
      BY NewFrameFields DEF ChildFrame
    <3> QED
      BY <3>1, <3>2
  <2> HIDE DEF Told1
  <2>8. \A i \in 1..Len(stack') : Told1(i)
    <3>1. \A i \in 1..Len(stack') : i \in 1..(n - 1) \/ i = n \/ i = n + 1
      BY <2>1, <2>2
    <3> QED
      BY <2>5, <2>6, <2>7, <3>1
  <2> QED
    BY <1>0, <2>8 DEF Told1, ChildTold, Told, Begins, HasTerms, ChildAt, Owned,
                       BodyOf, Grown
<1>4. CASE StampPackage \/ ResolveRef \/ CrossDep \/ Advance \/ UNCHANGED vars
  <2>1. "term" \in Counter /\ "node" \in Counter /\ "net" \in Counter
        /\ "dep" \in Counter /\ last \in [Counter -> Nat]
    BY DEF Counter, Reserved, TypeOK
  <2>2. \/ last' = last
        \/ \E k, m : last' = [last EXCEPT !["node"] = k, !["net"] = m]
        \/ \E k : last' = [last EXCEPT !["dep"] = k]
    BY <1>4 DEF StampPackage, ResolveRef, CrossDep, Advance, vars
  <2> QED
    BY <1>1, <1>4, <2>1, <2>2, StackStays
<1> QED
  BY <1>2, <1>3, <1>4 DEF Next

\* A row a link of an instance's row names is there and is that instance's.
AtHome(l, i, nets, terms, plain) ==
    \/ l[1] = "net" /\ \E x \in nets : x.id = l[2] /\ x.inst = i
    \/ l[1] = "term" /\ \E x \in terms : x.id = l[2] /\ x.inst = i
    \/ l[1] \in Plain /\ \E x \in plain[l[1]] : x.id = l[2] /\ x.inst = i

LinksHome ==
    \A tab \in Plain : \A r \in rows[tab] : \A l \in r.links :
        AtHome(l, r.inst, net, term, rows)

LEMMA AtHomeStill ==
    ASSUME Grown, NEW l, NEW i, AtHome(l, i, net, term, rows)
    PROVE  AtHome(l, i, net', term', rows')
  BY DEF Grown, AtHome

LEMMA MovedHome ==
    ASSUME TypeOK, JobsNumbered, StampRows, NEW tab \in Plain,
           NEW r \in PlainRows(Stamped, BodyOf(Top.tpl), tab), NEW l \in r.links
    PROVE  AtHome(l, r.inst, net', term', rows')
<1> DEFINE b == BodyOf(Top.tpl)
           f == Stamped
<1>1. /\ stack # <<>> /\ b \in Body
      /\ \A t \in Plain : rows'[t] = rows[t] \cup PlainRows(f, b, t)
  BY RowsStamped
<1>2. /\ f.tpl = Top.tpl /\ f.base["term"] = last["term"] /\ f.inst = Top.inst
      /\ Top.tpl \in Tpl
  BY <1>1, StampedType, TopBody DEF Reserved
<1>3. PICK k \in 1..Len(b.rows[tab]) : r = Moved(f, tab, k)
  BY DEF PlainRows
<1>4. /\ r.inst = f.inst
      /\ r.links = {<<m[1], f.base[m[1]] + m[2]>> : m \in b.rows[tab][k]}
  BY <1>2, <1>3 DEF Moved, StampLinks
<1>5. PICK m \in b.rows[tab][k] : l = <<m[1], f.base[m[1]] + m[2]>>
  BY <1>4
<1>6. m[1] \in {"net", "term"} \cup Plain /\ m[2] \in 1..Size(b, m[1])
  <2>1. RowsLocal(b)
    BY <1>2, IndicesLocal DEF TypeOK, BodyOf
  <2> QED
    BY <1>3, <1>5, <2>1 DEF RowsLocal
<1>7. l[1] = m[1] /\ l[2] = f.base[m[1]] + m[2]
  BY <1>5
<1>8. CASE m[1] = "net"
  <2>1. Owned(net', f.base["net"], Len(b.nets), f.inst) /\ Size(b, "net") = Len(b.nets)
    BY <1>2, StampedOwns DEF Owns, Size
  <2> HIDE DEF f, b
  <2>2. m[2] \in 1..Len(b.nets) /\ l[2] = f.base["net"] + m[2]
    BY <1>6, <1>7, <1>8, <2>1
  <2> QED
    BY <1>4, <1>7, <1>8, <2>1, <2>2 DEF AtHome, Owned
<1>9. CASE m[1] = "term"
  <2>1. Owned(term', f.base["term"], b.terms, f.inst) /\ Size(b, "term") = b.terms
    BY <1>2, StampedOwns DEF Size
  <2> HIDE DEF f, b
  <2>2. m[2] \in 1..b.terms /\ l[2] = f.base["term"] + m[2]
    BY <1>6, <1>7, <1>9, <2>1
  <2> QED
    BY <1>4, <1>7, <1>9, <2>1, <2>2 DEF AtHome, Owned
<1>10. CASE m[1] \in Plain
  <2>1. Size(b, m[1]) = Len(b.rows[m[1]])
    BY <1>10, PlainTyped DEF Size
  <2> DEFINE x == Moved(f, m[1], m[2])
  <2>2. x.id = l[2] /\ x.inst = f.inst
    BY <1>7 DEF Moved
  <2>3. x \in rows'[m[1]]
    BY <1>1, <1>6, <1>10, <2>1 DEF PlainRows
  <2> HIDE DEF x, f, b
  <2> QED
    BY <1>4, <1>7, <1>10, <2>2, <2>3 DEF AtHome
<1> QED
  BY <1>6, <1>8, <1>9, <1>10

LEMMA LinksStep ==
    ASSUME TypeOK, JobsNumbered, LinksHome, [Next]_vars
    PROVE  LinksHome'
<1>0. Grown
  BY Grows
<1>1. ASSUME NEW tab \in Plain, NEW r \in rows'[tab], NEW l \in r.links
      PROVE  AtHome(l, r.inst, net', term', rows')
  <2>1. CASE r \in rows[tab]
    BY <1>0, <1>1, <2>1, AtHomeStill DEF LinksHome
  <2>2. CASE r \notin rows[tab]
    <3>1. StampRows
      <4>1. ~StampRows => rows' = rows
        BY DEF Next, StampTop, CutRecursion, EnterChildren, StampChildModule,
               StampConns, StampUnresolved, Return, StampPackage, ResolveRef,
               CrossDep, Advance, dbVars, vars
      <4> QED
        BY <1>1, <2>2, <4>1
    <3>2. r \in PlainRows(Stamped, BodyOf(Top.tpl), tab)
      <4>1. rows'[tab] = rows[tab] \cup PlainRows(Stamped, BodyOf(Top.tpl), tab)
        BY <3>1, RowsStamped
      <4> QED
        BY <1>1, <2>2, <4>1
    <3> QED
      BY <1>1, <3>1, <3>2, MovedHome
  <2> QED
    BY <2>1, <2>2
<1> QED
  BY <1>1 DEF LinksHome, AtHome

\* A connection ties a terminal of a child to a net or a reference of the
\* instance the child sits in.
ConnAt(c, terms, insts, nets, jobs) ==
    \E t \in terms, x \in insts :
        /\ t.id = c.term /\ x.id = t.inst
        /\ c.net # 0 => \E n \in nets : n.id = c.net /\ n.inst = x.parent
        /\ c.ref # 0 => c.ref \in 1..Len(jobs) /\ jobs[c.ref].inst = x.parent

ConnsHome == \A c \in conn : ConnAt(c, term, inst, net, replayJobs)

LEMMA ConnStill ==
    ASSUME Grown, NEW c, ConnAt(c, term, inst, net, replayJobs)
    PROVE  ConnAt(c, term', inst', net', replayJobs')
<1>1. PICK t \in term, x \in inst :
        /\ t.id = c.term /\ x.id = t.inst
        /\ c.net # 0 => \E n \in net : n.id = c.net /\ n.inst = x.parent
        /\ c.ref # 0 => /\ c.ref \in 1..Len(replayJobs)
                        /\ replayJobs[c.ref].inst = x.parent
  BY DEF ConnAt
<1>2. t \in term' /\ x \in inst'
  BY DEF Grown
<1>3. c.net # 0 => \E n \in net' : n.id = c.net /\ n.inst = x.parent
  BY <1>1 DEF Grown
<1>4. c.ref # 0 => c.ref \in 1..Len(replayJobs') /\ replayJobs'[c.ref].inst = x.parent
  BY <1>1 DEF Grown
<1> QED
  BY <1>1, <1>2, <1>3, <1>4 DEF ConnAt

\* The ends a connection has in the instance f stamps.
LEMMA ConnEnds ==
    ASSUME NEW f, NEW id, NEW k, NEW termId, Owns(f, net, replayJobs),
           f.base \in [Reserved -> Nat],
           k.net \in 0..Len(BodyOf(f.tpl).nets), k.ref \in 0..Len(BodyOf(f.tpl).refs),
           NEW x \in inst', x.parent = f.inst,
           NEW t \in term', t.id = termId, t.inst = x.id, Grown
    PROVE  ConnAt(ConnRow(f, id, k, termId), term', inst', net', replayJobs')
<1> DEFINE c == ConnRow(f, id, k, termId)
<1>1. /\ c.term = termId /\ c.net = StampId(f.base["net"], k.net)
      /\ c.ref = StampId(f.base["ref"], k.ref)
  BY DEF ConnRow
<1>2. Owns(f, net', replayJobs')
  BY OwnsStill
<1> HIDE DEF c
<1>3. c.net # 0 => \E n \in net' : n.id = c.net /\ n.inst = x.parent
  <2>1. CASE k.net = 0
    BY <1>1, <2>1 DEF StampId
  <2>2. CASE k.net # 0
    <3>1. k.net \in 1..Len(BodyOf(f.tpl).nets) /\ c.net = f.base["net"] + k.net
      BY <1>1, <2>2 DEF StampId
    <3> QED
      BY <1>2, <3>1 DEF Owns, Owned
  <2> QED
    BY <2>1, <2>2
<1>4. c.ref # 0 => c.ref \in 1..Len(replayJobs') /\ replayJobs'[c.ref].inst = x.parent
  <2>1. CASE k.ref = 0
    BY <1>1, <2>1 DEF StampId
  <2>2. CASE k.ref # 0
    <3>1. k.ref \in 1..Len(BodyOf(f.tpl).refs) /\ c.ref = f.base["ref"] + k.ref
      BY <1>1, <2>2 DEF StampId
    <3> QED
      BY <1>2, <3>1 DEF Owns, JobsOf
  <2> QED
    BY <2>1, <2>2
<1> QED
  BY <1>1, <1>3, <1>4 DEF ConnAt, c

LEMMA ConnsStep ==
    ASSUME TypeOK, PathInv, JobsNumbered, FramesOwn, ChildTold, ConnsHome, [Next]_vars
    PROVE  ConnsHome'
<1>0. Grown
  BY Grows
<1>1. \A c \in conn : ConnAt(c, term', inst', net', replayJobs')
  BY <1>0, ConnStill DEF ConnsHome
<1>2. CASE conn' = conn
  BY <1>1, <1>2 DEF ConnsHome, ConnAt
\* What both kinds of child share: the parent's rows and its template's word.
<1>3. ASSUME stack # <<>>, Top.stage # "rows",
             Top.next <= Len(BodyOf(Top.tpl).children)
      PROVE  /\ Owns(Top, net, replayJobs) /\ Top.base \in [Reserved -> Nat]
             /\ \A i \in 1..Len(NextChild.conns) :
                  LET k == NextChild.conns[i]
                  IN  /\ k.net \in 0..Len(BodyOf(Top.tpl).nets)
                      /\ k.ref \in 0..Len(BodyOf(Top.tpl).refs)
                      /\ k.term \in IF NextChild.kind = "module"
                                    THEN 0..BodyOf(NextChild.tpl).terms
                                    ELSE 1..NextChild.ports
  <2>1. /\ Top = stack[Len(stack)] /\ Len(stack) \in 1..Len(stack)
        /\ Top \in Frame /\ Top.tpl \in Tpl
        /\ Top.next \in 1..Len(BodyOf(Top.tpl).children)
    BY <1>3, TopBody, NextChildType
  <2>2. Owns(Top, net, replayJobs)
    BY <1>3, <2>1 DEF FramesOwn
  <2>3. ConnsLocal(design, BodyOf(Top.tpl))
    BY <2>1, IndicesLocal DEF TypeOK, BodyOf
  <2>4. BodyOf(NextChild.tpl) = design.body[NextChild.tpl]
    BY DEF BodyOf
  <2>5. Top.base \in [Reserved -> Nat]
    BY <2>1 DEF Frame
  <2> QED
    BY <2>1, <2>2, <2>3, <2>4, <2>5 DEF ConnsLocal, NextChild
<1>4. CASE StampConns
  <2> DEFINE k == NextChild.conns
             made == {i \in 1..Len(k) : k[i].term # 0}
             row(i) == ConnRow(Top, last["conn"] + Rank(made, i), k[i], ChildTerm(k[i]))
  <2>1. /\ stack # <<>> /\ Top.stage = "conns" /\ Top.next <= Len(BodyOf(Top.tpl).children)
        /\ conn' = conn \cup {row(i) : i \in made}
    BY <1>4, WaitsForChild DEF StampConns, At
  <2>2. Top = stack[Len(stack)] /\ Len(stack) \in Nat \ {0}
    BY <2>1, TopBody
  <2>3. Told(Top, inst) /\ HasTerms(Top, term)
    BY <2>1, <2>2 DEF ChildTold
  <2>4. ChildAt(Top) = NextChild /\ NextChild.kind = "module"
    BY <2>3 DEF Told, ChildAt, NextChild
  <2>5. PICK x \in inst : x.id = Top.childBase + Top.next /\ x.parent = Top.inst
    BY <2>3 DEF Told
  <2>6. ASSUME NEW i \in made
        PROVE  ConnAt(row(i), term', inst', net', replayJobs')
    <3>1. /\ k[i].net \in 0..Len(BodyOf(Top.tpl).nets)
          /\ k[i].ref \in 0..Len(BodyOf(Top.tpl).refs)
          /\ k[i].term \in 0..BodyOf(NextChild.tpl).terms
          /\ Owns(Top, net, replayJobs) /\ Top.base \in [Reserved -> Nat]
      BY <1>3, <2>1, <2>4
    <3>2. k[i].term \in 1..BodyOf(NextChild.tpl).terms
      BY <3>1
    <3>3. PICK t \in term : t.id = Top.termBase + k[i].term
                            /\ t.inst = Top.childBase + Top.next
      BY <2>3, <2>4, <3>2 DEF HasTerms, Owned
    <3>4. /\ t \in term' /\ x \in inst' /\ t.id = ChildTerm(k[i]) /\ t.inst = x.id
      BY <1>0, <2>5, <3>3 DEF Grown, ChildTerm
    <3> QED
      BY <1>0, <2>5, <3>1, <3>4, ConnEnds
  <2> HIDE DEF row, made
  <2>7. \A c \in conn' : ConnAt(c, term', inst', net', replayJobs')
    BY <1>1, <2>1, <2>6
  <2> QED
    BY <2>7 DEF ConnsHome, ConnAt
<1>5. CASE StampUnresolved
  <2> DEFINE k == NextChild.conns
             made == {i \in 1..Len(k) : k[i].term \in 1..NextChild.ports}
             row(i) == ConnRow(Top, last["conn"] + i, [k[i] EXCEPT !.iface = FALSE],
                               last["term"] + k[i].term)
             x == BlackBoxRow(ChildId, Top.inst)
  <2>1. /\ stack # <<>> /\ Top.stage = "kids" /\ Top.next <= Len(BodyOf(Top.tpl).children)
        /\ conn' = conn \cup {row(i) : i \in made}
        /\ inst' = inst \cup {x}
        /\ term' = term \cup {[id |-> last["term"] + i, inst |-> ChildId] :
                                i \in 1..NextChild.ports}
    BY <1>5 DEF StampUnresolved, ChildDue, At
  <2>2. NextChild \in Child
    BY <2>1, NextChildType
  <2>3. ASSUME NEW i \in made
        PROVE  ConnAt(row(i), term', inst', net', replayJobs')
    <3> DEFINE t == [id |-> last["term"] + k[i].term, inst |-> ChildId]
               m == [k[i] EXCEPT !.iface = FALSE]
    <3>1. /\ k[i].net \in 0..Len(BodyOf(Top.tpl).nets)
          /\ k[i].ref \in 0..Len(BodyOf(Top.tpl).refs)
          /\ Owns(Top, net, replayJobs) /\ Top.base \in [Reserved -> Nat]
      BY <1>3, <2>1
    <3>2. m.net = k[i].net /\ m.ref = k[i].ref
      <4>1. k[i] \in Conn
        BY <2>2 DEF Child
      <4> QED
        BY <4>1 DEF Conn
    <3>3. t \in term' /\ x \in inst'
      BY <2>1
    <3>4. /\ t.id = last["term"] + k[i].term /\ t.inst = x.id /\ x.parent = Top.inst
      BY DEF BlackBoxRow
    <3> HIDE DEF t, m, x
    <3>5. m.net \in 0..Len(BodyOf(Top.tpl).nets) /\ m.ref \in 0..Len(BodyOf(Top.tpl).refs)
      BY <3>1, <3>2
    <3>6. ConnAt(ConnRow(Top, last["conn"] + i, m, last["term"] + k[i].term),
                 term', inst', net', replayJobs')
      BY <1>0, <3>1, <3>3, <3>4, <3>5, ConnEnds
    <3> QED
      BY <3>6 DEF m
  <2> HIDE DEF row, made, x
  <2>4. \A c \in conn' : ConnAt(c, term', inst', net', replayJobs')
    BY <1>1, <2>1, <2>3
  <2> QED
    BY <2>4 DEF ConnsHome, ConnAt
<1>6. CASE \/ StampTop \/ StampRows \/ CutRecursion \/ EnterChildren
           \/ StampChildModule \/ Return \/ StampPackage \/ ResolveRef \/ CrossDep
           \/ Advance \/ UNCHANGED vars
  <2>1. conn' = conn
    BY <1>6 DEF StampTop, StampRows, CutRecursion, EnterChildren, StampChildModule,
                Return, StampPackage, ResolveRef, CrossDep, Advance, dbVars, vars
  <2> QED
    BY <1>2, <2>1
<1> QED
  BY <1>4, <1>5, <1>6 DEF Next

\* A written reference is one of the queue, of the occurrence that queued it.
OfJob(r, jobs) ==
    /\ r.id \in 1..Len(jobs) /\ r.inst = jobs[r.id].inst
    /\ r.tpl = jobs[r.id].tpl /\ r.idx = jobs[r.id].idx
RefsHome == \A r \in ref : OfJob(r, replayJobs)

LEMMA RefsHomeStep ==
    ASSUME TypeOK, JobsNumbered, RefsHome, [Next]_vars
    PROVE  RefsHome'
<1>0. Grown
  BY Grows
<1>1. \A r \in ref : OfJob(r, replayJobs')
  BY <1>0 DEF RefsHome, OfJob, Grown
<1>2. CASE ref' = ref
  BY <1>1, <1>2 DEF RefsHome, OfJob
<1>3. CASE ResolveRef
  <2> DEFINE job == replayJobs[cursor + 1]
             row == [id |-> job.id, inst |-> job.inst, tpl |-> job.tpl,
                     idx |-> job.idx, net |-> Resolve(job)]
  <2>1. /\ cursor < Len(replayJobs) /\ ref' = ref \cup {row}
        /\ replayJobs' = replayJobs
    BY <1>3 DEF ResolveRef
  <2>2. cursor + 1 \in 1..Len(replayJobs) /\ job.id = cursor + 1
    BY <2>1 DEF TypeOK, JobsNumbered
  <2>3. OfJob(row, replayJobs)
    BY <2>2 DEF OfJob
  <2> HIDE DEF row
  <2>4. \A r \in ref' : OfJob(r, replayJobs')
    BY <1>1, <2>1, <2>3
  <2> QED
    BY <2>4 DEF RefsHome, OfJob
<1>4. CASE ~ResolveRef
  <2>1. ref' = ref
    BY <1>4 DEF Next, StampTop, StampRows, CutRecursion, EnterChildren,
                StampChildModule, StampConns, StampUnresolved, Return, StampPackage,
                CrossDep, Advance, dbVars, vars
  <2> QED
    BY <1>2, <2>1
<1> QED
  BY <1>3, <1>4

(* Whatever was stamped in between, a row names rows of its own            *)
(* occurrence, and a connection what it ties.                              *)
HomeInv == InstsOnce /\ FramesOwn /\ ChildTold /\ LinksHome /\ ConnsHome /\ RefsHome

LEMMA HomeInit == Init => HomeInv
<1> SUFFICES ASSUME Init PROVE HomeInv
  OBVIOUS
<1>1. InstsOnce
  BY DEF Init, InstsOnce, Ids, Distinct
<1>2. FramesOwn
  BY DEF Init, FramesOwn
<1>3. LinksHome
  BY DEF Init, LinksHome
<1>4. ConnsHome /\ RefsHome
  BY DEF Init, ConnsHome, RefsHome
<1> QED
  BY <1>1, <1>2, <1>3, <1>4, ToldInit DEF HomeInv

LEMMA HomeInductive == Spec => [](TypeOK /\ PathInv /\ IdsInv /\ HomeInv)
<1>1. TypeOK /\ PathInv /\ IdsInv /\ HomeInv /\ [Next]_vars => HomeInv'
  BY InstsStep, FramesStep, ToldStep, LinksStep, ConnsStep, RefsHomeStep
     DEF IdsInv, RefsIssued, HomeInv
<1> QED
  BY <1>1, HomeInit, IdsInductive, PTL DEF Spec

\* The row of an id is the one that has it.
LEMMA RowOfId ==
    ASSUME NEW table, Distinct(table), NEW r \in table
    PROVE  r.id \in Ids(table) /\ RowOf(table, r.id) = r
  BY DEF Distinct, Ids, RowOf

\* Every reference queued is written when the replay is over.
LEMMA RefsAll ==
    ASSUME TypeOK, RefsIssued
    PROVE  /\ Distinct(ref)
           /\ phase \in {"deps", "done"} => Ids(ref) = 1..Len(replayJobs)
<1>1. CASE phase \in {"tree", "packages"}
  BY <1>1 DEF RefsIssued, RefsWritten, Distinct
<1>2. CASE phase = "refs"
  BY <1>2 DEF RefsIssued, RefsWritten, Block
<1>3. CASE phase \in {"deps", "done"}
  <2>1. Block(ref, 0, last["ref"]) /\ Len(replayJobs) = last["ref"]
    BY <1>3 DEF RefsIssued, RefsWritten, JobsNumbered
  <2>2. Ids(ref) = 1..last["ref"] /\ Distinct(ref)
    BY <2>1 DEF Block
  <2> QED
    BY <2>1, <2>2
<1> QED
  BY <1>1, <1>2, <1>3 DEF TypeOK

(* For every design whose templates have indices of their own: a row names *)
(* only rows of its own occurrence, and a connection a terminal of a child *)
(* and a net or a reference of the instance the child sits in, however     *)
(* many occurrences were stamped below the child before it was written.    *)
THEOREM RowsStayHome == Spec => []LinksStayHome
<1>1. TypeOK /\ IdsInv /\ HomeInv => LinksStayHome
  <2> SUFFICES ASSUME TypeOK, IdsInv, HomeInv PROVE LinksStayHome
    OBVIOUS
  <2>1. /\ Distinct(net) /\ Distinct(term) /\ Distinct(inst) /\ Distinct(ref)
        /\ \A tab \in Plain : Distinct(rows[tab])
    BY RefsAll DEF IdsInv, TablesIssued, Block, HomeInv, InstsOnce
  <2>2. ASSUME NEW c \in conn
        PROVE  LET parent == RowOf(inst, RowOf(term, c.term).inst).parent
               IN  /\ c.term \in Ids(term)
                   /\ c.net # 0 => c.net \in Ids(net) /\ RowOf(net, c.net).inst = parent
                   /\ c.ref \in Ids(ref) => RowOf(ref, c.ref).inst = parent
                   /\ c.ref # 0 /\ phase = "done" => c.ref \in Ids(ref)
    <3>1. PICK t \in term, x \in inst :
            /\ t.id = c.term /\ x.id = t.inst
            /\ c.net # 0 => \E n \in net : n.id = c.net /\ n.inst = x.parent
            /\ c.ref # 0 => /\ c.ref \in 1..Len(replayJobs)
                            /\ replayJobs[c.ref].inst = x.parent
      BY DEF HomeInv, ConnsHome, ConnAt
    <3>2. /\ c.term \in Ids(term) /\ RowOf(term, c.term) = t
          /\ RowOf(inst, t.inst) = x
      BY <2>1, <3>1, RowOfId
    <3>3. c.net # 0 => c.net \in Ids(net) /\ RowOf(net, c.net).inst = x.parent
      BY <2>1, <3>1, RowOfId
    <3>4. ASSUME c.ref \in Ids(ref) PROVE RowOf(ref, c.ref).inst = x.parent
      <4>1. PICK r \in ref : r.id = c.ref
        BY <3>4 DEF Ids
      <4>2. RowOf(ref, c.ref) = r
        BY <2>1, <4>1, RowOfId
      <4>3. r.id \in 1..Len(replayJobs) /\ r.inst = replayJobs[r.id].inst
        BY DEF HomeInv, RefsHome, OfJob
      <4> QED
        BY <3>1, <4>1, <4>2, <4>3
    <3>5. c.ref # 0 /\ phase = "done" => c.ref \in Ids(ref)
      BY <3>1, RefsAll DEF IdsInv
    <3> QED
      BY <3>2, <3>3, <3>4, <3>5
  <2>3. ASSUME NEW tab \in Plain, NEW r \in rows[tab], NEW l \in r.links
        PROVE  LET table == CASE l[1] = "net" -> net [] l[1] = "term" -> term
                              [] OTHER -> rows[l[1]]
               IN  l[2] \in Ids(table) /\ RowOf(table, l[2]).inst = r.inst
    <3>1. AtHome(l, r.inst, net, term, rows)
      BY DEF HomeInv, LinksHome
    <3>2. CASE l[1] = "net" /\ \E x \in net : x.id = l[2] /\ x.inst = r.inst
      BY <2>1, <3>2, RowOfId
    <3>3. CASE l[1] = "term" /\ \E x \in term : x.id = l[2] /\ x.inst = r.inst
      BY <2>1, <3>3, RowOfId
    <3>4. CASE l[1] \in Plain /\ \E x \in rows[l[1]] : x.id = l[2] /\ x.inst = r.inst
      <4>1. l[1] # "net" /\ l[1] # "term"
        BY <3>4, PlainTyped
      <4> QED
        BY <2>1, <3>4, <4>1, RowOfId
    <3> QED
      BY <3>1, <3>2, <3>3, <3>4 DEF AtHome
  <2> QED
    BY <2>2, <2>3 DEF LinksStayHome, ConnEndsBelong
<1> QED
  BY HomeInductive, <1>1, PTL

-----------------------------------------------------------------------------
(* What a reference may resolve to.                                        *)

LEMMA FirstIn ==
    ASSUME NEW S \in SUBSET Nat, S # {}
    PROVE  First(S) \in S
<1>1. \E m \in S : \A k \in S : m <= k
  <2>1. \E m \in S : \A k \in S : ~(<<k, m>> \in OpToRel(<, Nat))
    BY WFMin, NatLessThanWellFounded
  <2>2. \A k, m \in S : k < m => <<k, m>> \in OpToRel(<, Nat)
    BY DEF OpToRel
  <2>3. \A k, m \in S : k < m \/ m <= k
    OBVIOUS
  <2>4. PICK m \in S : \A k \in S : ~(<<k, m>> \in OpToRel(<, Nat))
    BY <2>1
  <2>5. \A k \in S : m <= k
    BY <2>2, <2>3, <2>4
  <2> QED
    BY <2>5
<1> QED
  BY <1>1 DEF First

\* The occurrence a node stands for has its nets; a package's members are
\* nets.
Names(e, nets) ==
    /\ e.tpl \in Tpl
    /\ \A k \in 1..Len(BodyOf(e.tpl).nets) : e.net + k \in Ids(nets)

NetsNamed ==
    /\ \A i \in DOMAIN nodeTemplate : Names(nodeTemplate[i], net)
    /\ \A p \in DOMAIN packageByName : \A m \in DOMAIN packageByName[p] :
         packageByName[p][m] \in Ids(net)

LEMMA NetsNamedInit == Init => NetsNamed
<1> SUFFICES ASSUME Init PROVE NetsNamed
  OBVIOUS
<1>1. nodeTemplate = <<>> /\ packageByName = <<>>
  BY DEF Init
<1> QED
  BY <1>1 DEF NetsNamed

\* The members of the next package.
LEMMA PackageMembers ==
    ASSUME TypeOK, StampPackage
    PROVE  \A p \in DOMAIN packageByName' :
             \/ p \in DOMAIN packageByName /\ packageByName'[p] = packageByName[p]
             \/ \A m \in DOMAIN packageByName'[p] : packageByName'[p][m] \in Ids(net')
<1> DEFINE g == design.packages[cursor + 1]
           id == last["node"] + 1
           nets == {[id |-> last["net"] + i, inst |-> id, name |-> g.nets[i]] :
                      i \in 1..Len(g.nets)}
           member(n) == First({r.id : r \in {m \in nets : m.name = n}})
           names == {r.name : r \in nets}
<1>1. /\ net' = net \cup nets
      /\ packageByName' =
           [n \in DOMAIN packageByName \cup {g.name} |->
              IF n \in DOMAIN packageByName THEN packageByName[n]
              ELSE [m \in names |-> member(m)]]
  BY DEF StampPackage
<1>2. last["net"] \in Nat
  BY DEF TypeOK, Counter, Reserved
<1>3. \A r \in nets : r.id \in Nat
  BY <1>2
<1> HIDE DEF nets, g
<1>4. ASSUME NEW m \in names PROVE member(m) \in Ids(net')
  <2> DEFINE S == {r.id : r \in {x \in nets : x.name = m}}
  <2>1. S \in SUBSET Nat /\ S # {} /\ S \subseteq Ids(nets)
    BY <1>3 DEF Ids
  <2>2. member(m) = First(S)
    OBVIOUS
  <2> HIDE DEF S
  <2>3. First(S) \in S
    BY <2>1, FirstIn
  <2> HIDE DEF member
  <2>4. Ids(nets) \subseteq Ids(net')
    BY <1>1 DEF Ids
  <2> QED
    BY <2>1, <2>2, <2>3, <2>4
<1> HIDE DEF member, names
<1> QED
  BY <1>1, <1>4

LEMMA NetsNamedStep ==
    ASSUME TypeOK, JobsNumbered, NetsNamed, [Next]_vars
    PROVE  NetsNamed'
<1>0. Grown
  BY Grows
<1>1. Ids(net) \subseteq Ids(net')
  BY <1>0 DEF Grown, Ids
<1>2. ASSUME NEW i \in DOMAIN nodeTemplate'
      PROVE  Names(nodeTemplate'[i], net')
  <2>1. CASE i \in DOMAIN nodeTemplate /\ nodeTemplate'[i] = nodeTemplate[i]
    BY <1>1, <2>1 DEF NetsNamed, Names
  <2>2. CASE ~(i \in DOMAIN nodeTemplate /\ nodeTemplate'[i] = nodeTemplate[i])
    <3>1. StampRows
      <4>1. ~StampRows => nodeTemplate' = nodeTemplate
        BY DEF Next, StampTop, CutRecursion, EnterChildren, StampChildModule,
               StampConns, StampUnresolved, Return, StampPackage, ResolveRef,
               CrossDep, Advance, mapVars, vars
      <4> QED
        BY <1>2, <2>2, <4>1
    <3> DEFINE e == [tpl |-> Top.tpl, net |-> last["net"]]
    <3>2. stack # <<>> /\ nodeTemplate'[i] = e
      <4>1. /\ stack # <<>>
            /\ nodeTemplate' =
                 [k \in DOMAIN nodeTemplate \cup {Top.inst} |->
                    IF k = Top.inst THEN e ELSE nodeTemplate[k]]
        BY <3>1, RowsStamped
      <4> HIDE DEF e
      <4> QED
        BY <1>2, <2>2, <4>1
    <3>3. /\ Top.tpl \in Tpl /\ Stamped.tpl = Top.tpl
          /\ Stamped.base["net"] = last["net"]
      BY <3>2, TopBody, StampedType DEF Reserved
    <3>4. Owned(net', last["net"], Len(BodyOf(Top.tpl).nets), Stamped.inst)
      BY <3>1, <3>3, StampedOwns DEF Owns
    <3>5. \A k \in 1..Len(BodyOf(Top.tpl).nets) : last["net"] + k \in Ids(net')
      BY <3>4 DEF Owned, Ids
    <3>6. Names(e, net')
      BY <3>3, <3>5 DEF Names
    <3> QED
      BY <3>2, <3>6
  <2> QED
    BY <2>1, <2>2
<1>3. ASSUME NEW p \in DOMAIN packageByName', NEW m \in DOMAIN packageByName'[p]
      PROVE  packageByName'[p][m] \in Ids(net')
  <2>1. CASE StampPackage
    <3>1. CASE p \in DOMAIN packageByName /\ packageByName'[p] = packageByName[p]
      BY <1>1, <1>3, <3>1 DEF NetsNamed
    <3>2. CASE ~(p \in DOMAIN packageByName /\ packageByName'[p] = packageByName[p])
      BY <1>3, <2>1, <3>2, PackageMembers
    <3> QED
      BY <3>1, <3>2
  <2>2. CASE ~StampPackage
    <3>1. packageByName' = packageByName
      BY <2>2 DEF Next, StampTop, StampRows, CutRecursion, EnterChildren,
                  StampChildModule, StampConns, StampUnresolved, Return, ResolveRef,
                  CrossDep, Advance, mapVars, vars
    <3> QED
      BY <1>1, <1>3, <3>1 DEF NetsNamed
  <2> QED
    BY <2>1, <2>2
<1> QED
  BY <1>0, <1>2, <1>3 DEF NetsNamed, Names, Ids, BodyOf, Grown

\* Whichever node a walk ends at, what it answers is a net or nothing.
LEMMA NetAtNet ==
    ASSUME TypeOK, NetsNamed, NEW node, NEW n
    PROVE  NetAt(node, n) \in Ids(net) \cup {0}
<1>1. CASE node \notin DOMAIN nodeTemplate
  BY <1>1 DEF NetAt
<1>2. CASE node \in DOMAIN nodeTemplate
  <2> DEFINE e == nodeTemplate[node]
             names == BodyOf(e.tpl).nets
             at == {i \in 1..Len(names) : names[i] = n}
  <2>1. Names(e, net)
    BY <1>2 DEF NetsNamed
  <2>2. Len(names) \in Nat
    BY <2>1, BodyType, BodyParts DEF Names, TypeOK
  <2>3. NetAt(node, n) = StampId(e.net, IndexOf(names, n))
    BY <1>2 DEF NetAt
  <2>4. CASE at = {}
    BY <2>3, <2>4 DEF IndexOf, StampId
  <2>5. CASE at # {}
    <3>1. at \in SUBSET Nat
      BY <2>2
    <3>2. First(at) \in at
      BY <2>5, <3>1, FirstIn
    <3>3. IndexOf(names, n) = First(at)
      BY <2>5 DEF IndexOf
    <3>4. First(at) \in 1..Len(names)
      BY <3>2
    <3> HIDE DEF at, names, e
    <3>5. NetAt(node, n) = e.net + First(at)
      BY <2>2, <2>3, <3>3, <3>4 DEF StampId
    <3> QED
      BY <2>1, <3>4, <3>5 DEF Names, names
  <2> QED
    BY <2>4, <2>5
<1> QED
  BY <1>1, <1>2

LEMMA ResolveNet ==
    ASSUME TypeOK, NetsNamed, NEW job
    PROVE  Resolve(job) \in Ids(net) \cup {0}
<1> DEFINE r == BodyOf(job.tpl).refs[job.idx]
           bound == BoundTo(job.bind, r.term, r.seg)
           named == /\ r.route = "package" /\ r.segs # <<>>
                    /\ Head(r.segs) \in DOMAIN packageByName
                    /\ r.net \in DOMAIN packageByName[Head(r.segs)]
           N == Ids(net) \cup {0}
<1>1. /\ NetAt(Descend(job.inst, r.segs), r.net) \in N
      /\ NetAt(SearchUpward(job.inst, r), r.net) \in N
      /\ NetAt(Descend(0, r.segs), r.net) \in N
      /\ NetAt(Descend(bound, r.segs), r.net) \in N
  BY NetAtNet
<1>2. named => packageByName[Head(r.segs)][r.net] \in N
  BY DEF NetsNamed
<1>3. 0 \in N
  OBVIOUS
<1>4. Resolve(job) =
        CASE r.route = "downward" -> NetAt(Descend(job.inst, r.segs), r.net)
          [] r.route = "upward" -> NetAt(SearchUpward(job.inst, r), r.net)
          [] r.route = "absolute" -> NetAt(Descend(0, r.segs), r.net)
          [] r.route = "iface" /\ bound # 0 -> NetAt(Descend(bound, r.segs), r.net)
          [] named -> packageByName[Head(r.segs)][r.net]
          [] OTHER -> 0
  BY DEF Resolve
<1> HIDE DEF r, bound, named, N
<1>5. CASE r.route \in {"downward", "upward", "absolute"}
  <2>0. ~named
    BY <1>5 DEF named
  <2>1. CASE r.route = "downward"
    BY <1>1, <1>4, <2>0, <2>1 DEF N
  <2>2. CASE r.route = "upward"
    BY <1>1, <1>4, <2>0, <2>2 DEF N
  <2>3. CASE r.route = "absolute"
    BY <1>1, <1>4, <2>0, <2>3 DEF N
  <2> QED
    BY <1>5, <2>1, <2>2, <2>3
<1>6. CASE r.route = "iface" /\ bound # 0
  <2>1. ~named
    BY <1>6 DEF named
  <2> QED
    BY <1>1, <1>4, <1>6, <2>1 DEF N
<1>7. CASE named
  <2>1. r.route = "package"
    BY <1>7 DEF named
  <2> QED
    BY <1>2, <1>4, <1>7, <2>1 DEF N
<1>8. CASE /\ r.route \notin {"downward", "upward", "absolute"}
           /\ ~(r.route = "iface" /\ bound # 0) /\ ~named
  BY <1>3, <1>4, <1>8 DEF N
<1> QED
  BY <1>5, <1>6, <1>7, <1>8 DEF N

RefsResolve == \A r \in ref : r.net \in Ids(net) \cup {0}

LEMMA RefsResolveStep ==
    ASSUME TypeOK, JobsNumbered, NetsNamed, RefsResolve, [Next]_vars
    PROVE  RefsResolve'
<1>1. Ids(net) \subseteq Ids(net')
  BY Grows DEF Grown, Ids
<1>2. CASE ref' = ref
  BY <1>1, <1>2 DEF RefsResolve, Ids
<1>3. CASE ResolveRef
  <2> DEFINE job == replayJobs[cursor + 1]
             row == [id |-> job.id, inst |-> job.inst, tpl |-> job.tpl,
                     idx |-> job.idx, net |-> Resolve(job)]
  <2>1. ref' = ref \cup {row}
    BY <1>3 DEF ResolveRef
  <2>2. row.net \in Ids(net) \cup {0}
    BY ResolveNet
  <2> HIDE DEF row
  <2>3. \A r \in ref' : r.net \in Ids(net') \cup {0}
    BY <1>1, <2>1, <2>2 DEF RefsResolve
  <2> QED
    BY <2>3 DEF RefsResolve, Ids
<1>4. CASE ~ResolveRef
  <2>1. ref' = ref
    BY <1>4 DEF Next, StampTop, StampRows, CutRecursion, EnterChildren,
                StampChildModule, StampConns, StampUnresolved, Return, StampPackage,
                CrossDep, Advance, dbVars, vars
  <2> QED
    BY <1>2, <2>1
<1> QED
  BY <1>3, <1>4

(* Whatever a reference resolved to is a net.                              *)
NamesInv == NetsNamed /\ RefsResolve

LEMMA NamesInit == Init => NamesInv
<1>1. Init => RefsResolve
  BY DEF Init, RefsResolve
<1> QED
  BY <1>1, NetsNamedInit DEF NamesInv

LEMMA NamesInductive == Spec => [](TypeOK /\ IdsInv /\ NamesInv)
<1>1. TypeOK /\ IdsInv /\ NamesInv /\ [Next]_vars => NamesInv'
  BY NetsNamedStep, RefsResolveStep DEF IdsInv, RefsIssued, NamesInv
<1> QED
  BY <1>1, NamesInit, IdsInductive, PTL DEF Spec

-----------------------------------------------------------------------------
(* Stamping unfolds the design.  The rows of the tree are a grove: every   *)
(* row is its parent's next child and has a path of its own; the rows of   *)
(* the stack lie on one path; and a row that is not on the stack has all   *)
(* its children, or is cut because an ancestor has its template.  A row    *)
(* more is then a step of Hierarchy, and the end of the tree its last.     *)

LEMMA Least ==
    ASSUME NEW S \in SUBSET Nat, S # {}
    PROVE  \E n \in S : \A m \in S : n <= m
<1>1. PICK n \in S : \A m \in S : ~(<<m, n>> \in OpToRel(<, Nat))
  BY WFMin, NatLessThanWellFounded
<1>2. \A m \in S : ~(m < n)
  BY <1>1 DEF OpToRel
<1> QED
  BY <1>2

-----------------------------------------------------------------------------
(* The occurrences as a forest of rows, each with a path: the positions,   *)
(* among the rows of one parent, of the rows on the way to it.             *)

TreeRow == [id : Nat \ {0}, tpl : SUBSET Tpl, parent : Nat]
KidsOf(W, p) == {r \in W : r.parent = p}
KidsUpTo(W, p, i) == {r \in W : r.parent = p /\ r.id <= i}
Place(W, p, i) == Cardinality(KidsUpTo(W, p, i))
Count(W, p) == Cardinality(KidsOf(W, p))

PathTo(P, W, r) == IF r.parent = 0 THEN <<Place(W, 0, r.id)>>
                   ELSE Append(P[r.parent], Place(W, r.parent, r.id))

Forest(W) ==
    /\ W \subseteq TreeRow /\ IsFiniteSet(W) /\ Distinct(W)
    /\ \A r \in W : r.parent # 0 => r.parent \in Ids(W) /\ r.parent < r.id

Pathed(P, W) ==
    /\ P \in [Ids(W) -> Seq(Nat)]
    /\ \A r \in W : P[r.id] # <<>> /\ P[r.id] = PathTo(P, W, r)
    /\ \A i, j \in Ids(W) : P[i] = P[j] => i = j

\* The places of the children of p are 1, 2, ...
Placed(W, p) == {Place(W, p, r.id) : r \in KidsOf(W, p)} = 1..Count(W, p)
Grove(P, W) == Forest(W) /\ Pathed(P, W) /\ \A p \in Nat : Placed(W, p)

LEMMA KidsFinite ==
    ASSUME NEW W, IsFiniteSet(W), NEW p, NEW i
    PROVE  /\ IsFiniteSet(KidsOf(W, p)) /\ IsFiniteSet(KidsUpTo(W, p, i))
           /\ Count(W, p) \in Nat /\ Place(W, p, i) \in Nat
<1>1. KidsOf(W, p) \subseteq W /\ KidsUpTo(W, p, i) \subseteq W
  BY DEF KidsOf, KidsUpTo
<1>2. IsFiniteSet(KidsOf(W, p)) /\ IsFiniteSet(KidsUpTo(W, p, i))
  BY <1>1, FS_Subset
<1> QED
  BY <1>2, FS_CardinalityType DEF Count, Place

\* A row with an id beyond those of its siblings takes the next place.
LEMMA KidAdded ==
    ASSUME NEW W, Forest(W), NEW n \in TreeRow, n.id \notin Ids(W),
           \A r \in KidsOf(W, n.parent) : r.id < n.id
    PROVE  /\ Count(W \cup {n}, n.parent) = Count(W, n.parent) + 1
           /\ Place(W \cup {n}, n.parent, n.id) = Count(W, n.parent) + 1
           /\ \A p \in Nat : p # n.parent => Count(W \cup {n}, p) = Count(W, p)
           /\ \A r \in W : Place(W \cup {n}, r.parent, r.id) = Place(W, r.parent, r.id)
           /\ \A p \in Nat \ {n.parent} : KidsOf(W \cup {n}, p) = KidsOf(W, p)
           /\ KidsOf(W \cup {n}, n.parent) = KidsOf(W, n.parent) \cup {n}
<1>1. n \notin W /\ \A r \in W : r.id \in Nat /\ r.parent \in Nat
  BY DEF Ids, Forest, TreeRow
<1>2. n.id \in Nat /\ n.parent \in Nat
  BY DEF TreeRow
<1>3. KidsOf(W \cup {n}, n.parent) = KidsOf(W, n.parent) \cup {n}
  BY DEF KidsOf
<1>4. KidsUpTo(W \cup {n}, n.parent, n.id) = KidsOf(W, n.parent) \cup {n}
  BY <1>1, <1>2 DEF KidsOf, KidsUpTo
<1>5. n \notin KidsOf(W, n.parent) /\ IsFiniteSet(KidsOf(W, n.parent))
  BY <1>1, KidsFinite DEF Forest, KidsOf
<1>6. Cardinality(KidsOf(W, n.parent) \cup {n}) = Count(W, n.parent) + 1
  BY <1>5, FS_AddElement DEF Count
<1>7. \A p \in Nat \ {n.parent} : KidsOf(W \cup {n}, p) = KidsOf(W, p)
  BY DEF KidsOf
<1>8. ASSUME NEW r \in W
      PROVE  KidsUpTo(W \cup {n}, r.parent, r.id) = KidsUpTo(W, r.parent, r.id)
  <2>1. n.parent = r.parent => r.id < n.id
    BY DEF KidsOf
  <2>2. ~(n.parent = r.parent /\ n.id <= r.id)
    BY <1>1, <1>2, <2>1
  <2> QED
    BY <2>2 DEF KidsUpTo
<1> QED
  BY <1>3, <1>4, <1>6, <1>7, <1>8 DEF Count, Place

LEMMA PathAppended ==
    ASSUME NEW a \in Seq(Nat), NEW x \in Nat
    PROVE  /\ Append(a, x) \in Seq(Nat) /\ Append(a, x) # <<>>
           /\ Len(Append(a, x)) = Len(a) + 1
           /\ \A i \in 1..Len(a) : Append(a, x)[i] = a[i]
           /\ Append(a, x)[Len(a) + 1] = x
           /\ \A b \in Seq(Nat), y \in Nat : Append(a, x) = Append(b, y) => a = b /\ x = y
<1>1. /\ Append(a, x) \in Seq(Nat) /\ Append(a, x) # <<>>
      /\ Len(Append(a, x)) = Len(a) + 1
      /\ \A i \in 1..Len(a) : Append(a, x)[i] = a[i]
      /\ Append(a, x)[Len(a) + 1] = x
  BY AppendProperties
<1>2. ASSUME NEW b \in Seq(Nat), NEW y \in Nat, Append(a, x) = Append(b, y)
      PROVE  a = b /\ x = y
  BY <1>2, AppendInjective
<1> QED
  BY <1>1, <1>2

\* The new path, and the paths after it.
NewPath(P, W, n) == IF n.parent = 0 THEN <<Count(W, 0) + 1>>
                    ELSE Append(P[n.parent], Count(W, n.parent) + 1)
Longer(P, W, n) == [i \in Ids(W) \cup {n.id} |->
                      IF i = n.id THEN NewPath(P, W, n) ELSE P[i]]

LEMMA PathsFresh ==
    ASSUME NEW W, NEW P, Grove(P, W), NEW n \in TreeRow, n.id \notin Ids(W),
           n.parent # 0 => n.parent \in Ids(W),
           \A r \in KidsOf(W, n.parent) : r.id < n.id
    PROVE  /\ NewPath(P, W, n) \in Seq(Nat) /\ NewPath(P, W, n) # <<>>
           /\ \A r \in W : NewPath(P, W, n) # P[r.id]
<1>1. \A p \in Nat : Count(W, p) \in Nat
  BY KidsFinite DEF Grove, Forest
<1>2. n.parent \in Nat /\ \A i \in Ids(W) : P[i] \in Seq(Nat)
  BY DEF TreeRow, Grove, Pathed
<1>3. NewPath(P, W, n) \in Seq(Nat) /\ NewPath(P, W, n) # <<>>
  <2>1. Count(W, 0) + 1 \in Nat /\ Count(W, n.parent) + 1 \in Nat
    <3>1. Count(W, 0) \in Nat /\ Count(W, n.parent) \in Nat
      BY KidsFinite DEF Grove, Forest
    <3> QED
      BY <3>1
  <2>2. CASE n.parent = 0
    BY <2>1, <2>2 DEF NewPath
  <2>3. CASE n.parent # 0
    <3>1. P[n.parent] \in Seq(Nat)
      BY <1>2, <2>3
    <3>2. NewPath(P, W, n) = Append(P[n.parent], Count(W, n.parent) + 1)
      BY <2>3 DEF NewPath
    <3> QED
      BY <2>1, <3>1, <3>2, PathAppended
  <2> QED
    BY <2>2, <2>3
<1>4. ASSUME NEW r \in W, NewPath(P, W, n) = P[r.id] PROVE FALSE
  <2>1. r.id \in Ids(W) /\ r.parent \in Nat /\ (r.parent # 0 => r.parent \in Ids(W))
    BY DEF Ids, Grove, Forest, TreeRow
  <2>2. P[r.id] = PathTo(P, W, r) /\ Place(W, r.parent, r.id) \in Nat
    BY KidsFinite DEF Grove, Pathed, Forest
  <2>3. r \in KidsOf(W, r.parent)
    BY DEF KidsOf
  <2>4. Place(W, r.parent, r.id) \in 1..Count(W, r.parent)
    BY <2>1, <2>3 DEF Grove, Placed
  <2>5. CASE n.parent = 0
    <3>1. CASE r.parent = 0
      <4>1. <<Count(W, 0) + 1>> = <<Place(W, 0, r.id)>>
        BY <1>4, <2>2, <2>5, <3>1 DEF NewPath, PathTo
      <4> QED
        BY <1>1, <2>4, <3>1, <4>1
    <3>2. CASE r.parent # 0
      <4>1. P[r.parent] \in Seq(Nat) /\ P[r.parent] # <<>>
        BY <1>2, <2>1, <3>2 DEF Ids, Grove, Pathed
      <4>2. <<Count(W, 0) + 1>> = Append(P[r.parent], Place(W, r.parent, r.id))
        BY <1>4, <2>2, <2>5, <3>2 DEF NewPath, PathTo
      <4>3. Len(Append(P[r.parent], Place(W, r.parent, r.id))) = Len(P[r.parent]) + 1
        BY <2>2, <4>1, AppendProperties
      <4>4. Len(P[r.parent]) # 0 /\ Len(P[r.parent]) \in Nat
        BY <4>1
      <4> QED
        BY <4>2, <4>3, <4>4
    <3> QED
      BY <3>1, <3>2
  <2>6. CASE n.parent # 0
    <3>0. P[n.parent] \in Seq(Nat) /\ P[n.parent] # <<>>
      BY <1>2, <2>6 DEF Ids, Grove, Pathed
    <3>1. CASE r.parent = 0
      <4>1. <<Place(W, 0, r.id)>> = Append(P[n.parent], Count(W, n.parent) + 1)
        BY <1>4, <2>2, <2>6, <3>1 DEF NewPath, PathTo
      <4>2. Count(W, n.parent) + 1 \in Nat
        BY <1>1, <1>2
      <4>3. Len(Append(P[n.parent], Count(W, n.parent) + 1)) = Len(P[n.parent]) + 1
        BY <3>0, <4>2, AppendProperties
      <4>4. Len(P[n.parent]) # 0 /\ Len(P[n.parent]) \in Nat
        BY <3>0
      <4> QED
        BY <4>1, <4>3, <4>4
    <3>2. CASE r.parent # 0
      <4>1. P[r.parent] \in Seq(Nat)
        BY <1>2, <2>1, <3>2
      <4>2. Append(P[n.parent], Count(W, n.parent) + 1)
              = Append(P[r.parent], Place(W, r.parent, r.id))
        BY <1>4, <2>2, <2>6, <3>2 DEF NewPath, PathTo
      <4>3. P[n.parent] = P[r.parent] /\ Count(W, n.parent) + 1 = Place(W, r.parent, r.id)
        <5>1. Count(W, n.parent) + 1 \in Nat
          BY <1>1, <1>2
        <5> DEFINE a == P[n.parent]
                   b == P[r.parent]
                   x == Count(W, n.parent) + 1
                   y == Place(W, r.parent, r.id)
        <5>2. a \in Seq(Nat) /\ b \in Seq(Nat) /\ x \in Nat /\ y \in Nat
          BY <2>2, <3>0, <4>1, <5>1
        <5>3. Append(a, x) = Append(b, y)
          BY <4>2
        <5> HIDE DEF a, b, x, y
        <5>4. a = b /\ x = y
          <6>1. \A c \in Seq(Nat), z \in Nat : Append(a, x) = Append(c, z) => a = c /\ x = z
            BY <5>2, PathAppended
          <6> QED
            BY <5>2, <5>3, <6>1, Zenon
        <5> QED
          BY <5>4 DEF a, b, x, y
      <4>4. n.parent = r.parent
        BY <2>1, <2>6, <3>2, <4>3 DEF Grove, Pathed
      <4> QED
        BY <1>1, <1>2, <2>4, <4>3, <4>4
    <3> QED
      BY <3>1, <3>2
  <2> QED
    BY <2>5, <2>6
<1> QED
  BY <1>3, <1>4

\* A row that may be added: its parent is there and older, its siblings too.
Addable(W, n) ==
    /\ n \in TreeRow /\ n.id \notin Ids(W)
    /\ n.parent # 0 => n.parent \in Ids(W) /\ n.parent < n.id
    /\ \A r \in KidsOf(W, n.parent) : r.id < n.id

LEMMA ForestGrows ==
    ASSUME NEW W, Forest(W), NEW n, Addable(W, n)
    PROVE  /\ Forest(W \cup {n}) /\ Ids(W \cup {n}) = Ids(W) \cup {n.id}
           /\ n.id # 0 /\ \A r \in W : r.id \in Ids(W) /\ r.id # n.id
<1>1. Ids(W \cup {n}) = Ids(W) \cup {n.id} /\ \A r \in W : r.id \in Ids(W) /\ r.id # n.id
  BY DEF Ids, Addable
<1>2. W \cup {n} \subseteq TreeRow
  BY DEF Forest, Addable
<1>3. IsFiniteSet(W \cup {n})
  BY FS_AddElement DEF Forest
<1>4. Distinct(W \cup {n})
  BY <1>1 DEF Distinct, Forest
<1>5. \A r \in W \cup {n} : r.parent # 0 => r.parent \in Ids(W \cup {n}) /\ r.parent < r.id
  BY <1>1 DEF Forest, Addable
<1>6. n.id # 0
  BY DEF Addable, TreeRow
<1> QED
  BY <1>1, <1>2, <1>3, <1>4, <1>5, <1>6 DEF Forest

LEMMA PathedGrows ==
    ASSUME NEW W, NEW P, Grove(P, W), NEW n, Addable(W, n)
    PROVE  Pathed(Longer(P, W, n), W \cup {n})
<1> DEFINE V == W \cup {n}
           L == Longer(P, W, n)
           m == NewPath(P, W, n)
<1>1. /\ Ids(V) = Ids(W) \cup {n.id} /\ n.id # 0 /\ n.id \notin Ids(W)
      /\ \A r \in W : r.id \in Ids(W) /\ r.id # n.id
  BY ForestGrows DEF Grove, Addable
<1>2. L[n.id] = m /\ (\A i \in Ids(W) : L[i] = P[i]) /\ DOMAIN L = Ids(V)
  <2>1. n.id \notin Ids(W)
    BY DEF Addable
  <2>2. /\ Longer(P, W, n)[n.id] = NewPath(P, W, n)
        /\ \A i \in Ids(W) : Longer(P, W, n)[i] = P[i]
        /\ DOMAIN Longer(P, W, n) = Ids(W) \cup {n.id}
    BY <2>1 DEF Longer
  <2> QED
    BY <1>1, <2>2
<1>3. m \in Seq(Nat) /\ m # <<>> /\ \A r \in W : m # P[r.id]
  BY PathsFresh DEF Addable
<1>4. /\ P \in [Ids(W) -> Seq(Nat)]
      /\ \A r \in W : P[r.id] # <<>> /\ P[r.id] = PathTo(P, W, r)
      /\ \A i, j \in Ids(W) : P[i] = P[j] => i = j
  BY DEF Grove, Pathed
<1>5. /\ Place(V, n.parent, n.id) = Count(W, n.parent) + 1
      /\ \A r \in W : Place(V, r.parent, r.id) = Place(W, r.parent, r.id)
  BY KidAdded DEF Grove, Addable
<1>6. \A r \in V : r.parent # 0 => r.parent \in Ids(W)
  BY DEF Grove, Forest, Addable
<1>7. \A i \in Ids(W) : m # P[i]
  BY <1>3 DEF Ids
<1>8. L = [i \in Ids(V) |-> L[i]]
  BY <1>2 DEF Longer
<1> HIDE DEF L, m, V
<1>9. L \in [Ids(V) -> Seq(Nat)]
  <2>1. \A i \in Ids(V) : L[i] \in Seq(Nat)
    BY <1>1, <1>2, <1>3, <1>4
  <2> QED
    BY <1>8, <2>1
<1>10. \A i, j \in Ids(V) : L[i] = L[j] => i = j
  BY <1>1, <1>2, <1>4, <1>7
<1>11. ASSUME NEW r \in W PROVE L[r.id] # <<>> /\ L[r.id] = PathTo(L, V, r)
  <2>1. L[r.id] = P[r.id] /\ P[r.id] # <<>> /\ P[r.id] = PathTo(P, W, r)
    BY <1>1, <1>2, <1>4
  <2>2. r.parent # 0 => L[r.parent] = P[r.parent]
    BY <1>2, <1>6 DEF V
  <2>3. Place(V, r.parent, r.id) = Place(W, r.parent, r.id)
    BY <1>5
  <2> QED
    BY <2>1, <2>2, <2>3 DEF PathTo
<1>12. L[n.id] # <<>> /\ L[n.id] = PathTo(L, V, n)
  <2>1. n.parent # 0 => L[n.parent] = P[n.parent]
    BY <1>2, <1>6 DEF V
  <2> QED
    BY <1>2, <1>3, <1>5, <2>1 DEF PathTo, NewPath, m
<1>13. \A r \in V : L[r.id] # <<>> /\ L[r.id] = PathTo(L, V, r)
  BY <1>11, <1>12 DEF V
<1>14. Pathed(L, V)
  BY <1>9, <1>10, <1>13 DEF Pathed
<1> QED
  BY <1>14 DEF L, V

LEMMA PlacedGrows ==
    ASSUME NEW W, NEW P, Grove(P, W), NEW n, Addable(W, n), NEW p \in Nat
    PROVE  Placed(W \cup {n}, p)
<1> DEFINE V == W \cup {n}
<1>1. /\ Count(V, n.parent) = Count(W, n.parent) + 1
      /\ Place(V, n.parent, n.id) = Count(W, n.parent) + 1
      /\ \A q \in Nat : q # n.parent => Count(V, q) = Count(W, q)
      /\ \A r \in W : Place(V, r.parent, r.id) = Place(W, r.parent, r.id)
      /\ \A q \in Nat \ {n.parent} : KidsOf(V, q) = KidsOf(W, q)
      /\ KidsOf(V, n.parent) = KidsOf(W, n.parent) \cup {n}
  BY KidAdded DEF Grove, Addable
<1>2. {Place(W, p, r.id) : r \in KidsOf(W, p)} = 1..Count(W, p)
  BY DEF Grove, Placed
<1>3. Count(W, p) \in Nat
  BY KidsFinite DEF Grove, Forest
<1> HIDE DEF V
<1>4. \A r \in KidsOf(W, p) : Place(V, p, r.id) = Place(W, p, r.id)
  BY <1>1 DEF KidsOf
<1>5. {Place(V, p, r.id) : r \in KidsOf(W, p)} = 1..Count(W, p)
  BY <1>2, <1>4
<1>6. CASE p # n.parent
  BY <1>1, <1>5, <1>6 DEF Placed, V
<1>7. CASE p = n.parent
  <2>1. {Place(V, p, r.id) : r \in KidsOf(V, p)}
          = {Place(V, p, r.id) : r \in KidsOf(W, p)} \cup {Place(V, p, n.id)}
    BY <1>1, <1>7
  <2>2. {Place(V, p, r.id) : r \in KidsOf(V, p)} = (1..Count(W, p)) \cup {Count(W, p) + 1}
    BY <1>1, <1>5, <1>7, <2>1
  <2>3. (1..Count(W, p)) \cup {Count(W, p) + 1} = 1..(Count(W, p) + 1)
    BY <1>3
  <2> QED
    BY <1>1, <1>7, <2>2, <2>3 DEF Placed, V
<1> QED
  BY <1>6, <1>7

LEMMA GroveGrows ==
    ASSUME NEW W, NEW P, Grove(P, W), NEW n, Addable(W, n)
    PROVE  Grove(Longer(P, W, n), W \cup {n})
  BY ForestGrows, PathedGrows, PlacedGrows DEF Grove

-----------------------------------------------------------------------------
(* Paths and Reached, as functions of the rows.                            *)

PathsOf(I, D) ==
    LET own == {r \in I : r.id \in D}
        path[i \in D] ==
            LET parent == RowOf(I, i).parent
                rank == Cardinality({r \in own : r.parent = parent /\ r.id <= i})
            IN  IF parent = 0 THEN <<rank>> ELSE Append(path[parent], rank)
    IN  path

ReachedOf(I, D) ==
    LET path == PathsOf(I, D)
    IN  [p \in {path[i] : i \in D} |->
           RowOf(I, CHOOSE i \in D : path[i] = p).tpl]

\* The templates at the paths of the rows.
TemplatesAt(I, D, path) ==
    [p \in {path[i] : i \in D} |->
       RowOf(I, CHOOSE i \in D : path[i] = p).tpl]

OwnOf(I, D) == {r \in I : r.id \in D}

LEMMA PathsFound ==
    ASSUME NEW I, NEW D, Distinct(I), D \subseteq Ids(I),
           NEW P, Grove(P, OwnOf(I, D))
    PROVE  /\ PathsOf(I, D) = P /\ Ids(OwnOf(I, D)) = D
           /\ \A i \in D : RowOf(I, i) \in OwnOf(I, D) /\ RowOf(I, i).id = i
<1> DEFINE W == OwnOf(I, D)
           Next1(f, i) == IF RowOf(I, i).parent = 0
                          THEN <<Place(W, RowOf(I, i).parent, i)>>
                          ELSE Append(f[RowOf(I, i).parent], Place(W, RowOf(I, i).parent, i))
<1>1. Ids(W) = D
  BY DEF Ids, OwnOf
<1>2. \A i \in D : RowOf(I, i) \in W /\ RowOf(I, i).id = i
  <2>1. ASSUME NEW i \in D PROVE RowOf(I, i) \in W /\ RowOf(I, i).id = i
    <3>1. PICK r \in I : r.id = i
      BY DEF Ids
    <3>2. RowOf(I, i) = r
      BY <3>1, RowOfId
    <3> QED
      BY <3>1, <3>2 DEF OwnOf
  <2> QED
    BY <2>1
<1>3. /\ D \subseteq Nat
      /\ \A i \in D : RowOf(I, i).parent \in Nat
      /\ \A i \in D : RowOf(I, i).parent # 0 =>
                         RowOf(I, i).parent \in D /\ RowOf(I, i).parent < i
  BY <1>1, <1>2 DEF Grove, Forest, TreeRow
<1>4. \A i \in D : P[i] = Next1(P, i)
  BY <1>2 DEF Grove, Pathed, PathTo
<1>5. P = [i \in D |-> Next1(P, i)]
  <2>1. P = [i \in D |-> P[i]]
    BY <1>1 DEF Grove, Pathed
  <2> HIDE DEF Next1
  <2> QED
    BY <1>4, <2>1
<1>6. PICK g : g = CHOOSE h : h = [i \in D |-> Next1(h, i)]
  OBVIOUS
<1>7. PathsOf(I, D) = g
  BY <1>6, Zenon DEF PathsOf, OwnOf, Place, KidsUpTo
<1>8. g = [i \in D |-> Next1(g, i)]
  BY <1>5, <1>6
<1>9. \A i \in D : g[i] = Next1(g, i)
  BY <1>8
<1>10. \A i \in D : g[i] = P[i]
  <2>1. PICK B : B = {i \in D : g[i] # P[i]}
    OBVIOUS
  <2>2. CASE B # {}
    <3>1. PICK i \in B : \A j \in B : i <= j
      BY <1>3, <2>1, <2>2, Least
    <3>2. i \in D /\ g[i] # P[i] /\ \A j \in D : j < i => g[j] = P[j]
      <4>1. \A j \in D : j \in Nat /\ (j \notin B => g[j] = P[j])
        BY <1>3, <2>1
      <4>2. i \in D /\ g[i] # P[i]
        BY <2>1, <3>1
      <4>3. \A j \in D : j < i => j \notin B
        BY <3>1, <4>1, <4>2
      <4> QED
        BY <4>1, <4>2, <4>3
    <3>3. g[i] = Next1(g, i) /\ P[i] = Next1(P, i)
      BY <1>4, <1>9, <3>2
    <3>4. CASE RowOf(I, i).parent = 0
      BY <3>2, <3>3, <3>4
    <3>5. CASE RowOf(I, i).parent # 0
      <4>1. g[RowOf(I, i).parent] = P[RowOf(I, i).parent]
        <5>1. RowOf(I, i).parent \in D /\ RowOf(I, i).parent < i
          BY <1>3, <3>2, <3>5
        <5> QED
          BY <3>2, <5>1
      <4> QED
        BY <3>2, <3>3, <3>5, <4>1
    <3> QED
      BY <3>4, <3>5
  <2> QED
    BY <2>1, <2>2
<1>11. g = P
  <2>1. g = [i \in D |-> g[i]]
    BY <1>8
  <2>2. P = [i \in D |-> P[i]]
    BY <1>5
  <2> QED
    BY <1>10, <2>1, <2>2
<1> QED
  BY <1>1, <1>2, <1>7, <1>11

\* o gives every path of the rows of W, and no other, the template there.
Tells(o, P, W) == /\ o = [p \in {P[r.id] : r \in W} |-> o[p]]
                  /\ \A r \in W : o[P[r.id]] = r.tpl

LEMMA ReachedTells ==
    ASSUME NEW I, NEW D, Distinct(I), D \subseteq Ids(I),
           NEW P, Grove(P, OwnOf(I, D))
    PROVE  Tells(ReachedOf(I, D), P, OwnOf(I, D))
<1> DEFINE W == OwnOf(I, D)
           o == ReachedOf(I, D)
<1>1. /\ PathsOf(I, D) = P /\ Ids(W) = D
      /\ \A i \in D : RowOf(I, i) \in W /\ RowOf(I, i).id = i
  BY PathsFound
<1>2. o = [p \in {P[i] : i \in D} |-> RowOf(I, CHOOSE i \in D : P[i] = p).tpl]
  <2>1. o = TemplatesAt(I, D, PathsOf(I, D))
    BY Zenon DEF ReachedOf, TemplatesAt
  <2> HIDE DEF o
  <2>2. o = TemplatesAt(I, D, P)
    BY <1>1, <2>1
  <2> QED
    BY <2>2 DEF TemplatesAt
<1>3. {P[i] : i \in D} = {P[r.id] : r \in W}
  BY <1>1 DEF Ids
<1>4. ASSUME NEW r \in W PROVE o[P[r.id]] = r.tpl
  <2>1. r.id \in D /\ r \in I
    BY DEF OwnOf
  <2>2. \A i \in D : P[i] = P[r.id] => i = r.id
    BY <1>1, <2>1 DEF Grove, Pathed
  <2>3. (CHOOSE i \in D : P[i] = P[r.id]) = r.id
    BY <2>1, <2>2
  <2>4. P[r.id] \in {P[i] : i \in D}
    BY <2>1
  <2> HIDE DEF o, W
  <2>5. o[P[r.id]] = RowOf(I, CHOOSE i \in D : P[i] = P[r.id]).tpl
    BY <1>2, <2>4
  <2>6. RowOf(I, r.id) = r
    BY <2>1, RowOfId
  <2> QED
    BY <2>3, <2>5, <2>6
<1> HIDE DEF o, W
<1>5. o = [p \in {P[i] : i \in D} |-> o[p]]
  BY <1>2
<1>6. o = [p \in {P[r.id] : r \in W} |-> o[p]]
  BY <1>3, <1>5
<1> QED
  BY <1>4, <1>6 DEF Tells, o, W

LEMMA TellsOnce ==
    ASSUME NEW o, NEW q, NEW P, NEW W, Tells(o, P, W), Tells(q, P, W)
    PROVE  o = q
<1>1. \A p \in {P[r.id] : r \in W} : o[p] = q[p]
  BY DEF Tells
<1> QED
  BY <1>1 DEF Tells

\* A row more is a path more.
LEMMA TellsMore ==
    ASSUME NEW o, NEW q, NEW P, NEW W, Grove(P, W), NEW n, Addable(W, n),
           Tells(o, P, W), Tells(q, Longer(P, W, n), W \cup {n})
    PROVE  /\ NewPath(P, W, n) \notin DOMAIN o
           /\ DOMAIN q = DOMAIN o \cup {NewPath(P, W, n)}
           /\ q[NewPath(P, W, n)] = n.tpl
           /\ \A p \in DOMAIN o : q[p] = o[p]
<1> DEFINE V == W \cup {n}
           L == Longer(P, W, n)
           m == NewPath(P, W, n)
<1>1. \A r \in W : r.id \in Ids(W) /\ r.id # n.id
  BY ForestGrows DEF Grove
<1>2. L[n.id] = m /\ (\A i \in Ids(W) : L[i] = P[i])
  <2>1. n.id \notin Ids(W)
    BY DEF Addable
  <2>2. /\ Longer(P, W, n)[n.id] = NewPath(P, W, n)
        /\ \A i \in Ids(W) : Longer(P, W, n)[i] = P[i]
        /\ DOMAIN Longer(P, W, n) = Ids(W) \cup {n.id}
    BY <2>1 DEF Longer
  <2> QED
    BY <2>2
<1>3. \A r \in W : m # P[r.id]
  BY PathsFresh DEF Addable
<1>4. DOMAIN o = {P[r.id] : r \in W}
  BY DEF Tells
<1> HIDE DEF L, m
<1>5. m \notin DOMAIN o
  BY <1>3, <1>4
<1>6. {L[r.id] : r \in V} = DOMAIN o \cup {m}
  BY <1>1, <1>2, <1>4
<1>7. q[m] = n.tpl
  BY <1>2 DEF Tells, L
<1>8. \A r \in W : q[P[r.id]] = o[P[r.id]]
  BY <1>1, <1>2 DEF Tells, L
<1>9. \A p \in DOMAIN o : q[p] = o[p] /\ p # m
  BY <1>4, <1>5, <1>8
<1>10. q = [p \in {L[r.id] : r \in V} |-> q[p]]
  BY DEF Tells, L
<1>11. q = [p \in DOMAIN o \cup {m} |-> q[p]]
  BY <1>6, <1>10
<1>12. DOMAIN q = DOMAIN o \cup {m}
  BY <1>11
<1> QED
  BY <1>5, <1>7, <1>9, <1>12 DEF m

\* The occurrences of the stack s lie on one path, each with its template.
Standing(P, W, s) ==
    \A j \in 1..Len(s) :
      /\ \E r \in W : r.id = s[j].inst /\ r.tpl = {s[j].tpl}
      /\ Len(P[s[j].inst]) = j
      /\ \A i \in 1..j : SubSeq(P[s[j].inst], 1, i) = P[s[i].inst]

\* The children of an occurrence of the stack are those stamped so far.
Underway(W, f) ==
    /\ f.stage \in {"rows", "guard"} => KidsOf(W, f.inst) = {}
    /\ f.stage \in {"kids", "conns"} => f.inst <= f.childBase
    /\ f.stage = "kids" =>
         /\ Count(W, f.inst) = f.next - 1
         /\ \A r \in KidsOf(W, f.inst) : r.id < f.childBase + f.next
    /\ f.stage = "conns" =>
         /\ Count(W, f.inst) = f.next
         /\ \A r \in KidsOf(W, f.inst) : r.id <= f.childBase + f.next

\* One of its own ancestors has the template of r.
Cut(P, W, r) ==
    \E q \in W : \E i \in 1..(Len(P[r.id]) - 1) :
       P[q.id] = SubSeq(P[r.id], 1, i) /\ q.tpl \cap r.tpl # {}

\* Nothing is to come below r.
Done(P, W, r, d) ==
    \/ Cut(P, W, r)
    \/ \A t \in r.tpl : Len(d.body[t].children) <= Count(W, r.id)

Growing(P, W, s, d) ==
    /\ Standing(P, W, s)
    /\ \A j \in 1..Len(s) : Underway(W, s[j])
    /\ \A r \in W : (\E j \in 1..Len(s) : s[j].inst = r.id) \/ Done(P, W, r, d)

\* The innermost occurrence goes on.
LEMMA TopGoesOn ==
    ASSUME NEW P, NEW W, NEW s, NEW t, NEW d, Growing(P, W, s, d),
           Len(s) \in Nat \ {0}, Len(t) = Len(s),
           \A i \in 1..(Len(s) - 1) : t[i] = s[i],
           t[Len(s)].inst = s[Len(s)].inst, t[Len(s)].tpl = s[Len(s)].tpl,
           Underway(W, t[Len(s)])
    PROVE  Growing(P, W, t, d)
<1>1. \A i \in 1..Len(s) : i = Len(s) \/ i \in 1..(Len(s) - 1)
  OBVIOUS
<1>2. \A i \in 1..Len(s) : t[i].inst = s[i].inst /\ t[i].tpl = s[i].tpl
  BY <1>1
<1>3. Standing(P, W, t)
  <2>1. ASSUME NEW j \in 1..Len(s)
        PROVE  /\ \E r \in W : r.id = t[j].inst /\ r.tpl = {t[j].tpl}
               /\ Len(P[t[j].inst]) = j
               /\ \A i \in 1..j : SubSeq(P[t[j].inst], 1, i) = P[t[i].inst]
    <3>1. /\ \E r \in W : r.id = s[j].inst /\ r.tpl = {s[j].tpl}
          /\ Len(P[s[j].inst]) = j
          /\ \A i \in 1..j : SubSeq(P[s[j].inst], 1, i) = P[s[i].inst]
      BY DEF Growing, Standing
    <3>2. \A i \in 1..j : i \in 1..Len(s)
      OBVIOUS
    <3> QED
      BY <1>2, <3>1, <3>2
  <2> QED
    BY <2>1 DEF Standing
<1>4. \A j \in 1..Len(t) : Underway(W, t[j])
  BY <1>1 DEF Growing
<1>5. \A r \in W : (\E j \in 1..Len(t) : t[j].inst = r.id) \/ Done(P, W, r, d)
  BY <1>2 DEF Growing
<1> QED
  BY <1>3, <1>4, <1>5 DEF Growing

\* The innermost occurrence returns.
LEMMA TopReturns ==
    ASSUME NEW P, NEW W, NEW s, NEW t, NEW d, Growing(P, W, s, d),
           Len(s) \in Nat \ {0}, Len(t) = Len(s) - 1,
           \A i \in 1..(Len(s) - 1) : t[i] = s[i],
           \A r \in W : r.id = s[Len(s)].inst => Done(P, W, r, d)
    PROVE  Growing(P, W, t, d)
<1>1. \A i \in 1..Len(t) : i \in 1..Len(s) /\ t[i] = s[i]
  OBVIOUS
<1>2. \A i \in 1..Len(s) : i = Len(s) \/ i \in 1..Len(t)
  OBVIOUS
<1>3. Standing(P, W, t)
  <2>1. ASSUME NEW j \in 1..Len(t)
        PROVE  /\ \E r \in W : r.id = t[j].inst /\ r.tpl = {t[j].tpl}
               /\ Len(P[t[j].inst]) = j
               /\ \A i \in 1..j : SubSeq(P[t[j].inst], 1, i) = P[t[i].inst]
    <3>1. /\ \E r \in W : r.id = s[j].inst /\ r.tpl = {s[j].tpl}
          /\ Len(P[s[j].inst]) = j
          /\ \A i \in 1..j : SubSeq(P[s[j].inst], 1, i) = P[s[i].inst]
      BY <1>1 DEF Growing, Standing
    <3>2. \A i \in 1..j : i \in 1..Len(t)
      OBVIOUS
    <3> QED
      BY <1>1, <3>1, <3>2
  <2> QED
    BY <2>1 DEF Standing
<1>4. \A j \in 1..Len(t) : Underway(W, t[j])
  BY <1>1 DEF Growing
<1>5. ASSUME NEW r \in W PROVE (\E j \in 1..Len(t) : t[j].inst = r.id) \/ Done(P, W, r, d)
  <2>1. CASE Done(P, W, r, d)
    BY <2>1
  <2>2. CASE \E j \in 1..Len(s) : s[j].inst = r.id
    BY <1>1, <1>2, <2>2
  <2> QED
    BY <2>1, <2>2 DEF Growing
<1> QED
  BY <1>3, <1>4, <1>5 DEF Growing

-----------------------------------------------------------------------------
(* A row more.                                                             *)

LEMMA StandsStill ==
    ASSUME NEW P, NEW W, NEW n, NEW s, Grove(P, W), Addable(W, n), Standing(P, W, s)
    PROVE  Standing(Longer(P, W, n), W \cup {n}, s)
<1> DEFINE L == Longer(P, W, n)
<1>1. n.id \notin Ids(W)
  BY DEF Addable
<1>2. \A i \in Ids(W) : L[i] = P[i]
  BY <1>1 DEF Longer
<1> HIDE DEF L
<1>3. \A j \in 1..Len(s) : s[j].inst \in Ids(W)
  BY DEF Standing, Ids
<1>4. ASSUME NEW j \in 1..Len(s)
      PROVE  /\ \E r \in W \cup {n} : r.id = s[j].inst /\ r.tpl = {s[j].tpl}
             /\ Len(L[s[j].inst]) = j
             /\ \A i \in 1..j : SubSeq(L[s[j].inst], 1, i) = L[s[i].inst]
  <2>1. /\ \E r \in W : r.id = s[j].inst /\ r.tpl = {s[j].tpl}
        /\ Len(P[s[j].inst]) = j
        /\ \A i \in 1..j : SubSeq(P[s[j].inst], 1, i) = P[s[i].inst]
    BY DEF Standing
  <2>2. L[s[j].inst] = P[s[j].inst]
    BY <1>2, <1>3
  <2>3. \A i \in 1..j : L[s[i].inst] = P[s[i].inst]
    <3>1. \A i \in 1..j : i \in 1..Len(s)
      BY <2>1
    <3> QED
      BY <1>2, <1>3, <3>1
  <2> QED
    BY <2>1, <2>2, <2>3
<1>5. Standing(L, W \cup {n}, s)
  BY <1>4 DEF Standing
<1> QED
  BY <1>5 DEF L

LEMMA DoneStill ==
    ASSUME NEW P, NEW W, NEW n, NEW d, Grove(P, W), Addable(W, n),
           NEW r \in W, Done(P, W, r, d),
           \A t \in r.tpl : Len(d.body[t].children) \in Nat
    PROVE  Done(Longer(P, W, n), W \cup {n}, r, d)
<1> DEFINE L == Longer(P, W, n)
           V == W \cup {n}
<1>1. n.id \notin Ids(W)
  BY DEF Addable
<1>2. \A q \in W : L[q.id] = P[q.id]
  BY <1>1 DEF Longer, Ids
<1>3. CASE Cut(P, W, r)
  <2> HIDE DEF L
  <2>1. Cut(L, V, r)
    BY <1>2, <1>3 DEF Cut
  <2> QED
    BY <2>1 DEF Done, L
<1>4. CASE \A t \in r.tpl : Len(d.body[t].children) <= Count(W, r.id)
  <2>1. r.id \in Nat /\ n.parent \in Nat
    BY DEF Grove, Forest, TreeRow, Addable
  <2>2. Count(V, r.id) = Count(W, r.id) \/ Count(V, r.id) = Count(W, r.id) + 1
    BY <2>1, KidAdded DEF Grove, Addable
  <2>3. Count(W, r.id) \in Nat
    BY KidsFinite DEF Grove, Forest
  <2> HIDE DEF V
  <2>4. \A t \in r.tpl : Len(d.body[t].children) <= Count(V, r.id)
    BY <1>4, <2>2, <2>3
  <2> QED
    BY <2>4 DEF Done, V
<1> QED
  BY <1>3, <1>4 DEF Done

\* Frames other than the parent's are as they were.
LEMMA UnderwayStill ==
    ASSUME NEW P, NEW W, NEW n, Grove(P, W), Addable(W, n), NEW f,
           f.inst \in Nat, f.inst # n.parent, Underway(W, f)
    PROVE  Underway(W \cup {n}, f)
<1>1. /\ Count(W \cup {n}, f.inst) = Count(W, f.inst)
      /\ KidsOf(W \cup {n}, f.inst) = KidsOf(W, f.inst)
  <2>1. /\ \A p \in Nat : p # n.parent => Count(W \cup {n}, p) = Count(W, p)
        /\ \A p \in Nat \ {n.parent} : KidsOf(W \cup {n}, p) = KidsOf(W, p)
    BY KidAdded DEF Grove, Addable
  <2> QED
    BY <2>1
<1> QED
  BY <1>1 DEF Underway

\* The occurrences of a stack are different.
LEMMA StackApart ==
    ASSUME NEW P, NEW W, NEW s, Standing(P, W, s),
           NEW i \in 1..Len(s), NEW j \in 1..Len(s), s[i].inst = s[j].inst
    PROVE  i = j
  BY DEF Standing

LEMMA NoKidsYet ==
    ASSUME NEW P, NEW W, NEW n, Grove(P, W), Addable(W, n)
    PROVE  KidsOf(W \cup {n}, n.id) = {}
<1>1. n.id # 0 /\ n.id \in Nat /\ n.id \notin Ids(W)
  BY DEF Addable, TreeRow
<1>2. \A r \in W : r.parent # n.id
  BY <1>1 DEF Grove, Forest
<1>3. n.parent # n.id
  BY <1>1 DEF Addable
<1> QED
  BY <1>2, <1>3 DEF KidsOf

LEMMA BodyLengths ==
    ASSUME NEW P, NEW W, Grove(P, W), NEW d \in Designs, NEW r \in W
    PROVE  \A t \in r.tpl : Len(d.body[t].children) \in Nat
<1>1. \A t \in r.tpl : t \in Tpl
  BY DEF Grove, Forest, TreeRow
<1>2. \A t \in Tpl : d.body[t] \in Body
  BY DesignsTyped DEF Design
<1> QED
  BY <1>1, <1>2 DEF Body

\* A row without a template below the innermost occurrence: a black box.
LEMMA BoxAdded ==
    ASSUME NEW P, NEW W, NEW s, NEW t, NEW d \in Designs, NEW n,
           Grove(P, W), Growing(P, W, s, d), Addable(W, n),
           Len(s) \in Nat \ {0}, n.parent = s[Len(s)].inst, n.tpl = {},
           Len(t) = Len(s), \A i \in 1..(Len(s) - 1) : t[i] = s[i],
           t[Len(s)].inst = s[Len(s)].inst, t[Len(s)].tpl = s[Len(s)].tpl,
           t[Len(s)].stage = "kids", s[Len(s)].stage = "kids",
           t[Len(s)].childBase = s[Len(s)].childBase, s[Len(s)].next \in Nat,
           t[Len(s)].next = s[Len(s)].next + 1,
           s[Len(s)].childBase \in Nat, n.id = s[Len(s)].childBase + s[Len(s)].next
    PROVE  Growing(Longer(P, W, n), W \cup {n}, t, d)
<1> DEFINE L == Longer(P, W, n)
           V == W \cup {n}
           f == s[Len(s)]
           g == t[Len(s)]
<1>1. Standing(P, W, s) /\ Standing(L, V, s)
  BY StandsStill DEF Growing
<1>2. \A j \in 1..Len(s) : s[j].inst \in Nat /\ Underway(W, s[j])
  BY <1>1 DEF Growing, Standing, Grove, Forest, TreeRow
<1>3. Len(s) \in 1..Len(s)
  OBVIOUS
<1>4. ASSUME NEW j \in 1..(Len(s) - 1) PROVE Underway(V, s[j])
  <2>1. j \in 1..Len(s) /\ j # Len(s)
    OBVIOUS
  <2>2. s[j].inst # n.parent
    BY <1>1, <1>3, <2>1, StackApart
  <2> QED
    BY <1>2, <2>1, <2>2, UnderwayStill
<1>5. Underway(V, g)
  <2>1. /\ Count(V, n.parent) = Count(W, n.parent) + 1
        /\ KidsOf(V, n.parent) = KidsOf(W, n.parent) \cup {n}
    BY KidAdded DEF Grove, Addable
  <2>2. Underway(W, f)
    BY <1>2, <1>3
  <2>3. \A r \in KidsOf(W, n.parent) : r.id \in Nat
    BY DEF KidsOf, Grove, Forest, TreeRow
  <2>4. /\ g.inst = n.parent /\ f.inst = n.parent /\ g.stage = "kids" /\ f.stage = "kids"
        /\ g.childBase = f.childBase /\ g.next = f.next + 1 /\ f.next \in Nat
        /\ f.childBase \in Nat /\ n.id = f.childBase + f.next
    OBVIOUS
  <2> HIDE DEF f, g, V
  <2>5. /\ f.inst <= f.childBase /\ Count(W, f.inst) = f.next - 1
        /\ \A r \in KidsOf(W, f.inst) : r.id < f.childBase + f.next
    BY <2>2, <2>4 DEF Underway
  <2>6. \A r \in KidsOf(V, g.inst) : r.id < g.childBase + g.next
    <3>1. KidsOf(V, g.inst) = KidsOf(W, f.inst) \cup {n}
      BY <2>1, <2>4
    <3>2. n.id < g.childBase + g.next /\ g.childBase + g.next = f.childBase + f.next + 1
      <4>1. \A a \in Nat, b \in Nat : a + b < a + (b + 1) /\ a + (b + 1) = a + b + 1
        OBVIOUS
      <4>2. g.childBase + g.next = f.childBase + (f.next + 1)
        BY ONLY <2>4
      <4>3. f.childBase \in Nat /\ f.next \in Nat /\ n.id = f.childBase + f.next
        BY ONLY <2>4
      <4> QED
        BY ONLY <4>1, <4>2, <4>3
    <3>3. \A r \in KidsOf(W, f.inst) : r.id < g.childBase + g.next
      BY <2>3, <2>4, <2>5, <3>2
    <3> QED
      BY <3>1, <3>2, <3>3
  <2>7. Count(V, g.inst) = g.next - 1 /\ g.inst <= g.childBase
    BY <2>1, <2>4, <2>5
  <2> QED
    BY <2>4, <2>6, <2>7 DEF Underway
<1>6. Standing(L, V, t) /\ \A j \in 1..Len(t) : Underway(V, t[j])
  <2>1. \A i \in 1..Len(s) : i = Len(s) \/ i \in 1..(Len(s) - 1)
    OBVIOUS
  <2>2. \A i \in 1..Len(s) : t[i].inst = s[i].inst /\ t[i].tpl = s[i].tpl
    BY <2>1
  <2> HIDE DEF L, V
  <2>3. \A j \in 1..Len(t) : \A i \in 1..j : i \in 1..Len(s)
    OBVIOUS
  <2>4. Standing(L, V, t)
    <3>1. ASSUME NEW j \in 1..Len(t)
          PROVE  /\ \E r \in V : r.id = t[j].inst /\ r.tpl = {t[j].tpl}
                 /\ Len(L[t[j].inst]) = j
                 /\ \A i \in 1..j : SubSeq(L[t[j].inst], 1, i) = L[t[i].inst]
      <4>1. /\ \E r \in V : r.id = s[j].inst /\ r.tpl = {s[j].tpl}
            /\ Len(L[s[j].inst]) = j
            /\ \A i \in 1..j : SubSeq(L[s[j].inst], 1, i) = L[s[i].inst]
        BY <1>1 DEF Standing
      <4>2. t[j].inst = s[j].inst /\ t[j].tpl = s[j].tpl
        BY <2>2
      <4>3. \A i \in 1..j : t[i].inst = s[i].inst
        BY <2>2, <2>3
      <4> QED
        BY ONLY <4>1, <4>2, <4>3
    <3> QED
      BY <3>1 DEF Standing
  <2> QED
    BY <1>4, <1>5, <2>1, <2>4
<1>7. ASSUME NEW r \in V PROVE (\E j \in 1..Len(t) : t[j].inst = r.id) \/ Done(L, V, r, d)
  <2>1. CASE r = n
    BY <2>1 DEF Done
  <2>2. CASE r \in W
    <3>1. CASE Done(P, W, r, d)
      BY <2>2, <3>1, DoneStill, BodyLengths
    <3>2. CASE \E j \in 1..Len(s) : s[j].inst = r.id
      <4>1. \A i \in 1..Len(s) : i = Len(s) \/ i \in 1..(Len(s) - 1)
        OBVIOUS
      <4> QED
        BY <3>2, <4>1
    <3> QED
      BY <2>2, <3>1, <3>2 DEF Growing
  <2> QED
    BY <2>1, <2>2
<1> HIDE DEF L, V
<1>8. Growing(L, V, t, d)
  BY <1>6, <1>7 DEF Growing
<1> QED
  BY <1>8 DEF L, V

LEMMA Whole ==
    ASSUME NEW b \in Seq(Nat)
    PROVE  SubSeq(b, 1, Len(b)) = b
<1>1. /\ SubSeq(b, 1, Len(b)) \in Seq(Nat) /\ Len(SubSeq(b, 1, Len(b))) = Len(b)
      /\ \A k \in 1..Len(b) : SubSeq(b, 1, Len(b))[k] = b[k]
  OBVIOUS
<1> QED
  BY <1>1

LEMMA Initials ==
    ASSUME NEW a \in Seq(Nat), NEW x \in Nat
    PROVE  /\ \A i \in 1..Len(a) : SubSeq(Append(a, x), 1, i) = SubSeq(a, 1, i)
           /\ SubSeq(Append(a, x), 1, Len(a) + 1) = Append(a, x)
<1>1. /\ Append(a, x) \in Seq(Nat) /\ Len(Append(a, x)) = Len(a) + 1 /\ Len(a) \in Nat
      /\ \A i \in 1..Len(a) : Append(a, x)[i] = a[i]
  BY PathAppended
<1> DEFINE b == Append(a, x)
<1>2. b \in Seq(Nat) /\ Len(b) = Len(a) + 1 /\ \A i \in 1..Len(a) : b[i] = a[i]
  BY <1>1
<1> HIDE DEF b
<1>3. SubSeq(b, 1, Len(a) + 1) = b
  BY <1>2, Whole
<1>4. ASSUME NEW i \in 1..Len(a) PROVE SubSeq(b, 1, i) = SubSeq(a, 1, i)
  <2>1. i \in Nat /\ i <= Len(b) /\ \A k \in 1..i : k \in 1..Len(a) /\ k \in 1..Len(b)
    BY <1>1, <1>2
  <2>2. /\ SubSeq(b, 1, i) \in Seq(Nat) /\ Len(SubSeq(b, 1, i)) = i
        /\ \A k \in 1..i : SubSeq(b, 1, i)[k] = b[k]
    BY <1>1, <1>2, <2>1
  <2>3. /\ SubSeq(a, 1, i) \in Seq(Nat) /\ Len(SubSeq(a, 1, i)) = i
        /\ \A k \in 1..i : SubSeq(a, 1, i)[k] = a[k]
    BY <1>1, <2>1
  <2>4. \A k \in 1..i : SubSeq(b, 1, i)[k] = SubSeq(a, 1, i)[k]
    BY <1>2, <2>1, <2>2, <2>3
  <2> QED
    BY <2>2, <2>3, <2>4
<1> QED
  BY <1>3, <1>4 DEF b

\* A new occurrence on the stack, under the innermost or by itself.
LEMMA Pushed ==
    ASSUME NEW P, NEW W, NEW n, NEW s, NEW t,
           Grove(P, W), Addable(W, n), Standing(P, W, s),
           Len(s) \in Nat, Len(t) = Len(s) + 1,
           \A i \in 1..Len(s) : t[i].inst = s[i].inst /\ t[i].tpl = s[i].tpl,
           t[Len(s) + 1].inst = n.id, n.tpl = {t[Len(s) + 1].tpl},
           Len(s) = 0 => n.parent = 0,
           Len(s) # 0 => n.parent # 0 /\ n.parent = s[Len(s)].inst
    PROVE  Standing(Longer(P, W, n), W \cup {n}, t)
<1> DEFINE L == Longer(P, W, n)
           V == W \cup {n}
           m == NewPath(P, W, n)
<1>1. Standing(L, V, s)
  BY StandsStill
<1>2. L[n.id] = m /\ n \in V /\ n.id \notin Ids(W) /\ m \in Seq(Nat)
  BY PathsFresh DEF Longer, Addable
<1>3. Count(W, n.parent) + 1 \in Nat /\ Count(W, n.parent) \in Nat
  BY KidsFinite DEF Grove, Forest
<1>4. /\ Len(m) = Len(s) + 1
      /\ SubSeq(m, 1, Len(s) + 1) = m
      /\ \A i \in 1..Len(s) : SubSeq(m, 1, i) = L[s[i].inst]
  <2>1. CASE Len(s) = 0
    <3>1. m = <<Count(W, 0) + 1>> /\ Count(W, 0) + 1 \in Nat
      BY <1>3, <2>1 DEF NewPath
    <3> HIDE DEF m
    <3>2. m \in Seq(Nat) /\ Len(m) = 1
      BY <3>1
    <3>3. SubSeq(m, 1, Len(m)) = m
      BY <3>2, Whole
    <3> QED
      BY <2>1, <3>2, <3>3
  <2>2. CASE Len(s) # 0
    <3> DEFINE a == P[n.parent]
               x == Count(W, n.parent) + 1
    <3>1. m = Append(a, x)
      BY <2>2 DEF NewPath
    <3>2. Len(s) \in 1..Len(s)
      BY <2>2
    <3>3. Len(a) = Len(s) /\ \A i \in 1..Len(s) : SubSeq(a, 1, i) = P[s[i].inst]
      BY <2>2, <3>2 DEF Standing
    <3>4. a \in Seq(Nat)
      BY <2>2 DEF Grove, Pathed, Addable
    <3>5. \A i \in 1..Len(s) : L[s[i].inst] = P[s[i].inst]
      <4>1. \A i \in 1..Len(s) : s[i].inst \in Ids(W)
        BY DEF Standing, Ids
      <4> QED
        BY <1>2, <4>1 DEF Longer
    <3>6. x \in Nat
      BY <1>3
    <3> HIDE DEF a, x, m, L
    <3>7. /\ \A i \in 1..Len(a) : SubSeq(m, 1, i) = SubSeq(a, 1, i)
          /\ SubSeq(m, 1, Len(a) + 1) = m
          /\ Len(m) = Len(a) + 1
      BY <3>1, <3>4, <3>6, Initials, PathAppended
    <3> QED
      BY <3>3, <3>5, <3>7
  <2> QED
    BY <2>1, <2>2
<1> HIDE DEF L, V, m
<1>5. ASSUME NEW j \in 1..Len(t)
      PROVE  /\ \E r \in V : r.id = t[j].inst /\ r.tpl = {t[j].tpl}
             /\ Len(L[t[j].inst]) = j
             /\ \A i \in 1..j : SubSeq(L[t[j].inst], 1, i) = L[t[i].inst]
  <2>1. CASE j \in 1..Len(s)
    <3>1. /\ \E r \in V : r.id = s[j].inst /\ r.tpl = {s[j].tpl}
          /\ Len(L[s[j].inst]) = j
          /\ \A i \in 1..j : SubSeq(L[s[j].inst], 1, i) = L[s[i].inst]
      BY <1>1, <2>1 DEF Standing
    <3>2. t[j].inst = s[j].inst /\ t[j].tpl = s[j].tpl
      BY <2>1
    <3>3. \A i \in 1..j : t[i].inst = s[i].inst
      <4>1. \A i \in 1..j : i \in 1..Len(s)
        BY <2>1
      <4> QED
        BY <4>1
    <3> QED
      BY ONLY <3>1, <3>2, <3>3
  <2>2. CASE j = Len(s) + 1
    <3>1. t[j].inst = n.id /\ n.tpl = {t[j].tpl} /\ L[t[j].inst] = m
      BY <1>2, <2>2
    <3>2. \A i \in 1..j : i \in 1..Len(s) \/ i = j
      BY <2>2
    <3>3. \A i \in 1..Len(s) : SubSeq(m, 1, i) = L[t[i].inst]
      BY <1>4
    <3>4. SubSeq(m, 1, j) = m /\ Len(m) = j
      BY <1>4, <2>2
    <3>5. \A i \in 1..j : SubSeq(L[t[j].inst], 1, i) = L[t[i].inst]
      BY <3>1, <3>2, <3>3, <3>4
    <3>6. \E r \in V : r.id = t[j].inst /\ r.tpl = {t[j].tpl}
      BY <1>2, <3>1
    <3> QED
      BY <3>1, <3>4, <3>5, <3>6
  <2>3. j \in 1..Len(s) \/ j = Len(s) + 1
    OBVIOUS
  <2> QED
    BY <2>1, <2>2, <2>3
<1>6. Standing(L, V, t)
  BY <1>5 DEF Standing
<1> QED
  BY <1>6 DEF L, V

\* A child module: the parent waits, the child is stamped.
LEMMA ChildAdded ==
    ASSUME NEW P, NEW W, NEW s, NEW t, NEW d \in Designs, NEW n,
           Grove(P, W), Growing(P, W, s, d), Addable(W, n),
           Len(s) \in Nat \ {0}, n.parent # 0, n.parent = s[Len(s)].inst,
           Len(t) = Len(s) + 1, \A i \in 1..(Len(s) - 1) : t[i] = s[i],
           t[Len(s)].inst = s[Len(s)].inst, t[Len(s)].tpl = s[Len(s)].tpl,
           t[Len(s)].stage = "conns", s[Len(s)].stage = "kids",
           t[Len(s)].childBase = s[Len(s)].childBase, s[Len(s)].next \in Nat,
           t[Len(s)].next = s[Len(s)].next,
           s[Len(s)].childBase \in Nat, n.id = s[Len(s)].childBase + s[Len(s)].next,
           t[Len(s) + 1].inst = n.id, n.tpl = {t[Len(s) + 1].tpl},
           t[Len(s) + 1].stage = "rows"
    PROVE  Growing(Longer(P, W, n), W \cup {n}, t, d)
<1> DEFINE L == Longer(P, W, n)
           V == W \cup {n}
           f == s[Len(s)]
           g == t[Len(s)]
<1>0. \A i \in 1..Len(s) : i = Len(s) \/ i \in 1..(Len(s) - 1)
  OBVIOUS
<1>1. Standing(P, W, s)
  BY DEF Growing
<1>2. \A j \in 1..Len(s) : s[j].inst \in Nat /\ Underway(W, s[j])
  BY <1>1 DEF Growing, Standing, Grove, Forest, TreeRow
<1>3. Len(s) \in 1..Len(s)
  OBVIOUS
<1>4. ASSUME NEW j \in 1..(Len(s) - 1) PROVE Underway(V, s[j])
  <2>1. j \in 1..Len(s) /\ j # Len(s)
    OBVIOUS
  <2>2. s[j].inst # n.parent
    BY <1>1, <1>3, <2>1, StackApart
  <2> QED
    BY <1>2, <2>1, <2>2, UnderwayStill
<1>5. Underway(V, g)
  <2>1. /\ Count(V, n.parent) = Count(W, n.parent) + 1
        /\ KidsOf(V, n.parent) = KidsOf(W, n.parent) \cup {n}
    BY KidAdded DEF Grove, Addable
  <2>2. Underway(W, f)
    BY <1>2, <1>3
  <2>3. \A r \in KidsOf(W, n.parent) : r.id \in Nat
    BY DEF KidsOf, Grove, Forest, TreeRow
  <2>4. /\ g.inst = n.parent /\ f.inst = n.parent /\ g.stage = "conns" /\ f.stage = "kids"
        /\ g.childBase = f.childBase /\ g.next = f.next /\ f.next \in Nat
        /\ f.childBase \in Nat /\ n.id = f.childBase + f.next
    OBVIOUS
  <2> HIDE DEF f, g, V
  <2>5. /\ f.inst <= f.childBase /\ Count(W, f.inst) = f.next - 1
        /\ \A r \in KidsOf(W, f.inst) : r.id < f.childBase + f.next
    BY <2>2, <2>4 DEF Underway
  <2>6. \A r \in KidsOf(V, g.inst) : r.id <= g.childBase + g.next
    <3>1. KidsOf(V, g.inst) = KidsOf(W, f.inst) \cup {n}
      BY <2>1, <2>4
    <3>2. n.id <= g.childBase + g.next
      BY <2>4
    <3>3. \A r \in KidsOf(W, f.inst) : r.id <= g.childBase + g.next
      BY <2>3, <2>4, <2>5
    <3> QED
      BY <3>1, <3>2, <3>3
  <2>7. Count(V, g.inst) = g.next /\ g.inst <= g.childBase
    BY <2>1, <2>4, <2>5
  <2> QED
    BY <2>4, <2>6, <2>7 DEF Underway
<1>6. Standing(L, V, t)
  <2>1. \A i \in 1..Len(s) : t[i].inst = s[i].inst /\ t[i].tpl = s[i].tpl
    BY <1>0
  <2> QED
    BY <1>1, <2>1, Pushed
<1>7. Underway(V, t[Len(s) + 1])
  <2>1. KidsOf(V, n.id) = {}
    BY NoKidsYet
  <2> HIDE DEF V
  <2> QED
    BY <2>1 DEF Underway
<1>8. \A j \in 1..Len(t) : Underway(V, t[j])
  <2>1. \A j \in 1..Len(t) : j \in 1..(Len(s) - 1) \/ j = Len(s) \/ j = Len(s) + 1
    OBVIOUS
  <2> HIDE DEF V
  <2> QED
    BY <1>4, <1>5, <1>7, <2>1
<1>9. ASSUME NEW r \in V PROVE (\E j \in 1..Len(t) : t[j].inst = r.id) \/ Done(L, V, r, d)
  <2>1. CASE r = n
    BY <2>1
  <2>2. CASE r \in W
    <3>1. CASE Done(P, W, r, d)
      BY <2>2, <3>1, DoneStill, BodyLengths
    <3>2. CASE \E j \in 1..Len(s) : s[j].inst = r.id
      <4>1. PICK j \in 1..Len(s) : s[j].inst = r.id
        BY <3>2
      <4>2. t[j].inst = r.id /\ j \in 1..Len(t)
        BY <1>0, <4>1
      <4> QED
        BY <4>2
    <3> QED
      BY <2>2, <3>1, <3>2 DEF Growing
  <2> QED
    BY <2>1, <2>2
<1> HIDE DEF L, V
<1>10. Growing(L, V, t, d)
  BY <1>6, <1>8, <1>9 DEF Growing
<1> QED
  BY <1>10 DEF L, V

\* A top: the stack holds it alone.
LEMMA TopAdded ==
    ASSUME NEW P, NEW W, NEW s, NEW t, NEW d \in Designs, NEW n,
           Grove(P, W), Growing(P, W, s, d), Addable(W, n),
           Len(s) = 0, n.parent = 0, Len(t) = 1,
           t[1].inst = n.id, n.tpl = {t[1].tpl}, t[1].stage = "rows"
    PROVE  Growing(Longer(P, W, n), W \cup {n}, t, d)
<1> DEFINE L == Longer(P, W, n)
           V == W \cup {n}
<1>1. Standing(P, W, s) /\ \A i \in 1..Len(s) : FALSE
  BY DEF Growing
<1>2. Standing(L, V, t)
  <2>1. /\ Len(s) \in Nat /\ Len(t) = Len(s) + 1 /\ Len(s) + 1 = 1
        /\ t[Len(s) + 1].inst = n.id /\ n.tpl = {t[Len(s) + 1].tpl}
        /\ \A i \in 1..Len(s) : t[i].inst = s[i].inst /\ t[i].tpl = s[i].tpl
    BY <1>1
  <2> QED
    BY <1>1, <2>1, Pushed
<1>3. \A j \in 1..Len(t) : Underway(V, t[j])
  <2>1. KidsOf(V, n.id) = {}
    BY NoKidsYet
  <2> HIDE DEF V
  <2> QED
    BY <2>1 DEF Underway
<1>4. ASSUME NEW r \in V PROVE (\E j \in 1..Len(t) : t[j].inst = r.id) \/ Done(L, V, r, d)
  <2>1. CASE r = n
    BY <2>1
  <2>2. CASE r \in W
    <3>1. Done(P, W, r, d)
      BY <1>1, <2>2 DEF Growing
    <3> QED
      BY <2>2, <3>1, DoneStill, BodyLengths
  <2> QED
    BY <2>1, <2>2
<1> HIDE DEF L, V
<1>5. Growing(L, V, t, d)
  BY <1>2, <1>3, <1>4 DEF Growing
<1> QED
  BY <1>5 DEF L, V

-----------------------------------------------------------------------------
(* What Hierarchy asks of the occurrences.                                 *)

ReentersIn(o, p) == o[p] \cap UNION {o[SubSeq(p, 1, i)] : i \in 1..(Len(p) - 1)} # {}

\* The innermost occurrence, when its template is on the path once.
LEMMA NotReentered ==
    ASSUME NEW P, NEW W, NEW s, NEW o, Standing(P, W, s), Tells(o, P, W),
           Len(s) \in Nat \ {0},
           \A i \in 1..(Len(s) - 1) : s[i].tpl # s[Len(s)].tpl
    PROVE  /\ P[s[Len(s)].inst] \in DOMAIN o
           /\ o[P[s[Len(s)].inst]] = {s[Len(s)].tpl}
           /\ ~ReentersIn(o, P[s[Len(s)].inst])
<1> DEFINE p == P[s[Len(s)].inst]
<1>1. \A j \in 1..Len(s) : P[s[j].inst] \in DOMAIN o /\ o[P[s[j].inst]] = {s[j].tpl}
  <2>1. ASSUME NEW j \in 1..Len(s)
        PROVE  P[s[j].inst] \in DOMAIN o /\ o[P[s[j].inst]] = {s[j].tpl}
    <3>1. PICK r \in W : r.id = s[j].inst /\ r.tpl = {s[j].tpl}
      BY DEF Standing
    <3>2. DOMAIN o = {P[q.id] : q \in W} /\ o[P[r.id]] = r.tpl
      BY DEF Tells
    <3> QED
      BY <3>1, <3>2
  <2> QED
    BY <2>1
<1>2. Len(s) \in 1..Len(s)
  OBVIOUS
<1>3. Len(p) = Len(s) /\ \A i \in 1..Len(s) : SubSeq(p, 1, i) = P[s[i].inst]
  BY <1>2 DEF Standing
<1>4. p \in DOMAIN o /\ o[p] = {s[Len(s)].tpl}
  BY <1>1, <1>2
<1>5. \A i \in 1..(Len(p) - 1) : i \in 1..Len(s) /\ s[i].tpl # s[Len(s)].tpl
  BY <1>3
<1> HIDE DEF p
<1>6. \A i \in 1..(Len(p) - 1) : s[Len(s)].tpl \notin o[SubSeq(p, 1, i)]
  <2>1. ASSUME NEW i \in 1..(Len(p) - 1) PROVE s[Len(s)].tpl \notin o[SubSeq(p, 1, i)]
    <3>1. i \in 1..Len(s) /\ s[i].tpl # s[Len(s)].tpl
      BY <1>5
    <3>2. SubSeq(p, 1, i) = P[s[i].inst] /\ o[P[s[i].inst]] = {s[i].tpl}
      BY <1>1, <1>3, <3>1
    <3> QED
      BY <3>1, <3>2
  <2> QED
    BY <2>1
<1>7. ~ReentersIn(o, p)
  BY <1>4, <1>6 DEF ReentersIn
<1> QED
  BY <1>4, <1>7 DEF p

\* When nothing is under way, every occurrence that may come has come.
LEMMA AllHaveCome ==
    ASSUME NEW P, NEW W, NEW s, NEW o, NEW d \in Designs,
           Grove(P, W), Growing(P, W, s, d), Tells(o, P, W), Len(s) = 0,
           Count(W, 0) = Len(d.tops)
    PROVE  /\ \A i \in 1..Len(d.tops) : <<i>> \in DOMAIN o
           /\ \A p \in DOMAIN o : ~ReentersIn(o, p) =>
                \A t \in o[p] : \A i \in 1..Len(d.body[t].children) :
                  Append(p, i) \in DOMAIN o
<1>1. DOMAIN o = {P[r.id] : r \in W} /\ \A r \in W : o[P[r.id]] = r.tpl
  BY DEF Tells
<1>2. ASSUME NEW i \in 1..Len(d.tops) PROVE <<i>> \in DOMAIN o
  <2>1. Placed(W, 0)
    BY DEF Grove
  <2>2. PICK r \in KidsOf(W, 0) : Place(W, 0, r.id) = i
    BY <2>1 DEF Placed
  <2>3. r \in W /\ r.parent = 0
    BY DEF KidsOf
  <2>4. P[r.id] = <<i>>
    BY <2>2, <2>3 DEF Grove, Pathed, PathTo
  <2> QED
    BY <1>1, <2>3, <2>4
<1>3. ASSUME NEW p \in DOMAIN o, ~ReentersIn(o, p), NEW t \in o[p],
             NEW i \in 1..Len(d.body[t].children)
      PROVE  Append(p, i) \in DOMAIN o
  <2>1. PICK r \in W : p = P[r.id] /\ r.tpl = o[p]
    BY <1>1
  <2>2. ~Cut(P, W, r)
    <3>1. SUFFICES ASSUME Cut(P, W, r) PROVE FALSE
      OBVIOUS
    <3>2. PICK q \in W, k \in 1..(Len(p) - 1) :
               P[q.id] = SubSeq(p, 1, k) /\ q.tpl \cap r.tpl # {}
      BY <2>1, <3>1 DEF Cut
    <3>3. o[SubSeq(p, 1, k)] = q.tpl
      BY <1>1, <3>2
    <3> QED
      BY <1>3, <2>1, <3>2, <3>3 DEF ReentersIn
  <2>3. Done(P, W, r, d)
    <3>1. \A j \in 1..Len(s) : FALSE
      OBVIOUS
    <3> QED
      BY <3>1 DEF Growing
  <2>4. Len(d.body[t].children) <= Count(W, r.id)
    BY <2>1, <2>2, <2>3 DEF Done
  <2>5. /\ r.id \in Nat \ {0} /\ Placed(W, r.id) /\ Count(W, r.id) \in Nat
        /\ Len(d.body[t].children) \in Nat
    BY <2>1, KidsFinite, BodyLengths DEF Grove, Forest, TreeRow
  <2>6. i \in 1..Count(W, r.id)
    BY <2>4, <2>5
  <2>7. PICK c \in KidsOf(W, r.id) : Place(W, r.id, c.id) = i
    BY <2>5, <2>6 DEF Placed
  <2>8. c \in W /\ c.parent = r.id
    BY DEF KidsOf
  <2>9. P[c.id] = Append(p, i)
    BY <2>1, <2>5, <2>7, <2>8 DEF Grove, Pathed, PathTo
  <2> QED
    BY <1>1, <2>8, <2>9
<1> QED
  BY <1>2, <1>3

Own == OwnOf(inst, Occurrences)
NoPackageYet == \A r \in tree : r.kind # "package"

Unfolding(P) ==
    /\ Grove(P, Own)
    /\ phase = "tree" =>
         /\ NoPackageYet
         /\ Growing(P, Own, stack, design)
         /\ Count(Own, 0) = cursor
Unfolded == \E P : Unfolding(P)

LEMMA OwnIsInst == NoPackageYet => Own = inst /\ Occurrences = Ids(inst)
  BY DEF NoPackageYet, Own, OwnOf, Occurrences, Ids

LEMMA ReachedNow == \A P : InstsOnce /\ Grove(P, Own) => Tells(Reached, P, Own)
<1> SUFFICES ASSUME NEW P, InstsOnce, Grove(P, Own) PROVE Tells(Reached, P, Own)
  OBVIOUS
<1>1. Reached = ReachedOf(inst, Occurrences)
  BY Zenon DEF Reached, Paths, ReachedOf, PathsOf
<1>2. Distinct(inst) /\ Occurrences \subseteq Ids(inst)
  BY DEF InstsOnce, Occurrences
<1> QED
  BY <1>1, <1>2, ReachedTells DEF Own

LEMMA ReachedNext == \A P : InstsOnce' /\ Grove(P, Own)' => Tells(Reached, P, Own)'
<1>1. (\A P : InstsOnce /\ Grove(P, Own) => Tells(Reached, P, Own))'
  BY ReachedNow, PTL
<1> QED
  BY <1>1

LEMMA UnfoldedInit == Init => Unfolded /\ H!HInit
<1> SUFFICES ASSUME Init PROVE Unfolded /\ H!HInit
  OBVIOUS
<1> DEFINE P == [i \in {} |-> <<>>]
<1>1. inst = {} /\ tree = {} /\ cursor = 0 /\ stack = <<>> /\ phase = "tree"
      /\ design \in Designs
  BY DEF Init
<1>2. NoPackageYet /\ Own = {} /\ Occurrences = {} /\ InstsOnce
  BY <1>1 DEF NoPackageYet, Own, OwnOf, Occurrences, Ids, InstsOnce, Distinct
<1>3. Ids({}) = {} /\ \A p : KidsOf({}, p) = {}
  BY DEF Ids, KidsOf
<1>4. \A p : Count({}, p) = 0
  BY <1>3, FS_EmptySet DEF Count
<1>5. Grove(P, {})
  <2>1. Forest({})
    BY <1>3, FS_EmptySet DEF Forest, Distinct
  <2>2. Pathed(P, {})
    BY <1>3 DEF Pathed
  <2>3. \A p \in Nat : Placed({}, p)
    BY <1>3, <1>4 DEF Placed
  <2> QED
    BY <2>1, <2>2, <2>3 DEF Grove
<1>6. Growing(P, {}, stack, design)
  BY <1>1 DEF Growing, Standing
<1>7. Unfolding(P)
  BY <1>1, <1>2, <1>4, <1>5, <1>6 DEF Unfolding
<1>8. Tells(Reached, P, {})
  BY <1>2, <1>5, ReachedNow
<1>9. Reached = <<>>
  BY <1>8 DEF Tells
<1> QED
  BY <1>1, <1>7, <1>9 DEF Unfolded, H!HInit

-----------------------------------------------------------------------------
(* What may still come, as Hierarchy has it.                               *)

LEMMA MayCome ==
    /\ \A i \in 1..Len(design.tops) : <<<<i>>, {design.tops[i].tpl}>> \in H!Missing
    /\ \A p \in DOMAIN Reached : ~ReentersIn(Reached, p) =>
         \A t \in Reached[p] : \A i \in 1..Len(BodyOf(t).children) :
           <<Append(p, i), H!TplOf(BodyOf(t).children[i])>> \in H!Missing
    /\ \A m \in H!Missing :
         \/ \E i \in 1..Len(design.tops) : m[1] = <<i>>
         \/ \E p \in DOMAIN Reached : /\ ~ReentersIn(Reached, p)
              /\ \E t \in Reached[p] : \E i \in 1..Len(BodyOf(t).children) :
                   m[1] = Append(p, i)
<1> DEFINE o == Reached
           tops == {<<<<i>>, {design.tops[i].tpl}>> : i \in 1..Len(design.tops)}
           Below1(p) == {<<Append(p, x[1]), H!TplOf(x[2])>> : x \in H!Offers(o[p])}
           open == {q \in DOMAIN o : ~ReentersIn(o, q)}
<1>1. \A p : H!Reenters(p) <=> ReentersIn(o, p)
  BY DEF H!Reenters, H!Above, ReentersIn
<1>2. H!Missing = tops \cup UNION {Below1(p) : p \in {q \in DOMAIN o : ~H!Reenters(q)}}
  BY DEF H!Missing
<1>3. {q \in DOMAIN o : ~H!Reenters(q)} = open
  BY <1>1
<1>4. \A t : H!Kids(t) = BodyOf(t).children
  BY DEF H!Kids, BodyOf
<1>5. \A ts : H!Offers(ts) = UNION {{<<i, BodyOf(t).children[i]>> : i \in 1..Len(BodyOf(t).children)} : t \in ts}
  BY <1>4 DEF H!Offers
<1> HIDE DEF o
<1>6. \A i \in 1..Len(design.tops) : <<<<i>>, {design.tops[i].tpl}>> \in H!Missing
  BY <1>2
<1>7. ASSUME NEW p \in DOMAIN o, ~ReentersIn(o, p), NEW t \in o[p],
             NEW i \in 1..Len(BodyOf(t).children)
      PROVE  <<Append(p, i), H!TplOf(BodyOf(t).children[i])>> \in H!Missing
  <2>1. <<i, BodyOf(t).children[i]>> \in H!Offers(o[p])
    BY <1>5
  <2>2. <<Append(p, i), H!TplOf(BodyOf(t).children[i])>> \in Below1(p)
    BY <2>1
  <2>3. p \in {q \in DOMAIN o : ~H!Reenters(q)}
    BY <1>1, <1>7
  <2> HIDE DEF Below1
  <2> QED
    BY <1>2, <2>2, <2>3
<1>8. ASSUME NEW m \in H!Missing
      PROVE  \/ \E i \in 1..Len(design.tops) : m[1] = <<i>>
             \/ \E p \in DOMAIN o : /\ ~ReentersIn(o, p)
                  /\ \E t \in o[p] : \E i \in 1..Len(BodyOf(t).children) :
                       m[1] = Append(p, i)
  <2>1. CASE m \in tops
    BY <2>1
  <2>2. CASE m \notin tops
    <3> HIDE DEF tops, Below1
    <3>1. PICK p \in open : m \in Below1(p)
      BY <1>2, <1>3, <2>2
    <3>2. PICK x \in H!Offers(o[p]) : m = <<Append(p, x[1]), H!TplOf(x[2])>>
      BY <3>1 DEF Below1
    <3>3. \E t \in o[p] : \E i \in 1..Len(BodyOf(t).children) : x = <<i, BodyOf(t).children[i]>>
      BY <1>5, <3>2, Zenon
    <3>4. PICK t \in o[p] : \E i \in 1..Len(BodyOf(t).children) : x = <<i, BodyOf(t).children[i]>>
      BY <3>3
    <3>5. PICK i \in 1..Len(BodyOf(t).children) : x = <<i, BodyOf(t).children[i]>>
      BY <3>4
    <3>6. m[1] = Append(p, i)
      BY <3>2, <3>5
    <3> QED
      BY <3>1, <3>6
  <2> QED
    BY <2>1, <2>2
<1> QED
  BY <1>6, <1>7, <1>8 DEF o

\* An occurrence comes.
LEMMA RowComes ==
    ASSUME NEW P, NEW n, Unfolding(P), InstsOnce, InstsOnce',
           phase = "tree", phase' = "tree", design' = design,
           inst' = inst \cup {n}, NoPackageYet', Addable(inst, n),
           Growing(Longer(P, inst, n), inst \cup {n}, stack', design),
           Count(inst \cup {n}, 0) = cursor',
           <<NewPath(P, inst, n), n.tpl>> \in H!Missing
    PROVE  Unfolded' /\ H!Unfold
<1> DEFINE m == NewPath(P, inst, n)
<1>0. PICK L : L = Longer(P, inst, n)
  OBVIOUS
<1>1. Own = inst /\ Grove(P, inst)
  BY OwnIsInst DEF Unfolding
<1>2. Own' = inst \cup {n}
  BY DEF NoPackageYet, Own, OwnOf, Occurrences, Ids
<1>3. Grove(L, inst \cup {n})
  BY <1>0, <1>1, GroveGrows
<1>4. Tells(Reached, P, inst)
  BY <1>1, ReachedNow
<1>5. Tells(Reached', L, inst \cup {n})
  <2>1. Grove(L, Own)'
    BY <1>2, <1>3
  <2>2. Tells(Reached, L, Own)'
    BY <2>1, ReachedNext
  <2> QED
    BY <1>2, <2>2
<1>6. /\ m \notin DOMAIN Reached
      /\ Reached' = [p \in DOMAIN Reached \cup {m} |-> IF p = m THEN n.tpl ELSE Reached[p]]
  <2>1. PICK q : q = Reached'
    OBVIOUS
  <2>2. PICK o : o = Reached
    OBVIOUS
  <2>3. PICK W : W = inst
    OBVIOUS
  <2>4. Grove(P, W) /\ Addable(W, n) /\ Tells(o, P, W)
    BY <1>1, <1>4, <2>2, <2>3
  <2>5. Tells(q, Longer(P, W, n), W \cup {n})
    BY <1>0, <1>5, <2>1, <2>3
  <2>6. /\ NewPath(P, W, n) \notin DOMAIN o
        /\ DOMAIN q = DOMAIN o \cup {NewPath(P, W, n)}
        /\ q[NewPath(P, W, n)] = n.tpl
        /\ \A p \in DOMAIN o : q[p] = o[p]
    BY <2>4, <2>5, TellsMore
  <2>9. q = [p \in DOMAIN q |-> q[p]]
    BY <2>5 DEF Tells
  <2>7. m = NewPath(P, W, n)
    BY <2>3
  <2> HIDE DEF m
  <2>8. m \notin DOMAIN o /\ q = [p \in DOMAIN o \cup {m} |-> IF p = m THEN n.tpl ELSE o[p]]
    BY <2>6, <2>7, <2>9
  <2> QED
    BY <2>1, <2>2, <2>8
<1>7. Unfolded'
  <2>1. Growing(L, Own', stack', design') /\ Count(Own', 0) = cursor' /\ Grove(L, Own')
    BY <1>0, <1>2, <1>3
  <2>2. Unfolding(L)'
    BY <2>1 DEF Unfolding
  <2> QED
    BY <2>2 DEF Unfolded
<1> HIDE DEF m
<1>8. H!Unfold
  <2>1. <<m, n.tpl>> \in H!Missing /\ <<m, n.tpl>>[1] = m /\ <<m, n.tpl>>[2] = n.tpl
    BY DEF m
  <2> QED
    BY <1>6, <2>1 DEF H!Unfold
<1> QED
  BY <1>7, <1>8

LEMMA ReachedStays ==
    ASSUME NEW P, Grove(P, Own), InstsOnce, InstsOnce', Own' = Own
    PROVE  Reached' = Reached
<1>1. Grove(P, Own)'
  OBVIOUS
<1>2. Tells(Reached, P, Own)'
  BY <1>1, ReachedNext
<1>3. Tells(Reached', P, Own)
  BY <1>2
<1>4. Tells(Reached, P, Own)
  BY ReachedNow
<1> QED
  BY <1>3, <1>4, TellsOnce

\* No occurrence comes, and the tree is not finished.
LEMMA TreeStays ==
    ASSUME NEW P, Unfolding(P), InstsOnce, InstsOnce',
           phase = "tree", phase' = "tree", design' = design, cursor' = cursor,
           inst' = inst, NoPackageYet', Growing(P, inst, stack', design)
    PROVE  Unfolded' /\ UNCHANGED H!hvars
<1>1. Own = inst /\ Own' = Own
  <2>1. Own' = inst'
    BY DEF NoPackageYet, Own, OwnOf, Occurrences, Ids
  <2> QED
    BY <2>1, OwnIsInst DEF Unfolding
<1>2. Unfolding(P)'
  BY <1>1 DEF Unfolding
<1>3. Reached' = Reached
  BY <1>1, ReachedStays DEF Unfolding
<1> QED
  BY <1>2, <1>3 DEF Unfolded, H!hvars

-----------------------------------------------------------------------------
(* The steps.                                                              *)

LEMMA TreeTyped ==
    ASSUME NEW P, Unfolding(P), phase = "tree", TypeOK
    PROVE  /\ Own = inst /\ Grove(P, inst) /\ Growing(P, inst, stack, design)
           /\ NoPackageYet /\ Count(inst, 0) = cursor /\ design \in Designs
           /\ \A r \in inst : r.id \in Ids(inst) /\ r.id \in Nat \ {0} /\ r.parent \in Nat
<1>1. Own = inst /\ NoPackageYet
  BY OwnIsInst DEF Unfolding
<1>2. Grove(P, inst)
  BY <1>1 DEF Unfolding
<1> QED
  BY <1>1, <1>2 DEF Unfolding, Grove, Forest, TreeRow, Ids, TypeOK

LEMMA NodesBound ==
    ASSUME TypeOK, NodesIssued, InstsOnce
    PROVE  last["node"] \in Nat /\ \A i \in Ids(inst) : i \in 1..last["node"] /\ i \in Ids(tree)
  BY DEF TypeOK, Counter, NodesIssued, InstsOnce

LEMMA UnfoldTop ==
    ASSUME NEW P, Unfolding(P), TypeOK, NodesIssued, InstsOnce, InstsOnce', StampTop
    PROVE  Unfolded' /\ H!Unfold
<1> DEFINE top == design.tops[cursor + 1]
           id == last["node"] + 1
           n == InstRow(id, top.tpl, 0)
           t == stack'
<1>1. /\ phase = "tree" /\ phase' = "tree" /\ design' = design /\ cursor' = cursor + 1
      /\ inst' = inst \cup {n} /\ cursor + 1 \in 1..Len(design.tops)
  BY DEF StampTop, TypeOK
<1>2. NoPackageYet'
  <2>1. tree' = tree \cup {NodeRow(id, 0, top.name, "root", cursor)}
    BY DEF StampTop
  <2>2. NodeRow(id, 0, top.name, "root", cursor).kind = "root"
    BY DEF NodeRow
  <2>3. NoPackageYet
    BY <1>1, TreeTyped
  <2> QED
    BY <2>1, <2>2, <2>3 DEF NoPackageYet
<1>3. top.tpl \in Tpl
  BY TopInstType
<1>4. n \in TreeRow /\ n.id = id /\ n.parent = 0 /\ n.tpl = {top.tpl}
  BY <1>3, NodesBound DEF InstRow, TreeRow
<1>5. stack = <<>> /\ Len(t) = 1 /\ t[1].inst = id /\ t[1].tpl = top.tpl /\ t[1].stage = "rows"
  <2>1. stack = <<>> /\ Len(t) = 1 /\ t[1] = NewFrame(top.tpl, id, {})
    BY StackOfTop
  <2>2. PICK none : none = {}
    OBVIOUS
  <2>3. t[1] = NewFrame(top.tpl, id, none)
    BY <2>1, <2>2
  <2> HIDE DEF t, top, id
  <2> QED
    BY <2>1, <2>3, NewFrameFields
<1> HIDE DEF n, t, top, id
<1>6. Addable(inst, n)
  <2>1. id = last["node"] + 1
    BY DEF id
  <2>2. \A i \in Ids(inst) : i < id
    BY <2>1, NodesBound
  <2>3. id \notin Ids(inst)
    BY <2>1, NodesBound
  <2>4. \A r \in KidsOf(inst, n.parent) : r.id < n.id
    BY <1>4, <2>2 DEF KidsOf, Ids
  <2> QED
    BY <1>4, <2>3, <2>4 DEF Addable
<1>7. /\ Grove(P, inst) /\ Growing(P, inst, stack, design) /\ Count(inst, 0) = cursor
      /\ design \in Designs
  BY <1>1, TreeTyped
<1>8. Growing(Longer(P, inst, n), inst \cup {n}, t, design)
  <2>1. Len(stack) = 0
    BY <1>5
  <2> QED
    BY <1>4, <1>5, <1>6, <1>7, <2>1, TopAdded
<1>9. Count(inst \cup {n}, 0) = cursor'
  BY <1>1, <1>4, <1>6, <1>7, KidAdded DEF Addable, Grove
<1>10. <<NewPath(P, inst, n), n.tpl>> \in H!Missing
  <2>1. NewPath(P, inst, n) = <<cursor + 1>>
    BY <1>4, <1>7 DEF NewPath
  <2> QED
    BY <1>1, <1>4, <2>1, MayCome DEF top
<1> QED
  BY <1>1, <1>2, <1>6, <1>8, <1>9, <1>10, RowComes DEF t

\* The innermost occurrence may have the child that is due.
LEMMA ChildMayCome ==
    ASSUME NEW P, Unfolding(P), TypeOK, PathInv, NodesIssued, InstsOnce,
           phase = "tree", ChildDue, NEW n,
           n.id = ChildId, n.parent = Top.inst, n.tpl \in SUBSET Tpl, n \in TreeRow,
           n.tpl = H!TplOf(NextChild)
    PROVE  /\ Addable(inst, n) /\ n.parent # 0
           /\ Count(inst \cup {n}, 0) = cursor
           /\ <<NewPath(P, inst, n), n.tpl>> \in H!Missing
<1>1. /\ Grove(P, inst) /\ Growing(P, inst, stack, design) /\ Count(inst, 0) = cursor
      /\ \A r \in inst : r.id \in Ids(inst) /\ r.id \in Nat \ {0} /\ r.parent \in Nat
  BY TreeTyped
<1>2. /\ stack # <<>> /\ Top.stage = "kids"
      /\ Top.next <= Len(BodyOf(Top.tpl).children)
  BY DEF ChildDue, At
<1>3. Len(stack) \in Nat \ {0} /\ Top = stack[Len(stack)] /\ Top \in Frame
  BY <1>2, TopBody
<1>4. Len(stack) \in 1..Len(stack)
  BY <1>3
<1>5. Standing(P, inst, stack) /\ Underway(inst, Top)
  BY <1>1, <1>3, <1>4 DEF Growing
<1>6. Top.inst \in Ids(inst) /\ Top.inst \in Nat \ {0}
  BY <1>1, <1>3, <1>4, <1>5 DEF Standing, Ids
<1>7. /\ Top.childBase \in Nat /\ Top.next \in Nat \ {0} /\ ChildId = Top.childBase + Top.next
      /\ Top.next \in 1..Len(BodyOf(Top.tpl).children)
  BY <1>2, <1>3, NextChildType DEF Frame, ChildId
<1>8. /\ Top.inst <= Top.childBase /\ Count(inst, Top.inst) = Top.next - 1
      /\ \A r \in KidsOf(inst, Top.inst) : r.id < ChildId
  BY <1>2, <1>5, <1>7 DEF Underway
<1>9. n.id \notin Ids(inst)
  <2>1. ChildId \notin Ids(tree)
    BY ChildPromised
  <2> QED
    BY <2>1 DEF InstsOnce
<1>10. Addable(inst, n) /\ n.parent # 0
  <2>1. n.parent < n.id
    BY <1>6, <1>7, <1>8
  <2> QED
    BY <1>6, <1>8, <1>9, <2>1 DEF Addable
<1>11. Count(inst \cup {n}, 0) = cursor
  <2>1. \A p \in Nat : p # n.parent => Count(inst \cup {n}, p) = Count(inst, p)
    BY <1>1, <1>10, KidAdded DEF Addable, Grove
  <2> QED
    BY <1>1, <1>10, <2>1
<1>12. \A i \in 1..(Len(stack) - 1) : stack[i].tpl # stack[Len(stack)].tpl
  BY <1>2, <1>3, <1>4 DEF PathInv, Suspended, HeldOnce, InChildren
<1>13. Tells(Reached, P, inst)
  BY ReachedNow, TreeTyped
<1>14. /\ P[Top.inst] \in DOMAIN Reached /\ Reached[P[Top.inst]] = {Top.tpl}
       /\ ~ReentersIn(Reached, P[Top.inst])
  <2> DEFINE f == stack[Len(stack)]
  <2>1. /\ P[f.inst] \in DOMAIN Reached /\ Reached[P[f.inst]] = {f.tpl}
        /\ ~ReentersIn(Reached, P[f.inst])
    <3>1. PICK s : s = stack
      OBVIOUS
    <3>2. PICK o : o = Reached
      OBVIOUS
    <3>3. /\ Standing(P, inst, s) /\ Tells(o, P, inst) /\ Len(s) \in Nat \ {0}
          /\ \A i \in 1..(Len(s) - 1) : s[i].tpl # s[Len(s)].tpl
      BY <1>3, <1>5, <1>12, <1>13, <3>1, <3>2
    <3>4. /\ P[s[Len(s)].inst] \in DOMAIN o /\ o[P[s[Len(s)].inst]] = {s[Len(s)].tpl}
          /\ ~ReentersIn(o, P[s[Len(s)].inst])
      BY <3>3, NotReentered
    <3> QED
      BY <3>1, <3>2, <3>4
  <2> HIDE DEF f
  <2>2. Top = f
    BY <1>3 DEF f
  <2> QED
    BY <2>1, <2>2
<1>15. <<Append(P[Top.inst], Top.next), H!TplOf(NextChild)>> \in H!Missing
  BY <1>7, <1>14, MayCome DEF NextChild
<1>16. NewPath(P, inst, n) = Append(P[Top.inst], Top.next)
  <2>1. Count(inst, n.parent) + 1 = Top.next
    BY <1>7, <1>8
  <2> QED
    BY <1>10, <2>1 DEF NewPath
<1> QED
  BY <1>10, <1>11, <1>15, <1>16

LEMMA UnfoldChild ==
    ASSUME NEW P, Unfolding(P), TypeOK, PathInv, NodesIssued, InstsOnce, InstsOnce',
           StampChildModule
    PROVE  Unfolded' /\ H!Unfold
<1> DEFINE n == InstRow(ChildId, NextChild.tpl, Top.inst)
           t == stack'
<1>1. /\ phase = "tree" /\ phase' = "tree" /\ design' = design /\ cursor' = cursor
      /\ inst' = inst \cup {n} /\ ChildDue /\ NextChild.kind = "module"
      /\ stack # <<>> /\ Top.stage = "kids" /\ Top.next <= Len(BodyOf(Top.tpl).children)
  BY DEF StampChildModule, ChildDue, At
<1>2. NoPackageYet'
  <2>1. tree' = tree \cup {ChildNode("instance")}
    BY DEF StampChildModule
  <2>2. ChildNode("instance").kind = "instance"
    BY DEF ChildNode, NodeRow
  <2>3. NoPackageYet
    BY <1>1, TreeTyped
  <2> QED
    BY <2>1, <2>2, <2>3 DEF NoPackageYet
<1>3. /\ NextChild \in Child /\ NextChild.tpl \in Tpl /\ ChildId \in Nat
      /\ Top \in Frame /\ Len(stack) \in Nat \ {0} /\ Top = stack[Len(stack)]
  BY <1>1, NextChildType, TopBody DEF Child
<1>4. /\ Top.inst \in Nat /\ Top.childBase \in Nat /\ Top.next \in Nat \ {0}
      /\ ChildId = Top.childBase + Top.next /\ ChildId # 0
  BY <1>3 DEF Frame, ChildId
<1>5. /\ n \in TreeRow /\ n.id = ChildId /\ n.parent = Top.inst /\ n.tpl = {NextChild.tpl}
      /\ n.tpl \in SUBSET Tpl
  BY <1>3, <1>4 DEF InstRow, TreeRow
<1>6. n.tpl = H!TplOf(NextChild)
  BY <1>1, <1>5 DEF H!TplOf
<1>7. /\ Len(t) = Len(stack) + 1 /\ \A i \in 1..(Len(stack) - 1) : t[i] = stack[i]
      /\ t[Len(stack)] = Waiting /\ t[Len(stack) + 1] = ChildFrame
  BY <1>1, StackMoves DEF BelowKept
<1>8. /\ Waiting.stage = "conns" /\ Waiting.tpl = Top.tpl /\ Waiting.inst = Top.inst
      /\ Waiting.next = Top.next /\ Waiting.childBase = Top.childBase
      /\ ChildFrame.inst = ChildId /\ ChildFrame.tpl = NextChild.tpl
      /\ ChildFrame.stage = "rows"
  BY <1>1, FrameFields, NewFrameFields DEF ChildFrame
<1> HIDE DEF n, t
<1>9. /\ Addable(inst, n) /\ n.parent # 0 /\ Count(inst \cup {n}, 0) = cursor
      /\ <<NewPath(P, inst, n), n.tpl>> \in H!Missing
  BY <1>1, <1>5, <1>6, ChildMayCome
<1>10. Grove(P, inst) /\ Growing(P, inst, stack, design) /\ design \in Designs
  BY <1>1, TreeTyped
<1>11. Growing(Longer(P, inst, n), inst \cup {n}, t, design)
  <2>1. /\ n.parent = stack[Len(stack)].inst
        /\ t[Len(stack)].inst = stack[Len(stack)].inst
        /\ t[Len(stack)].tpl = stack[Len(stack)].tpl
        /\ t[Len(stack)].stage = "conns" /\ stack[Len(stack)].stage = "kids"
        /\ t[Len(stack)].childBase = stack[Len(stack)].childBase
        /\ t[Len(stack)].next = stack[Len(stack)].next
        /\ stack[Len(stack)].next \in Nat /\ stack[Len(stack)].childBase \in Nat
        /\ n.id = stack[Len(stack)].childBase + stack[Len(stack)].next
    BY <1>1, <1>3, <1>4, <1>5, <1>7, <1>8
  <2>2. /\ t[Len(stack) + 1].inst = n.id /\ n.tpl = {t[Len(stack) + 1].tpl}
        /\ t[Len(stack) + 1].stage = "rows"
    BY <1>5, <1>7, <1>8
  <2> QED
    BY <1>3, <1>7, <1>9, <1>10, <2>1, <2>2, ChildAdded
<1> QED
  BY <1>1, <1>2, <1>9, <1>11, RowComes DEF t

LEMMA UnfoldBox ==
    ASSUME NEW P, Unfolding(P), TypeOK, PathInv, NodesIssued, InstsOnce, InstsOnce',
           StampUnresolved
    PROVE  Unfolded' /\ H!Unfold
<1> DEFINE n == BlackBoxRow(ChildId, Top.inst)
           t == stack'
<1>1. /\ phase = "tree" /\ phase' = "tree" /\ design' = design /\ cursor' = cursor
      /\ inst' = inst \cup {n} /\ ChildDue /\ NextChild.kind = "unresolved"
      /\ stack # <<>> /\ Top.stage = "kids" /\ Top.next <= Len(BodyOf(Top.tpl).children)
  BY DEF StampUnresolved, ChildDue, At
<1>2. NoPackageYet'
  <2>1. tree' = tree \cup {ChildNode("unresolved")}
    BY DEF StampUnresolved
  <2>2. ChildNode("unresolved").kind = "unresolved"
    BY DEF ChildNode, NodeRow
  <2>3. NoPackageYet
    BY <1>1, TreeTyped
  <2> QED
    BY <2>1, <2>2, <2>3 DEF NoPackageYet
<1>3. /\ ChildId \in Nat
      /\ Top \in Frame /\ Len(stack) \in Nat \ {0} /\ Top = stack[Len(stack)]
  BY <1>1, NextChildType, TopBody
<1>4. /\ Top.inst \in Nat /\ Top.childBase \in Nat /\ Top.next \in Nat \ {0}
      /\ ChildId = Top.childBase + Top.next /\ ChildId # 0
  BY <1>3 DEF Frame, ChildId
<1>5. /\ n \in TreeRow /\ n.id = ChildId /\ n.parent = Top.inst /\ n.tpl = {}
      /\ n.tpl \in SUBSET Tpl
  BY <1>3, <1>4 DEF BlackBoxRow, TreeRow
<1>6. n.tpl = H!TplOf(NextChild)
  BY <1>1, <1>5 DEF H!TplOf
<1>7. /\ Len(t) = Len(stack) /\ \A i \in 1..(Len(stack) - 1) : t[i] = stack[i]
      /\ t[Len(stack)] = Following
  BY <1>1, StackMoves DEF BelowKept, Topped
<1>8. /\ Following.stage = "kids" /\ Following.tpl = Top.tpl /\ Following.inst = Top.inst
      /\ Following.next = Top.next + 1 /\ Following.childBase = Top.childBase
  BY <1>1, FrameFields
<1> HIDE DEF n, t
<1>9. /\ Addable(inst, n) /\ n.parent # 0 /\ Count(inst \cup {n}, 0) = cursor
      /\ <<NewPath(P, inst, n), n.tpl>> \in H!Missing
  BY <1>1, <1>5, <1>6, ChildMayCome
<1>10. Grove(P, inst) /\ Growing(P, inst, stack, design) /\ design \in Designs
  BY <1>1, TreeTyped
<1>11. Growing(Longer(P, inst, n), inst \cup {n}, t, design)
  <2>1. /\ n.parent = stack[Len(stack)].inst
        /\ t[Len(stack)].inst = stack[Len(stack)].inst
        /\ t[Len(stack)].tpl = stack[Len(stack)].tpl
        /\ t[Len(stack)].stage = "kids" /\ stack[Len(stack)].stage = "kids"
        /\ t[Len(stack)].childBase = stack[Len(stack)].childBase
        /\ t[Len(stack)].next = stack[Len(stack)].next + 1
        /\ stack[Len(stack)].next \in Nat /\ stack[Len(stack)].childBase \in Nat
        /\ n.id = stack[Len(stack)].childBase + stack[Len(stack)].next
    BY <1>1, <1>3, <1>4, <1>5, <1>7, <1>8
  <2> QED
    BY <1>3, <1>5, <1>7, <1>9, <1>10, <2>1, BoxAdded
<1> QED
  BY <1>1, <1>2, <1>9, <1>11, RowComes DEF t

\* The innermost occurrence goes on without a new one.
LEMMA UnfoldInside ==
    ASSUME NEW P, Unfolding(P), TypeOK, PathInv, Fresh, NodesIssued, InstsOnce, InstsOnce',
           StampRows \/ EnterChildren \/ StampConns
    PROVE  Unfolded' /\ UNCHANGED H!hvars
<1> DEFINE k == Len(stack)
           t == stack'
<1>1. /\ phase = "tree" /\ phase' = "tree" /\ design' = design /\ cursor' = cursor
      /\ inst' = inst /\ stack # <<>>
  BY DEF StampRows, EnterChildren, StampConns, At, dbVars
<1>2. /\ Grove(P, inst) /\ Growing(P, inst, stack, design) /\ NoPackageYet
      /\ \A r \in inst : r.id \in Ids(inst) /\ r.id \in Nat \ {0}
  BY <1>1, TreeTyped
<1>3. NoPackageYet'
  <2>1. CASE StampRows
    <3>1. tree' = tree \cup BodyNodes(Stamped, BodyOf(Top.tpl))
      BY <2>1 DEF StampRows, Stamped
    <3>2. \A r \in BodyNodes(Stamped, BodyOf(Top.tpl)) : r.kind \in {"generate", "primitive"}
      BY DEF BodyNodes, NodeRow
    <3> QED
      BY <1>2, <3>1, <3>2 DEF NoPackageYet
  <2>2. CASE EnterChildren \/ StampConns
    <3>1. tree' = tree
      BY <2>2 DEF EnterChildren, StampConns, dbVars
    <3> QED
      BY <1>2, <3>1 DEF NoPackageYet
  <2> QED
    BY <2>1, <2>2
<1>4. k \in Nat \ {0} /\ Top = stack[k] /\ Top \in Frame /\ k \in 1..k
  BY <1>1, TopBody
<1>5. /\ Underway(inst, Top) /\ Top.inst \in Ids(inst) /\ Top.inst \in Nat
      /\ Top.next \in Nat \ {0} /\ Top.childBase \in Nat
  <2>1. Underway(inst, stack[k]) /\ \E r \in inst : r.id = stack[k].inst
    BY <1>2, <1>4 DEF Growing, Standing
  <2> QED
    BY <1>2, <1>4, <2>1 DEF Frame
<1>6. PICK f : /\ Topped(f) /\ f.inst = Top.inst /\ f.tpl = Top.tpl /\ Underway(inst, f)
  <2>1. CASE StampRows
    <3>1. /\ Topped(Stamped) /\ Stamped.inst = Top.inst /\ Stamped.tpl = Top.tpl
          /\ Stamped.stage = "guard" /\ Top.stage = "rows"
      BY <1>1, <2>1, StackMoves, StampedType DEF StampRows, At
    <3>2. Underway(inst, Stamped)
      BY <1>5, <3>1 DEF Underway
    <3> QED
      BY <3>1, <3>2
  <2>2. CASE EnterChildren
    <3>1. /\ Topped(Entering) /\ Entering.inst = Top.inst /\ Entering.tpl = Top.tpl
          /\ Entering.stage = "kids" /\ Entering.next = Top.next
          /\ Entering.childBase = last["node"] /\ Top.stage = "guard"
      BY <1>1, <2>2, StackMoves, FrameFields DEF EnterChildren, At
    <3>2. Top.next = 1 /\ KidsOf(inst, Top.inst) = {}
      BY <1>4, <1>5, <3>1 DEF Fresh, Underway
    <3>3. Count(inst, Top.inst) = 0
      BY <3>2, FS_EmptySet DEF Count
    <3>4. Top.inst <= last["node"]
      BY <1>5, NodesBound
    <3>5. Underway(inst, Entering)
      BY <3>1, <3>2, <3>3, <3>4 DEF Underway
    <3> QED
      BY <3>1, <3>5
  <2>3. CASE StampConns
    <3>1. /\ Topped(Following) /\ Following.inst = Top.inst /\ Following.tpl = Top.tpl
          /\ Following.stage = "kids" /\ Following.next = Top.next + 1
          /\ Following.childBase = Top.childBase /\ Top.stage = "conns"
      BY <1>1, <2>3, StackMoves, FrameFields DEF StampConns, At
    <3>2. /\ Top.inst <= Top.childBase /\ Count(inst, Top.inst) = Top.next
          /\ \A r \in KidsOf(inst, Top.inst) : r.id <= Top.childBase + Top.next
      BY <1>5, <3>1 DEF Underway
    <3>3. \A r \in KidsOf(inst, Top.inst) : r.id < Top.childBase + (Top.next + 1)
      <4>1. \A r \in KidsOf(inst, Top.inst) : r.id \in Nat
        BY <1>2 DEF KidsOf
      <4> QED
        BY <1>5, <3>2, <4>1
    <3>4. Count(inst, Following.inst) = Following.next - 1
      BY <1>5, <3>1, <3>2
    <3>5. Underway(inst, Following)
      BY <3>1, <3>2, <3>3, <3>4 DEF Underway
    <3> QED
      BY <3>1, <3>5
  <2> QED
    BY <2>1, <2>2, <2>3
<1>7. /\ Len(t) = k /\ \A i \in 1..(k - 1) : t[i] = stack[i]
      /\ t[k].inst = stack[k].inst /\ t[k].tpl = stack[k].tpl /\ Underway(inst, t[k])
  BY <1>4, <1>6 DEF Topped, BelowKept
<1> HIDE DEF t
<1>8. Growing(P, inst, t, design)
  BY <1>2, <1>4, <1>7, TopGoesOn
<1> QED
  BY <1>1, <1>3, <1>8, TreeStays DEF t

\* The innermost occurrence returns.
LEMMA UnfoldReturn ==
    ASSUME NEW P, Unfolding(P), TypeOK, PathInv, InstsOnce, InstsOnce',
           CutRecursion \/ Return
    PROVE  Unfolded' /\ UNCHANGED H!hvars
<1> DEFINE k == Len(stack)
           t == stack'
<1>1. /\ phase = "tree" /\ phase' = "tree" /\ design' = design /\ cursor' = cursor
      /\ inst' = inst /\ tree' = tree /\ stack # <<>>
  BY DEF CutRecursion, Return, At, dbVars
<1>2. /\ Grove(P, inst) /\ Growing(P, inst, stack, design) /\ NoPackageYet
  BY <1>1, TreeTyped
<1>3. NoPackageYet'
  BY <1>1, <1>2 DEF NoPackageYet
<1>4. k \in Nat \ {0} /\ Top = stack[k] /\ Top \in Frame /\ k \in 1..k
      /\ BodyOf(Top.tpl) \in Body
  BY <1>1, TopBody
<1>5. Standing(P, inst, stack) /\ Underway(inst, Top)
  BY <1>2, <1>4 DEF Growing
<1>6. ASSUME NEW r \in inst, r.id = stack[k].inst PROVE Done(P, inst, r, design)
  <2>1. r.tpl = {Top.tpl} /\ r.id = Top.inst
    <3>1. PICK q \in inst : q.id = stack[k].inst /\ q.tpl = {stack[k].tpl}
      BY <1>4, <1>5 DEF Standing
    <3>2. q = r
      BY <1>6, <3>1 DEF InstsOnce, Distinct
    <3> QED
      BY <1>4, <1>6, <3>1, <3>2
  <2>2. CASE CutRecursion
    <3>1. Top.stage = "guard" /\ Top.tpl \in onPath
      BY <2>2 DEF CutRecursion, At, Recurses
    <3>2. PICK j \in 1..k : InChildren(j) /\ stack[j].tpl = Top.tpl
      BY <3>1 DEF PathInv, Held
    <3>3. j # k
      BY <1>4, <3>1, <3>2 DEF InChildren
    <3>4. PICK q \in inst : q.id = stack[j].inst /\ q.tpl = {stack[j].tpl}
      BY <1>5, <3>2 DEF Standing
    <3>5. Len(P[r.id]) = k /\ SubSeq(P[r.id], 1, j) = P[q.id]
      BY <1>4, <1>5, <2>1, <3>2, <3>4 DEF Standing
    <3>6. j \in 1..(Len(P[r.id]) - 1) /\ q.tpl \cap r.tpl # {}
      BY <1>4, <2>1, <3>2, <3>3, <3>4, <3>5
    <3> QED
      BY <3>4, <3>5, <3>6 DEF Done, Cut
  <2>3. CASE Return
    <3>1. Top.stage = "kids" /\ Top.next > Len(BodyOf(Top.tpl).children)
      BY <2>3 DEF Return, At
    <3>2. Count(inst, Top.inst) = Top.next - 1
      BY <1>5, <3>1 DEF Underway
    <3>3. Top.next \in Nat /\ Len(BodyOf(Top.tpl).children) \in Nat
      BY <1>4 DEF Frame, Body
    <3>4. Len(BodyOf(Top.tpl).children) <= Count(inst, r.id)
      BY <2>1, <3>1, <3>2, <3>3
    <3> QED
      BY <2>1, <3>4 DEF Done, BodyOf
  <2> QED
    BY <2>2, <2>3
<1>7. Len(t) = k - 1 /\ \A i \in 1..(k - 1) : t[i] = stack[i]
  BY <1>1, StackMoves DEF BelowKept
<1> HIDE DEF t
<1>8. Growing(P, inst, t, design)
  BY <1>2, <1>4, <1>6, <1>7, TopReturns
<1> QED
  BY <1>1, <1>3, <1>8, TreeStays DEF t

\* The tree is finished when its last top has returned.
LEMMA UnfoldEnds ==
    ASSUME NEW P, Unfolding(P), TypeOK, InstsOnce, InstsOnce', Advance, phase = "tree"
    PROVE  Unfolded' /\ H!Complete
<1>1. /\ stack = <<>> /\ cursor = Len(design.tops) /\ phase' = "packages"
      /\ design' = design /\ inst' = inst /\ tree' = tree
  BY DEF Advance, Work, dbVars
<1>2. /\ Own = inst /\ Grove(P, inst) /\ Growing(P, inst, stack, design)
      /\ Count(inst, 0) = cursor /\ design \in Designs
  BY TreeTyped
<1>3. Own' = Own
  BY <1>1 DEF Own, OwnOf, Occurrences, Ids
<1>4. Unfolded'
  BY <1>1, <1>2, <1>3 DEF Unfolding, Unfolded
<1>5. Reached' = Reached
  BY <1>2, <1>3, ReachedStays
<1>6. Tells(Reached, P, inst)
  BY <1>2, ReachedNow
<1>7. /\ \A i \in 1..Len(design.tops) : <<i>> \in DOMAIN Reached
      /\ \A p \in DOMAIN Reached : ~ReentersIn(Reached, p) =>
           \A t \in Reached[p] : \A i \in 1..Len(design.body[t].children) :
             Append(p, i) \in DOMAIN Reached
  <2>1. Len(stack) = 0 /\ Count(inst, 0) = Len(design.tops)
    BY <1>1, <1>2
  <2> QED
    BY <1>2, <1>6, <2>1, AllHaveCome
<1>8. \A m \in H!Missing : m[1] \in DOMAIN Reached
  BY <1>7, MayCome DEF BodyOf
<1> QED
  BY <1>1, <1>4, <1>5, <1>8 DEF H!Complete

\* A package is no occurrence, and nothing else comes after the tree.
LEMMA OwnStays ==
    ASSUME TypeOK, NodesIssued, InstsOnce,
           StampPackage \/ ResolveRef \/ CrossDep \/ Advance \/ UNCHANGED vars
    PROVE  Own' = Own
<1>1. CASE StampPackage
  <2> DEFINE i == last["node"] + 1
             r == BlackBoxRow(i, 0)
             node == NodeRow(i, 0, design.packages[cursor + 1].name, "package",
                             Len(design.tops) + cursor)
  <2>1. inst' = inst \cup {r} /\ tree' = tree \cup {node}
    BY <1>1 DEF StampPackage
  <2>2. r.id = i /\ node.id = i /\ node.kind = "package"
    BY DEF BlackBoxRow, NodeRow
  <2>3. i \notin Ids(inst)
    BY NodesBound
  <2> HIDE DEF r, node, i
  <2>4. Ids(inst') = Ids(inst) \cup {i}
    BY <2>1, <2>2 DEF Ids
  <2>5. {q.id : q \in {m \in tree' : m.kind = "package"}}
          = {q.id : q \in {m \in tree : m.kind = "package"}} \cup {i}
    BY <2>1, <2>2
  <2>6. Occurrences' = Occurrences
    BY <2>3, <2>4, <2>5 DEF Occurrences
  <2>7. r.id \notin Occurrences
    BY <2>2, <2>3 DEF Occurrences
  <2> QED
    BY <2>1, <2>6, <2>7 DEF Own, OwnOf
<1>2. CASE ResolveRef \/ CrossDep \/ Advance \/ UNCHANGED vars
  <2>1. inst' = inst /\ tree' = tree
    BY <1>2 DEF ResolveRef, CrossDep, Advance, vars, dbVars
  <2> QED
    BY <2>1 DEF Own, OwnOf, Occurrences, Ids
<1> QED
  BY <1>1, <1>2

\* After the tree nothing comes: a package is no occurrence.
LEMMA UnfoldAfter ==
    ASSUME NEW P, Unfolding(P), TypeOK, NodesIssued, InstsOnce, InstsOnce', phase # "tree",
           StampPackage \/ ResolveRef \/ CrossDep \/ Advance \/ UNCHANGED vars
    PROVE  Unfolded' /\ UNCHANGED H!hvars
<1>1. phase' # "tree" /\ design' = design
  BY DEF StampPackage, ResolveRef, CrossDep, Advance, vars, TypeOK
<1>2. Own' = Own
  BY OwnStays
<1>3. Reached' = Reached
  BY <1>2, ReachedStays DEF Unfolding
<1>4. Unfolded'
  BY <1>1, <1>2 DEF Unfolding, Unfolded
<1> QED
  BY <1>1, <1>3, <1>4 DEF H!hvars

LEMMA UnfoldStill ==
    ASSUME NEW P, Unfolding(P), TypeOK, InstsOnce, InstsOnce', phase = "tree", UNCHANGED vars
    PROVE  Unfolded' /\ UNCHANGED H!hvars
<1>1. /\ phase' = "tree" /\ design' = design /\ cursor' = cursor /\ inst' = inst
      /\ tree' = tree /\ stack' = stack
  BY DEF vars, dbVars
<1>2. NoPackageYet' /\ Growing(P, inst, stack', design)
  BY <1>1, TreeTyped DEF NoPackageYet
<1> QED
  BY <1>1, <1>2, TreeStays

LEMMA UnfoldStep ==
    TypeOK /\ PathInv /\ IdsInv /\ InstsOnce /\ InstsOnce' /\ Unfolded /\ [Next]_vars
      => Unfolded' /\ [H!HNext]_H!hvars
<1> SUFFICES ASSUME TypeOK, PathInv, IdsInv, InstsOnce, InstsOnce', Unfolded, [Next]_vars
             PROVE  Unfolded' /\ [H!HNext]_H!hvars
  OBVIOUS
<1>1. PICK P : Unfolding(P)
  BY DEF Unfolded
<1>2. Fresh /\ NodesIssued
  BY DEF IdsInv
<1>3. CASE StampTop \/ StampChildModule \/ StampUnresolved
  BY <1>1, <1>2, <1>3, UnfoldTop, UnfoldChild, UnfoldBox DEF H!HNext
<1>4. CASE StampRows \/ EnterChildren \/ StampConns
  BY <1>1, <1>2, <1>4, UnfoldInside
<1>5. CASE CutRecursion \/ Return
  BY <1>1, <1>5, UnfoldReturn
<1>6. CASE Advance /\ phase = "tree"
  BY <1>1, <1>6, UnfoldEnds DEF H!HNext
<1>7. CASE phase # "tree" /\ (StampPackage \/ ResolveRef \/ CrossDep \/ Advance \/ UNCHANGED vars)
  BY <1>1, <1>2, <1>7, UnfoldAfter
<1>8. CASE phase = "tree" /\ UNCHANGED vars
  BY <1>1, <1>8, UnfoldStill
<1>9. StampPackage \/ ResolveRef \/ CrossDep => phase # "tree"
  BY DEF StampPackage, ResolveRef, CrossDep
<1> QED
  BY <1>3, <1>4, <1>5, <1>6, <1>7, <1>8, <1>9 DEF Next

(* Stamper implements Hierarchy: every node it writes for an instance is   *)
(* an occurrence the design has there, under an occurrence that is not cut *)
(* by the recursion guard, written once and after its parent; and when the *)
(* tree ends none is missing.                                              *)
THEOREM StampingUnfolds == Spec => Unfolds
<1>1. Unfolded /\ TypeOK /\ PathInv /\ IdsInv /\ HomeInv /\ HomeInv' /\ [Next]_vars
        => Unfolded' /\ [H!HNext]_H!hvars
  BY UnfoldStep DEF HomeInv
<1>2. Init => Unfolded /\ H!HInit
  BY UnfoldedInit
<1> QED
  BY <1>1, <1>2, HomeInductive, PTL DEF Spec, Unfolds, H!HSpec

=============================================================================
