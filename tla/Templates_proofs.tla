--------------------------- MODULE Templates_proofs ---------------------------
(***************************************************************************)
(* What pass 1 guarantees for every design, however large and however slang *)
(* shares its bodies: the variables keep their types, the guard of collect  *)
(* is exactly its open calls, every group has the body its template must be *)
(* extracted from, every occurrence of the tree has a group, and where keys *)
(* tell bodies apart, every template names children that are all there.     *)
(***************************************************************************)
EXTENDS TemplatesProperties, FiniteSetTheorems, SequenceTheorems,
        WellFoundedInduction, TLAPS

\* The loops after the walk leave what it grouped alone.
LEMMA BuildingKeeps ==
    ASSUME [Next]_vars
    PROVE  Grouping \/ UNCHANGED groupingVars
  BY DEF Next, vars, Collecting, CountUnanalysed, InternModule, BeginTerms,
         BuildTerms, BeginTemplates, BuildTemplate, Return, Begins, Works

LEMMA ElementIn ==
    ASSUME NEW S, NEW s \in Seq(S), NEW n \in 1..Len(s)
    PROVE  s[n] \in S
  OBVIOUS

LEMMA WithoutLast ==
    ASSUME NEW S, NEW s \in Seq(S), Len(s) # 0
    PROVE  /\ SubSeq(s, 1, Len(s) - 1) \in Seq(S)
           /\ Len(SubSeq(s, 1, Len(s) - 1)) = Len(s) - 1
           /\ \A k \in 1..Len(s) - 1 : SubSeq(s, 1, Len(s) - 1)[k] = s[k]
<1>1. PICK m \in Nat : m = Len(s) - 1
  OBVIOUS
<1>2. \A k \in 1..m : s[k] \in S
  BY <1>1
<1>3. /\ SubSeq(s, 1, m) \in Seq(S)
      /\ Len(SubSeq(s, 1, m)) = IF 1 <= m THEN m - 1 + 1 ELSE 0
      /\ \A k \in 1..m - 1 + 1 : SubSeq(s, 1, m)[k] = s[1 + k - 1]
  BY <1>2, SubSeqProperties
<1>4. m - 1 + 1 = m /\ \A k \in 1..m : 1 + k - 1 = k
  OBVIOUS
<1>5. Len(SubSeq(s, 1, m)) = m /\ \A k \in 1..m : SubSeq(s, 1, m)[k] = s[k]
  BY <1>3, <1>4
<1> QED
  BY <1>1, <1>3, <1>5

-----------------------------------------------------------------------------
(***************************************************************************)
(* One call of collect, whoever makes it.                                   *)
(***************************************************************************)
Called(i, calls) ==
    /\ i \in Insts /\ calls \in Seq(Frame)
    /\ Collect(i, calls) /\ UNCHANGED design

LEMMA Calling ==
    ASSUME GroupingTypeOK, CollectTop \/ CollectChild
    PROVE  \E i \in Insts, calls \in Seq(Frame) :
              /\ Called(i, calls)
              /\ tops' \in Seq(Insts)
              /\ Len(calls) = Len(walk)
              /\ \A n \in 1..Len(walk) : calls[n].inst = walk[n].inst
<1> USE DEF GroupingTypeOK
<1>1. CASE CollectTop
  <2>1. Head(tops) \in Insts /\ tops' \in Seq(Insts)
    BY <1>1 DEF CollectTop
  <2>2. <<>> \in Seq(Frame) /\ Len(walk) = 0
    BY <1>1 DEF CollectTop
  <2>3. Called(Head(tops), <<>>)
    BY <1>1, <2>1, <2>2 DEF CollectTop, Called
  <2>4. Len(<<>>) = Len(walk) /\ \A n \in 1..Len(walk) : <<>>[n].inst = walk[n].inst
    BY <2>2
  <2> QED
    BY <2>1, <2>2, <2>3, <2>4
<1>2. CASE CollectChild
  <2> DEFINE f == [Innermost EXCEPT !.kids = Tail(@)]
             calls == [walk EXCEPT ![Len(walk)] = f]
  <2>1. /\ Len(walk) \in 1..Len(walk)
        /\ Innermost \in Frame /\ Innermost.kids # <<>>
    BY <1>2 DEF CollectChild, Innermost
  <2>2. /\ Head(Innermost.kids) \in Insts /\ Tail(Innermost.kids) \in Seq(Insts)
    BY <2>1 DEF Frame
  <2>3. f \in Frame /\ f.inst = walk[Len(walk)].inst
    BY <2>1, <2>2 DEF Frame, Innermost
  <2>4. calls \in Seq(Frame) /\ Len(calls) = Len(walk)
    <3> HIDE DEF f
    <3>1. walk \in Seq(Frame)
      OBVIOUS
    <3> QED
      BY <2>1, <2>3, <3>1, ExceptSeq
  <2>5. \A n \in 1..Len(walk) : calls[n].inst = walk[n].inst
    <3> HIDE DEF f
    <3>1. walk \in Seq(Frame)
      OBVIOUS
    <3>2. \A n \in 1..Len(walk) : calls[n] = IF n = Len(walk) THEN f ELSE walk[n]
      BY <2>1, <2>3, <3>1, ExceptSeq
    <3>3. f.inst = walk[Len(walk)].inst
      BY <2>3
    <3> HIDE DEF calls
    <3>4. ASSUME NEW n \in 1..Len(walk)
          PROVE  calls[n].inst = walk[n].inst
      <4>1. calls[n] = f \/ calls[n] = walk[n]
        BY <3>2
      <4>2. n # Len(walk) => calls[n] = walk[n]
        BY <3>2
      <4>3. n = Len(walk) => calls[n] = f
        BY <3>2
      <4> QED
        BY <4>2, <4>3, <3>3
    <3> QED
      BY ONLY <3>4
  <2>6. Called(Head(Innermost.kids), calls)
    BY <1>2, <2>2, <2>4 DEF CollectChild, Called
  <2>7. tops' \in Seq(Insts)
    BY <1>2 DEF CollectChild
  <2> HIDE DEF calls
  <2> QED
    BY <2>2, <2>4, <2>5, <2>6, <2>7
<1> QED
  BY <1>1, <1>2

LEMMA OfDesign ==
    ASSUME GroupingTypeOK, NEW i \in Insts
    PROVE  /\ Key(i) \in Keys /\ design.canon[i] \in Insts
           /\ design.kids[i] \in Seq(Insts)
           /\ design.analysed \in SUBSET Insts /\ NoBody \notin design.analysed
  BY NoBodyAssumption, DesignsAssumption DEF GroupingTypeOK, Key

-----------------------------------------------------------------------------
(***************************************************************************)
(* The types, and the guard of the descent (detail::OnPath).                *)
(***************************************************************************)
PathInv == GroupingTypeOK /\ PathIsOpenCalls

LEMMA PathInit == TemplatesInit => PathInv
  BY DesignsAssumption DEF TemplatesInit, Init, PathInv, GroupingTypeOK, PathIsOpenCalls

LEMMA PathStep == PathInv /\ [Next]_vars => PathInv'
<1> SUFFICES ASSUME PathInv, [Next]_vars PROVE PathInv'
  OBVIOUS
<1> USE DEF PathInv
<1>1. CASE UNCHANGED groupingVars
  BY <1>1 DEF groupingVars, GroupingTypeOK, PathIsOpenCalls, Key
<1>2. CASE CollectTop \/ CollectChild
  <2>1. PICK i \in Insts, calls \in Seq(Frame) :
           /\ Called(i, calls) /\ tops' \in Seq(Insts)
           /\ Len(calls) = Len(walk)
           /\ \A n \in 1..Len(walk) : calls[n].inst = walk[n].inst
    BY <1>2, Calling
  <2>2. /\ Key(i) \in Keys /\ design.canon[i] \in Insts
        /\ design.kids[i] \in Seq(Insts)
    BY OfDesign
  <2>3. /\ design' = design /\ grouped' = grouped \cup {i}
        /\ group' = [group EXCEPT ![Key(i)] = Offered(Key(i), design.canon[i])]
    BY <2>1 DEF Called, Collect
  <2>4. Offered(Key(i), design.canon[i]) \in Insts \cup {NoBody}
    BY <2>2 DEF Offered, GroupingTypeOK
  <2>5. /\ design' \in Designs /\ tops' \in Seq(Insts)
        /\ grouped' \in SUBSET Insts /\ group' \in [Keys -> Insts \cup {NoBody}]
    BY <2>1, <2>2, <2>3, <2>4 DEF GroupingTypeOK
  <2>6. CASE Key(i) \in onPath
    <3>1. walk' = calls /\ onPath' = onPath
      BY <2>1, <2>6 DEF Called, Collect
    <3>2. \A j : Key(j)' = Key(j)
      BY <2>3 DEF Key
    <3>3. {Key(walk'[n].inst) : n \in 1..Len(walk')} = {Key(walk[n].inst) : n \in 1..Len(walk)}
      BY <2>1, <3>1
    <3>4. PathIsOpenCalls'
      BY <2>1, <3>1, <3>2, <3>3 DEF PathIsOpenCalls
    <3> QED
      BY <2>1, <2>5, <3>1, <3>4 DEF GroupingTypeOK
  <2>7. CASE Key(i) \notin onPath
    <3> DEFINE f == [inst |-> i, kids |-> design.kids[i]]
               n == Len(walk)
    <3>1. walk' = Append(calls, f) /\ onPath' = onPath \cup {Key(i)}
      BY <2>1, <2>7 DEF Called, Collect
    <3>2. f \in Frame /\ n \in Nat
      BY <2>2 DEF Frame, GroupingTypeOK
    <3>3. /\ walk' \in Seq(Frame) /\ Len(walk') = n + 1
          /\ walk'[n + 1].inst = i
          /\ \A k \in 1..n : walk'[k].inst = walk[k].inst
      <4>1. f.inst = i
        OBVIOUS
      <4> HIDE DEF f
      <4>2. /\ Append(calls, f) \in Seq(Frame) /\ Len(Append(calls, f)) = n + 1
            /\ Append(calls, f)[n + 1] = f
            /\ \A k \in 1..n : Append(calls, f)[k] = calls[k]
        BY <2>1, <3>2
      <4> QED
        BY <2>1, <3>1, <4>1, <4>2
    <3>4. \A k \in 1..n + 1 : k \in 1..n \/ k = n + 1
      BY <3>2
    <3>5. \A j : Key(j)' = Key(j)
      BY <2>3 DEF Key
    <3>6. onPath' = {Key(walk'[k].inst) : k \in 1..n + 1}
      <4>1. onPath = {Key(walk[k].inst) : k \in 1..n}
        BY DEF PathIsOpenCalls
      <4>2. {Key(walk'[k].inst) : k \in 1..n + 1}
              = {Key(walk[k].inst) : k \in 1..n} \cup {Key(i)}
        BY <3>2, <3>3, <3>4
      <4> QED
        BY <3>1, <4>1, <4>2
    <3>7. \A k, m \in 1..n + 1 :
             Key(walk'[k].inst) = Key(walk'[m].inst) => k = m
      <4>1. \A k \in 1..n : Key(walk'[k].inst) \in onPath
        BY <3>3 DEF PathIsOpenCalls
      <4>2. \A k, m \in 1..n : Key(walk'[k].inst) = Key(walk'[m].inst) => k = m
        BY <3>3 DEF PathIsOpenCalls
      <4> QED
        BY <2>7, <3>3, <3>4, <4>1, <4>2
    <3>8. PathIsOpenCalls'
      BY <3>3, <3>5, <3>6, <3>7 DEF PathIsOpenCalls
    <3>9. onPath' \in SUBSET Keys
      BY <2>2, <3>1 DEF GroupingTypeOK
    <3> QED
      BY <2>5, <3>3, <3>8, <3>9 DEF GroupingTypeOK
  <2> QED
    BY <2>6, <2>7
<1>3. CASE LeaveInstance
  <2> DEFINE n == Len(walk)
  <2>1. /\ n \in Nat \ {0} /\ walk' = SubSeq(walk, 1, n - 1)
        /\ onPath' = onPath \ {Key(walk[n].inst)}
        /\ UNCHANGED <<design, tops, group, grouped>>
    BY <1>3 DEF LeaveInstance, Innermost, GroupingTypeOK
  <2>2. /\ walk' \in Seq(Frame) /\ Len(walk') = n - 1
        /\ \A k \in 1..n - 1 : walk'[k] = walk[k]
    <3>1. walk \in Seq(Frame)
      BY DEF GroupingTypeOK
    <3> QED
      BY <2>1, <3>1, WithoutLast
  <2>3. \A k \in 1..n : k \in 1..n - 1 \/ k = n
    BY <2>1
  <2>4. \A j : Key(j)' = Key(j)
    BY <2>1 DEF Key
  <2>5. onPath = {Key(walk[k].inst) : k \in 1..n - 1} \cup {Key(walk[n].inst)}
    BY <2>1, <2>3 DEF PathIsOpenCalls
  <2>6. Key(walk[n].inst) \notin {Key(walk[k].inst) : k \in 1..n - 1}
    BY <2>1 DEF PathIsOpenCalls
  <2>7. onPath' = {Key(walk'[k].inst) : k \in 1..n - 1}
    BY <2>1, <2>2, <2>5, <2>6
  <2>8. \A k, m \in 1..n - 1 : Key(walk'[k].inst) = Key(walk'[m].inst) => k = m
    BY <2>1, <2>2 DEF PathIsOpenCalls
  <2>9. PathIsOpenCalls'
    BY <2>2, <2>4, <2>7, <2>8 DEF PathIsOpenCalls
  <2> QED
    BY <2>1, <2>2, <2>9 DEF GroupingTypeOK
<1> QED
  BY <1>1, <1>2, <1>3, BuildingKeeps DEF Grouping

(***************************************************************************)
(* Every variable of the walk keeps its type, whatever the design is.       *)
(***************************************************************************)
THEOREM GroupingTypeCorrect == Spec => []GroupingTypeOK
<1>1. PathInv => GroupingTypeOK
  BY DEF PathInv
<1> QED
  BY PathInit, PathStep, <1>1, PTL DEF Spec

(***************************************************************************)
(* The guard of collect is the keys of its open calls, each once: leaving a *)
(* call takes its own key away and no other call's.                         *)
(***************************************************************************)
THEOREM GuardIsPath == Spec => []PathIsOpenCalls
<1>1. PathInv => PathIsOpenCalls
  BY DEF PathInv
<1> QED
  BY PathInit, PathStep, <1>1, PTL DEF Spec

\* How many calls of collect are open at once.
DepthBounded == Len(walk) <= Cardinality(Keys)

LEMMA DepthByPigeonhole ==
    ASSUME IsFiniteSet(Keys), PathInv
    PROVE  DepthBounded
<1> DEFINE calls == 1..Len(walk)
           f == [n \in calls |-> Key(walk[n].inst)]
<1>1. Len(walk) \in Nat /\ IsFiniteSet(calls) /\ Cardinality(calls) = Len(walk)
  <2>1. Len(walk) \in Nat
    BY DEF PathInv, GroupingTypeOK
  <2>2. /\ IsFiniteSet(1..Len(walk))
        /\ Cardinality(1..Len(walk))
             = IF 1 > Len(walk) THEN 0 ELSE Len(walk) - 1 + 1
    <3> HIDE DEF calls, f
    <3> DEFINE top == Len(walk)
    <3>1. 1 \in Int /\ top \in Int
      BY <2>1
    <3> HIDE DEF top
    <3>2. /\ IsFiniteSet(1..top)
          /\ Cardinality(1..top) = IF 1 > top THEN 0 ELSE top - 1 + 1
      BY ONLY <3>1, FS_Interval
    <3> QED
      BY <3>2 DEF top
  <2> QED
    BY <2>1, <2>2
<1>2. f \in Injection(calls, Keys)
  <2>1. \A n \in calls : Key(walk[n].inst) \in Keys
    <3>1. \A n \in calls : walk[n].inst \in Insts
      <4>1. walk \in Seq(Frame)
        BY DEF PathInv, GroupingTypeOK
      <4>2. \A n \in calls : walk[n] \in Frame
        BY <4>1, ElementIn
      <4> QED
        BY <4>2 DEF Frame
    <3> QED
      BY <3>1, OfDesign DEF PathInv
  <2>2. \A m, n \in calls : f[m] = f[n] => m = n
    BY DEF PathInv, PathIsOpenCalls
  <2> QED
    BY <2>1, <2>2 DEF Injection, IsInjective
<1>3. Cardinality(calls) <= Cardinality(Keys)
  BY <1>1, <1>2, FS_Injection
<1> QED
  BY <1>1, <1>3 DEF DepthBounded

(***************************************************************************)
(* So collect is never more calls deep than the design has keys, though     *)
(* nothing counts them: a design whose modules instantiate one another ends.*)
(***************************************************************************)
THEOREM DescentIsBounded ==
    ASSUME IsFiniteSet(Keys) PROVE Spec => []DepthBounded
<1>1. PathInv => DepthBounded
  BY DepthByPigeonhole
<1> QED
  BY PathInit, PathStep, <1>1, PTL DEF Spec

-----------------------------------------------------------------------------
(***************************************************************************)
(* The body of each group (offer).                                          *)
(***************************************************************************)
ChosenInv == PathInv /\ BodiesChosen

LEMMA ChosenInit == TemplatesInit => ChosenInv
  BY PathInit DEF TemplatesInit, Init, ChosenInv, BodiesChosen, Offers

LEMMA ChosenStep == ChosenInv /\ [Next]_vars => ChosenInv'
<1> SUFFICES ASSUME ChosenInv, [Next]_vars PROVE BodiesChosen'
  BY PathStep DEF ChosenInv
<1> PathInv /\ GroupingTypeOK /\ BodiesChosen
  BY DEF ChosenInv, PathInv
<1>1. CASE UNCHANGED <<design, group, grouped>>
  <2>1. \A k : Offers(k)' = Offers(k)
    BY <1>1 DEF Offers, Key
  <2>2. \A x : Analysed(x)' = Analysed(x)
    BY <1>1 DEF Analysed
  <2> QED
    BY <1>1, <2>1, <2>2 DEF BodiesChosen
<1>2. CASE CollectTop \/ CollectChild
  <2>1. PICK i \in Insts : \E calls \in Seq(Frame) : Called(i, calls)
    BY <1>2, Calling
  <2>0. PICK k0 \in Keys, b \in Insts : k0 = Key(i) /\ b = design.canon[i]
    BY OfDesign
  <2>2. /\ b # NoBody
        /\ design.analysed \in SUBSET Insts /\ NoBody \notin design.analysed
    BY NoBodyAssumption, OfDesign
  <2>3. /\ design' = design /\ grouped' = grouped \cup {i}
        /\ group' = [group EXCEPT ![k0] = Offered(k0, b)]
    BY <2>0, <2>1 DEF Called, Collect
  <2>4. \A k \in Keys \ {k0} : group'[k] = group[k] /\ Offers(k)' = Offers(k)
    BY <2>0, <2>3 DEF GroupingTypeOK, Offers, Key
  <2>5. group'[k0] = Offered(k0, b) /\ Offers(k0)' = Offers(k0) \cup {b}
    BY <2>0, <2>2, <2>3 DEF GroupingTypeOK, Offers, Key
  <2>6. \A x : Analysed(x)' = Analysed(x)
    BY <2>3 DEF Analysed
  <2>7. ASSUME NEW k \in Keys
        PROVE  /\ group'[k] = NoBody <=> Offers(k)' = {}
               /\ group'[k] # NoBody => group'[k] \in Offers(k)'
               /\ (\E x \in Offers(k)' : Analysed(x)) => Analysed(group'[k])
    <3>1. /\ group[k] = NoBody <=> Offers(k) = {}
          /\ group[k] # NoBody => group[k] \in Offers(k)
          /\ (\E x \in Offers(k) : Analysed(x)) => Analysed(group[k])
      BY DEF BodiesChosen
    <3>2. CASE k # k0
      BY <2>4, <3>1, <3>2
    <3>3. CASE k = k0
      <4>1. CASE group[k0] \in design.analysed
        BY <2>2, <2>5, <3>1, <3>3, <4>1 DEF Offered, Analysed
      <4>2. CASE group[k0] \notin design.analysed /\ (group[k0] = NoBody \/ Analysed(b))
        BY <2>2, <2>5, <3>1, <3>3, <4>2 DEF Offered, Analysed
      <4>3. CASE group[k0] \notin design.analysed /\ group[k0] # NoBody /\ ~Analysed(b)
        BY <2>2, <2>5, <3>1, <3>3, <4>3 DEF Offered, Analysed
      <4> QED
        BY <4>1, <4>2, <4>3
    <3> QED
      BY <3>2, <3>3
  <2> QED
    BY <2>6, <2>7 DEF BodiesChosen
<1>3. CASE LeaveInstance
  BY <1>1, <1>3 DEF LeaveInstance
<1> QED
  BY <1>1, <1>2, <1>3, BuildingKeeps DEF Grouping, groupingVars

(***************************************************************************)
(* A group has a body exactly if an instance of it was met; the body is one *)
(* of theirs, and an analysed one if any of them is.                        *)
(***************************************************************************)
THEOREM BodiesAreChosen == Spec => []BodiesChosen
<1>1. ChosenInv => BodiesChosen
  BY DEF ChosenInv
<1> QED
  BY ChosenInit, ChosenStep, <1>1, PTL DEF Spec

\* No step of the walk, and none of the loops after it, gives one up.
LEMMA AnalysedStaysStep == PathInv /\ [Next]_vars => AnalysedStays \/ UNCHANGED vars
<1> SUFFICES ASSUME PathInv, [Next]_vars PROVE AnalysedStays
  OBVIOUS
<1>1. CASE group' = group
  BY <1>1 DEF AnalysedStays
<1>2. CASE CollectTop \/ CollectChild
  <2>1. PICK i \in Insts : \E calls \in Seq(Frame) : Called(i, calls)
    BY <1>2, Calling DEF PathInv
  <2>2. Key(i) \in Keys
    BY OfDesign DEF PathInv
  <2>3. group' = [group EXCEPT ![Key(i)] = Offered(Key(i), design.canon[i])]
    BY <2>1 DEF Called, Collect
  <2> QED
    BY <2>2, <2>3 DEF AnalysedStays, Offered, Analysed, PathInv, GroupingTypeOK
<1>3. CASE LeaveInstance
  BY <1>1, <1>3 DEF LeaveInstance
<1> QED
  BY <1>1, <1>2, <1>3, BuildingKeeps DEF Grouping, groupingVars

(***************************************************************************)
(* A body that was analysed is never given up for another (offer replaces a *)
(* body only while it is not).                                              *)
(***************************************************************************)
THEOREM AnalysedIsKept == Spec => [][AnalysedStays]_vars
<1>1. PathInv /\ [Next]_vars => [AnalysedStays]_vars
  BY AnalysedStaysStep
<1> QED
  BY PathInit, PathStep, <1>1, PTL DEF Spec

-----------------------------------------------------------------------------
(***************************************************************************)
(* The loops after the walk. Each does every group once, in the order of    *)
(* their map, and nothing enters the map any more.                          *)
(***************************************************************************)
Interned(k) == \E n \in DOMAIN modules : modules[n] = design.def[k]
Phases == {"collect", "modules", "terms", "templates"}

\* What the template of a group names.
Linked(k) ==
    LET children == design.body[k].children IN
    /\ templates[k].module \in DOMAIN modules
    /\ modules[templates[k].module] = design.def[k]
    /\ DOMAIN templates[k].children = DOMAIN children
    /\ \A n \in DOMAIN children :
          templates[k].children[n].key =
              IF children[n].kid = 0 THEN NoBody ELSE ChildKey(k, children[n])

LoopsInv ==
    /\ phase \in Phases /\ done \subseteq Resolved
    /\ phase = "collect" => done = {}
    /\ phase # "collect" => Collected
    /\ phase # "collect" => unanalysed = Cardinality({k \in Resolved : ~Analysed(group[k])})
    /\ modules \in Seq({design.def[k] : k \in Keys}) /\ OneModuleRowEach
    /\ DOMAIN terms = Keys /\ DOMAIN templates = Keys
    /\ phase = "modules" => \A k \in done : Interned(k)
    /\ phase \in {"terms", "templates"} => \A k \in Resolved : Interned(k)
    /\ phase = "terms" => \A k \in done : terms[k] = design.body[k].ports
    /\ phase = "templates" => \A k \in Resolved : terms[k] = design.body[k].ports
    /\ phase = "templates" => \A k \in done : Linked(k)

BuildInv == PathInv /\ LoopsInv

LEMMA NextGroup ==
    ASSUME GroupingTypeOK, Left # {}
    PROVE  Group \in Left
<1> DEFINE order == design.order
           S == {n \in DOMAIN order : order[n] \in Left}
<1>1. order \in Seq(Keys) /\ \A k \in Keys : \E n \in DOMAIN order : order[n] = k
  BY OrderAssumption DEF GroupingTypeOK
<1>2. DOMAIN order = 1..Len(order) /\ Len(order) \in Nat
  BY <1>1
<1>3. Left \subseteq Keys
  BY DEF Left
<1> HIDE DEF order
<1>4. S # {} /\ S \subseteq Nat
  BY <1>1, <1>2, <1>3
<1>5. PICK n \in S : \A m \in S : ~(<<m, n>> \in OpToRel(<, Nat))
  BY <1>4, WFMin, NatLessThanWellFounded
<1>6. \A m \in S : ~(m < n)
  BY <1>4, <1>5 DEF OpToRel
<1>7. \A m \in 1..n - 1 : m \in DOMAIN order /\ m < n
  BY <1>2, <1>4
<1>8. \A m \in 1..n - 1 : order[m] \notin Left
  BY <1>6, <1>7
<1>9. \E m \in DOMAIN order : order[m] \in Left /\ \A p \in 1..m - 1 : order[p] \notin Left
  BY <1>8
<1> QED
  BY <1>9 DEF Group, order

LEMMA LoopsInit == TemplatesInit => LoopsInv
<1> SUFFICES ASSUME TemplatesInit PROVE LoopsInv
  OBVIOUS
<1>1. /\ phase = "collect" /\ done = {} /\ modules = <<>>
      /\ DOMAIN terms = Keys /\ DOMAIN templates = Keys
  BY DEF TemplatesInit
<1>2. <<>> \in Seq({design.def[k] : k \in Keys}) /\ DOMAIN <<>> = {}
  OBVIOUS
<1>3. OneModuleRowEach
  BY <1>1, <1>2 DEF OneModuleRowEach
<1> QED
  BY <1>1, <1>2, <1>3 DEF LoopsInv, Phases

LEMMA LoopsStep == BuildInv /\ [Next]_vars => BuildInv'
<1> SUFFICES ASSUME BuildInv, [Next]_vars PROVE LoopsInv'
  BY PathStep DEF BuildInv
<1> USE DEF Phases
<1> GroupingTypeOK /\ LoopsInv
  BY DEF BuildInv, PathInv
<1> DEFINE Same == UNCHANGED <<group, design, tops, walk>>
<1>0. ASSUME Same
      PROVE  /\ Resolved' = Resolved /\ Collected' = Collected
             /\ {k \in Resolved : ~Analysed(group[k])}' = {k \in Resolved : ~Analysed(group[k])}
             /\ \A k, child : ChildKey(k, child)' = ChildKey(k, child)
  BY <1>0 DEF Resolved, Collected, Analysed, ChildKey, Key
<1>1. CASE UNCHANGED vars
  <2>1. /\ Same /\ UNCHANGED <<phase, done, unanalysed, modules, terms, templates>>
    BY <1>1 DEF vars, groupingVars, buildingVars
  <2>2. OneModuleRowEach' = OneModuleRowEach /\ \A k : Interned(k)' = Interned(k)
    BY <2>1 DEF OneModuleRowEach, Interned
  <2>3. \A k : Linked(k)' = Linked(k)
    BY <1>0, <2>1 DEF Linked
  <2> QED
    BY <1>0, <2>1, <2>2, <2>3 DEF LoopsInv
<1>2. CASE Collecting
  <2>1. /\ phase = "collect" /\ UNCHANGED <<phase, done, modules, terms, templates, design>>
    BY <1>2 DEF Collecting, buildingVars, Grouping, CollectTop, CollectChild, LeaveInstance
  <2>2. OneModuleRowEach'
    BY <2>1 DEF OneModuleRowEach, LoopsInv
  <2> QED
    BY <2>1, <2>2 DEF LoopsInv
<1>3. CASE CountUnanalysed
  <2>1. /\ Same /\ Collected /\ phase = "collect" /\ phase' = "modules" /\ done' = {}
        /\ UNCHANGED <<modules, terms, templates>>
        /\ unanalysed' = Cardinality({k \in Resolved : ~Analysed(group[k])})
    <3>1. {k \in Keys : group[k] # NoBody /\ ~Analysed(group[k])} = {k \in Resolved : ~Analysed(group[k])}
      BY DEF Resolved
    <3> QED
      BY <1>3, <3>1 DEF CountUnanalysed, Begins, groupingVars
  <2>2. OneModuleRowEach'
    BY <2>1 DEF OneModuleRowEach, LoopsInv
  <2> QED
    BY <1>0, <2>1, <2>2 DEF LoopsInv
<1>4. CASE BeginTerms
  <2>1. /\ Same /\ Resolved \subseteq done /\ phase = "modules" /\ phase' = "terms" /\ done' = {}
        /\ UNCHANGED <<modules, terms, templates, unanalysed>>
    BY <1>4 DEF BeginTerms, Begins, groupingVars, Left, Resolved
  <2>2. OneModuleRowEach' /\ \A k : Interned(k)' = Interned(k)
    BY <2>1 DEF OneModuleRowEach, Interned, LoopsInv
  <2> QED
    BY <1>0, <2>1, <2>2 DEF LoopsInv
<1>5. CASE BeginTemplates
  <2>1. /\ Same /\ Resolved \subseteq done /\ phase = "terms" /\ phase' = "templates" /\ done' = {}
        /\ UNCHANGED <<modules, terms, templates, unanalysed>>
    BY <1>5 DEF BeginTemplates, Begins, groupingVars, Left, Resolved
  <2>2. OneModuleRowEach' /\ \A k : Interned(k)' = Interned(k)
    BY <2>1 DEF OneModuleRowEach, Interned, LoopsInv
  <2> QED
    BY <1>0, <2>1, <2>2 DEF LoopsInv
<1> DEFINE D == {design.def[k] : k \in Keys}
<1>g. PICK g : g = Group
  OBVIOUS
<1>6. ASSUME NEW loop, Works(loop)
      PROVE  /\ Same /\ phase = loop /\ phase' = loop /\ unanalysed' = unanalysed
             /\ g \in Resolved \ done /\ done' = done \cup {g}
  BY <1>6, <1>g, NextGroup DEF Works, groupingVars, Left, Resolved
<1>7. CASE InternModule
  <2>1. /\ Same /\ phase = "modules" /\ phase' = "modules" /\ unanalysed' = unanalysed
        /\ g \in Resolved \ done /\ done' = done \cup {g}
        /\ UNCHANGED <<terms, templates>>
    BY <1>6, <1>7 DEF InternModule
  <2>2. modules' = IF Interned(g) THEN modules ELSE Append(modules, design.def[g])
    BY <1>7, <1>g DEF InternModule, Interned
  <2>3. /\ modules' \in Seq(D) /\ OneModuleRowEach'
        /\ \A k \in done \cup {g} : Interned(k)'
    <3>1. modules \in Seq(D) /\ OneModuleRowEach /\ \A k \in done : Interned(k)
      BY <2>1 DEF LoopsInv
    <3>2. design.def[g] \in D /\ design' = design
      BY <2>1 DEF Resolved
    <3>3. CASE Interned(g)
      BY <2>2, <3>1, <3>2, <3>3 DEF OneModuleRowEach, Interned
    <3>4. CASE ~Interned(g)
      <4> DEFINE n == Len(modules)
                 e == design.def[g]
      <4>1. /\ modules' \in Seq(D) /\ n \in Nat /\ DOMAIN modules = 1..n /\ DOMAIN modules' = 1..n + 1
            /\ modules'[n + 1] = e
            /\ \A m \in 1..n : modules'[m] = modules[m] /\ modules[m] # e
        BY <2>2, <3>1, <3>2, <3>4 DEF Interned
      <4> HIDE DEF n, e
      <4>2. \A m \in 1..n + 1 : m \in 1..n \/ m = n + 1
        BY <4>1
      <4>3. \A m, p \in 1..n + 1 : modules'[m] = modules'[p] => m = p
        BY <3>1, <4>1, <4>2 DEF OneModuleRowEach
      <4>4. \A k \in done : \E m \in 1..n + 1 : modules'[m] = design.def[k]
        BY <3>1, <4>1 DEF Interned
      <4>5. \E m \in 1..n + 1 : modules'[m] = design.def[g]
        BY <4>1 DEF e
      <4> QED
        BY <3>2, <4>1, <4>3, <4>4, <4>5 DEF OneModuleRowEach, Interned
    <3> QED
      BY <3>3, <3>4
  <2>4. D' = D
    BY <2>1
  <2> QED
    BY <1>0, <2>1, <2>3, <2>4 DEF LoopsInv
<1>8. CASE BuildTerms
  <2>1. /\ Same /\ phase = "terms" /\ phase' = "terms" /\ unanalysed' = unanalysed
        /\ g \in Resolved \ done /\ done' = done \cup {g}
        /\ UNCHANGED <<modules, templates>>
        /\ terms' = [terms EXCEPT ![g] = design.body[g].ports]
    BY <1>6, <1>8, <1>g DEF BuildTerms
  <2>2. OneModuleRowEach' /\ \A k : Interned(k)' = Interned(k)
    BY <2>1 DEF OneModuleRowEach, Interned, LoopsInv
  <2>3. /\ DOMAIN terms' = Keys
        /\ \A k \in done \cup {g} : terms'[k] = design.body[k].ports
    BY <2>1 DEF LoopsInv, Resolved
  <2>4. /\ done \cup {g} \subseteq Resolved /\ Collected
        /\ unanalysed = Cardinality({k \in Resolved : ~Analysed(group[k])})
        /\ modules \in Seq(D) /\ DOMAIN templates = Keys
        /\ \A k \in Resolved : Interned(k)
    BY <2>1 DEF LoopsInv
  <2>5. D' = D /\ Resolved' = Resolved /\ Collected' = Collected
    BY <1>0, <2>1
  <2> QED
    BY <1>0, <2>1, <2>2, <2>3, <2>4, <2>5 DEF LoopsInv
<1>9. CASE BuildTemplate
  <2>1. /\ Same /\ phase = "templates" /\ phase' = "templates" /\ unanalysed' = unanalysed
        /\ g \in Resolved \ done /\ done' = done \cup {g}
        /\ UNCHANGED <<modules, terms>>
        /\ templates' = [templates EXCEPT ![g] = Template(g)]
    BY <1>6, <1>9, <1>g DEF BuildTemplate
  <2>2. OneModuleRowEach' /\ \A k : Interned(k)' = Interned(k)
    BY <2>1 DEF OneModuleRowEach, Interned, LoopsInv
  <2>3. /\ DOMAIN templates' = Keys /\ templates'[g] = Template(g)
        /\ \A k \in done : templates'[k] = templates[k]
    BY <2>1 DEF LoopsInv, Resolved
  <2>4. ASSUME NEW k \in done PROVE Linked(k)'
    <3>1. Linked(k)
      BY <2>1 DEF LoopsInv
    <3> QED
      BY <1>0, <2>1, <2>3, <3>1 DEF Linked
  <2>5. Linked(g)'
    <3>1. ModuleOf(g) \in DOMAIN modules /\ modules[ModuleOf(g)] = design.def[g]
      BY <2>1 DEF LoopsInv, Interned, ModuleOf
    <3> DEFINE children == design.body[g].children
    <3>2. \A n \in DOMAIN children : Child(g, children[n]).key =
             IF children[n].kid = 0 THEN NoBody ELSE ChildKey(g, children[n])
      BY DEF Child
    <3>3. /\ Template(g).module = ModuleOf(g)
          /\ Template(g).children = [n \in DOMAIN children |-> Child(g, children[n])]
      BY DEF Template
    <3>4. /\ DOMAIN Template(g).children = DOMAIN children
          /\ \A n \in DOMAIN children : Template(g).children[n].key =
                IF children[n].kid = 0 THEN NoBody ELSE ChildKey(g, children[n])
      BY <3>2, <3>3
    <3>0. PICK t : t = Template(g)
      OBVIOUS
    <3>5. /\ t.module \in DOMAIN modules /\ modules[t.module] = design.def[g]
          /\ DOMAIN t.children = DOMAIN children
          /\ \A n \in DOMAIN children : t.children[n].key =
                IF children[n].kid = 0 THEN NoBody ELSE ChildKey(g, children[n])
      BY <3>0, <3>1, <3>3, <3>4
    <3>6. /\ templates'[g] = t /\ modules' = modules /\ design' = design
          /\ \A child : ChildKey(g, child)' = ChildKey(g, child)
      BY <1>0, <2>1, <2>3, <3>0
    <3> QED
      BY <3>5, <3>6 DEF Linked
  <2>6. /\ done \cup {g} \subseteq Resolved /\ Collected
        /\ unanalysed = Cardinality({k \in Resolved : ~Analysed(group[k])})
        /\ modules \in Seq(D) /\ DOMAIN terms = Keys
        /\ \A k \in Resolved : Interned(k) /\ terms[k] = design.body[k].ports
    BY <2>1 DEF LoopsInv
  <2>7. D' = D /\ Resolved' = Resolved /\ Collected' = Collected
    BY <1>0, <2>1
  <2>8. DOMAIN templates' = Keys
    BY <2>3
  <2>9. \A k \in done' : Linked(k)'
    BY <2>1, <2>4, <2>5
  <2> QED
    BY <1>0, <2>1, <2>2, <2>6, <2>7, <2>8, <2>9 DEF LoopsInv
<1> QED
  BY <1>1, <1>2, <1>3, <1>4, <1>5, <1>7, <1>8, <1>9 DEF Next, Return

-----------------------------------------------------------------------------
(***************************************************************************)
(* The tree the walk covers. Of one call of collect it matters whose it is, *)
(* and what its caller has left to visit.                                   *)
(***************************************************************************)
Among(s) == {s[n] : n \in DOMAIN s}

LEMMA Removing ==
    ASSUME NEW S, NEW s \in Seq(S), s # <<>>
    PROVE  Among(s) = {Head(s)} \cup Among(Tail(s))
<1> DEFINE n == Len(s)
<1>1. n \in Nat \ {0} /\ DOMAIN s = 1..n /\ Head(s) = s[1]
  OBVIOUS
<1>2. DOMAIN Tail(s) = 1..n - 1 /\ \A k \in 1..n - 1 : Tail(s)[k] = s[k + 1]
  BY <1>1
<1> HIDE DEF n
<1>3. \A k \in 1..n : k = 1 \/ (k - 1 \in 1..n - 1 /\ (k - 1) + 1 = k)
  BY <1>1
<1>4. \A k \in 1..n - 1 : k + 1 \in 1..n
  BY <1>1
<1>5. \A k \in 1..n : s[k] = Head(s) \/ \E m \in 1..n - 1 : Tail(s)[m] = s[k]
  BY <1>1, <1>2, <1>3
<1>6. 1 \in 1..n
  BY <1>1
<1>7. {s[k] : k \in 1..n} = {Head(s)} \cup {Tail(s)[k] : k \in 1..n - 1}
  <2>1. ASSUME NEW c \in {s[k] : k \in 1..n}
        PROVE  c \in {Head(s)} \cup {Tail(s)[k] : k \in 1..n - 1}
    BY <1>5
  <2>2. ASSUME NEW c \in {Head(s)} \cup {Tail(s)[k] : k \in 1..n - 1}
        PROVE  c \in {s[k] : k \in 1..n}
    BY <1>1, <1>2, <1>4, <1>6
  <2> QED
    BY <2>1, <2>2
<1> QED
  BY <1>1, <1>2, <1>7 DEF Among

LEMMA TopCalled ==
    ASSUME GroupingTypeOK, CollectTop
    PROVE  \E i \in Insts :
              /\ Called(i, <<>>) /\ walk = <<>>
              /\ Among(tops) = {i} \cup Among(tops')
<1>1. tops \in Seq(Insts) /\ tops # <<>> /\ Head(tops) \in Insts
  BY DEF CollectTop, GroupingTypeOK
<1>2. Called(Head(tops), <<>>)
  BY <1>1 DEF CollectTop, Called
<1> QED
  BY <1>1, <1>2, Removing DEF CollectTop

LEMMA ChildCalled ==
    ASSUME GroupingTypeOK, CollectChild
    PROVE  \E i \in Insts, calls \in Seq(Frame) :
              /\ Called(i, calls) /\ tops' = tops
              /\ Len(walk) \in Nat \ {0} /\ Len(calls) = Len(walk)
              /\ \A m \in 1..Len(walk) - 1 : calls[m] = walk[m]
              /\ calls[Len(walk)].inst = walk[Len(walk)].inst
              /\ Among(walk[Len(walk)].kids) = {i} \cup Among(calls[Len(walk)].kids)
<1> DEFINE f == [Innermost EXCEPT !.kids = Tail(@)]
           n == Len(walk)
           calls == [walk EXCEPT ![n] = f]
<1>1. /\ walk \in Seq(Frame) /\ n \in 1..n /\ n \in Nat \ {0} /\ Innermost = walk[n]
      /\ Innermost \in Frame /\ Innermost.kids # <<>>
  BY DEF CollectChild, GroupingTypeOK, Innermost
<1>2. /\ Innermost.kids \in Seq(Insts)
      /\ Head(Innermost.kids) \in Insts /\ Tail(Innermost.kids) \in Seq(Insts)
  BY <1>1 DEF Frame
<1>3. f \in Frame /\ f.inst = Innermost.inst /\ f.kids = Tail(Innermost.kids)
  BY <1>1, <1>2 DEF Frame
<1>4. Among(Innermost.kids) = {Head(Innermost.kids)} \cup Among(f.kids)
  BY <1>1, <1>2, <1>3, Removing
<1>5. /\ calls \in Seq(Frame) /\ Len(calls) = n /\ calls[n] = f
      /\ \A m \in 1..n - 1 : calls[m] = walk[m]
  <2> HIDE DEF f
  <2>1. calls \in Seq(Frame) /\ Len(calls) = n
        /\ \A m \in 1..n : calls[m] = IF m = n THEN f ELSE walk[m]
    BY <1>1, <1>3, ExceptSeq
  <2>2. \A m \in 1..n - 1 : m \in 1..n /\ m # n
    BY <1>1
  <2> QED
    BY <1>1, <2>1, <2>2
<1>6. Called(Head(Innermost.kids), calls) /\ tops' = tops
  BY <1>2, <1>5 DEF CollectChild, Called
<1> HIDE DEF f, calls
<1> QED
  BY <1>1, <1>2, <1>3, <1>4, <1>5, <1>6

\* What a call leaves open.
LEMMA CallOpens ==
    ASSUME GroupingTypeOK, NEW i, NEW calls, Called(i, calls)
    PROVE  /\ i \in Insts /\ design' = design /\ grouped' = grouped \cup {i}
           /\ Len(calls) \in Nat
           /\ \A m \in 1..Len(calls) : walk'[m] = calls[m]
           /\ Key(i) \in onPath => Len(walk') = Len(calls)
           /\ Key(i) \notin onPath =>
                /\ Len(walk') = Len(calls) + 1
                /\ walk'[Len(calls) + 1] = [inst |-> i, kids |-> design.kids[i]]
<1>1. calls \in Seq(Frame) /\ i \in Insts /\ design.kids[i] \in Seq(Insts)
  BY OfDesign DEF Called
<1>2. [inst |-> i, kids |-> design.kids[i]] \in Frame
  BY <1>1 DEF Frame
<1>3. design' = design /\ grouped' = grouped \cup {i}
  BY DEF Called, Collect
<1>4. CASE Key(i) \in onPath
  BY <1>1, <1>3, <1>4 DEF Called, Collect
<1>5. CASE Key(i) \notin onPath
  <2>1. walk' = Append(calls, [inst |-> i, kids |-> design.kids[i]])
    BY <1>5 DEF Called, Collect
  <2> QED
    BY <1>1, <1>2, <1>3, <1>5, <2>1
<1> QED
  BY <1>4, <1>5

\* Every child of j was visited, or is yet to be by an open call of j.
Followed(j) ==
    \A c \in Among(design.kids[j]) :
        \/ c \in grouped
        \/ \E m \in 1..Len(walk) : walk[m].inst = j /\ c \in Among(walk[m].kids)

KidsInv ==
    /\ \A m \in 1..Len(walk) : walk[m].inst \in grouped
    /\ \A i \in grouped : \E j \in grouped : Key(j) = Key(i) /\ Followed(j)

LEMMA KidsCalled ==
    ASSUME PathInv, KidsInv, NEW i, NEW calls, Called(i, calls), Len(calls) = Len(walk),
           \A m \in 1..Len(walk) : /\ calls[m].inst = walk[m].inst
                                   /\ Among(walk[m].kids) \subseteq {i} \cup Among(calls[m].kids)
    PROVE  KidsInv'
<1> DEFINE n == Len(walk)
<1>1. /\ i \in Insts /\ design' = design /\ grouped' = grouped \cup {i} /\ n \in Nat
      /\ \A m \in 1..n : walk'[m] = calls[m]
      /\ Key(i) \in onPath => Len(walk') = n
      /\ Key(i) \notin onPath =>
           Len(walk') = n + 1 /\ walk'[n + 1] = [inst |-> i, kids |-> design.kids[i]]
  BY CallOpens DEF PathInv
<1>2. Len(walk') \in {n, n + 1} /\ \A m \in 1..n : m \in 1..Len(walk')
  BY <1>1
<1>3. \A j : Key(j)' = Key(j)
  BY <1>1 DEF Key
<1>4. ASSUME NEW m \in 1..Len(walk') PROVE walk'[m].inst \in grouped'
  <2>1. CASE m \in 1..n
    BY <1>1, <2>1 DEF KidsInv
  <2>2. CASE m \notin 1..n
    BY <1>1, <1>2, <2>2
  <2> QED
    BY <2>1, <2>2
<1>5. ASSUME NEW j, Followed(j) PROVE Followed(j)'
  <2>1. ASSUME NEW c \in Among(design.kids[j])
        PROVE  \/ c \in grouped'
               \/ \E m \in 1..Len(walk') : walk'[m].inst = j /\ c \in Among(walk'[m].kids)
    <3>1. CASE c \in grouped
      BY <1>1, <3>1
    <3>2. CASE \E m \in 1..n : walk[m].inst = j /\ c \in Among(walk[m].kids)
      <4>1. PICK m \in 1..n : walk[m].inst = j /\ c \in Among(walk[m].kids)
        BY <3>2
      <4>2. c = i \/ c \in Among(walk'[m].kids)
        BY <1>1, <4>1
      <4>3. walk'[m].inst = j
        BY <1>1, <4>1
      <4> QED
        BY <1>1, <1>2, <4>2, <4>3
    <3> QED
      BY <1>5, <2>1, <3>1, <3>2 DEF Followed
  <2>2. Among(design.kids[j])' = Among(design.kids[j])
    BY <1>1 DEF Among
  <2>3. \A m : Among(walk[m].kids)' = Among(walk'[m].kids)
    BY DEF Among
  <2> QED
    BY <2>1, <2>2, <2>3 DEF Followed
<1>6. ASSUME NEW k \in grouped PROVE \E j \in grouped' : Key(j) = Key(k) /\ Followed(j)'
  BY <1>1, <1>5 DEF KidsInv
<1>7. \E j \in grouped' : Key(j) = Key(i) /\ Followed(j)'
  <2>1. CASE Key(i) \in onPath
    <3>1. PICK m \in 1..n : Key(walk[m].inst) = Key(i)
      BY <2>1 DEF PathInv, PathIsOpenCalls
    <3>2. walk[m].inst \in grouped
      BY DEF KidsInv
    <3> QED
      BY <1>6, <3>1, <3>2
  <2>2. CASE Key(i) \notin onPath
    <3>1. n + 1 \in 1..Len(walk') /\ walk'[n + 1].inst = i /\ walk'[n + 1].kids = design'.kids[i]
      BY <1>1, <2>2
    <3>2. \A m : Among(walk[m].kids)' = Among(walk'[m].kids)
      BY DEF Among
    <3>3. Among(design.kids[i])' = Among(design'.kids[i])
      BY DEF Among
    <3>4. Followed(i)'
      BY <3>1, <3>2, <3>3 DEF Followed
    <3> QED
      BY <1>1, <3>4
  <2> QED
    BY <2>1, <2>2
<1>8. \A k \in grouped' : \E j \in grouped' : Key(j)' = Key(k)' /\ Followed(j)'
  BY <1>1, <1>3, <1>6, <1>7
<1> QED
  BY <1>4, <1>8 DEF KidsInv

LEMMA KidsStep == PathInv /\ KidsInv /\ [Next]_vars => KidsInv'
<1> SUFFICES ASSUME PathInv, KidsInv, [Next]_vars PROVE KidsInv'
  OBVIOUS
<1> GroupingTypeOK
  BY DEF PathInv
<1>0. \A m : Among(walk[m].kids)' = Among(walk'[m].kids)
  BY DEF Among
<1>1. CASE UNCHANGED groupingVars
  <2>1. UNCHANGED <<design, walk, grouped>>
    BY <1>1 DEF groupingVars
  <2>2. \A j : Key(j)' = Key(j) /\ Followed(j)' = Followed(j)
    BY <2>1 DEF Key, Followed, Among
  <2> QED
    BY <2>1, <2>2 DEF KidsInv
<1>2. CASE CollectTop
  <2>1. PICK i \in Insts : Called(i, <<>>) /\ walk = <<>>
    BY <1>2, TopCalled
  <2>2. Len(<<>>) = Len(walk) /\ 1..Len(walk) = {}
    BY <2>1
  <2> QED
    BY <2>1, <2>2, KidsCalled
<1>3. CASE CollectChild
  <2>1. PICK i \in Insts, calls \in Seq(Frame) :
              /\ Called(i, calls) /\ tops' = tops
              /\ Len(walk) \in Nat \ {0} /\ Len(calls) = Len(walk)
              /\ \A m \in 1..Len(walk) - 1 : calls[m] = walk[m]
              /\ calls[Len(walk)].inst = walk[Len(walk)].inst
              /\ Among(walk[Len(walk)].kids) = {i} \cup Among(calls[Len(walk)].kids)
    BY <1>3, ChildCalled
  <2>2. ASSUME NEW m \in 1..Len(walk)
        PROVE  /\ calls[m].inst = walk[m].inst
               /\ Among(walk[m].kids) \subseteq {i} \cup Among(calls[m].kids)
    <3>1. m = Len(walk) \/ m \in 1..Len(walk) - 1
      BY <2>1
    <3> QED
      BY <2>1, <3>1
  <2> QED
    BY <2>1, <2>2, KidsCalled
<1>4. CASE LeaveInstance
  <2> DEFINE n == Len(walk)
  <2>1. /\ n \in Nat \ {0} /\ walk \in Seq(Frame) /\ walk' = SubSeq(walk, 1, n - 1)
        /\ UNCHANGED <<design, grouped>> /\ walk[n].kids = <<>>
    BY <1>4 DEF LeaveInstance, Innermost, GroupingTypeOK
  <2>2. Len(walk') = n - 1 /\ \A m \in 1..n - 1 : walk'[m] = walk[m]
    BY <2>1, WithoutLast
  <2>3. Among(walk[n].kids) = {}
    BY <2>1 DEF Among
  <2> HIDE DEF n
  <2>4. \A m \in 1..n : m \in 1..n - 1 \/ m = n
    BY <2>1
  <2>5. \A m \in 1..n - 1 : m \in 1..n
    BY <2>1
  <2>6. n = Len(walk)
    BY DEF n
  <2>8. ASSUME NEW j, Followed(j) PROVE Followed(j)'
    <3>1. \A c \in Among(design.kids[j]) :
            \/ c \in grouped
            \/ \E m \in 1..n : walk[m].inst = j /\ c \in Among(walk[m].kids)
      BY <2>6, <2>8 DEF Followed
    <3>2. \A c \in Among(design.kids[j]) :
            \/ c \in grouped
            \/ \E m \in 1..n - 1 : walk'[m].inst = j /\ c \in Among(walk'[m].kids)
      BY <2>2, <2>3, <2>4, <3>1
    <3>3. Among(design.kids[j])' = Among(design.kids[j])
      BY <2>1 DEF Among
    <3> QED
      BY <1>0, <2>1, <2>2, <3>2, <3>3 DEF Followed
  <2>9. \A j : Key(j)' = Key(j)
    BY <2>1 DEF Key
  <2>10. \A m \in 1..n - 1 : walk'[m].inst \in grouped
    BY <2>2, <2>5, <2>6 DEF KidsInv
  <2>11. \A i \in grouped : \E j \in grouped : Key(j)' = Key(i)' /\ Followed(j)'
    BY <2>8, <2>9 DEF KidsInv
  <2> QED
    BY <2>1, <2>2, <2>10, <2>11 DEF KidsInv
<1> QED
  BY <1>1, <1>2, <1>3, <1>4, BuildingKeeps DEF Grouping

LEMMA KidsInit == TemplatesInit => KidsInv
<1> SUFFICES ASSUME TemplatesInit PROVE KidsInv
  OBVIOUS
<1>1. walk = <<>> /\ grouped = {}
  BY DEF TemplatesInit, Init
<1>2. 1..Len(walk) = {}
  BY <1>1
<1> QED
  BY <1>1, <1>2 DEF KidsInv

-----------------------------------------------------------------------------
(***************************************************************************)
(* What Met says of one occurrence, and what of a tree is yet to be met.    *)
(***************************************************************************)
Reach(M, s, above) == UNION {M[<<c, above>>] : c \in Among(s)}

Unfolds(M) ==
    \A i \in Insts, above \in SUBSET Keys :
        M[<<i, above>>] = {i} \cup IF Key(i) \in above THEN {}
                               ELSE Reach(M, design.kids[i], above \cup {Key(i)})

Above(m) == {Key(walk[n].inst) : n \in 1..m}
Open(M, m) == Reach(M, walk[m].kids, Above(m))
Pending(M) == Reach(M, tops, {}) \cup UNION {Open(M, m) : m \in 1..Len(walk)}

TreeInv ==
    \A M : Unfolds(M) => grouped \cup Pending(M) = Reach(M, design.tops, {})

LEMMA OpenUnchanged ==
    ASSUME NEW M, NEW m \in Nat, design' = design,
           \A n \in 1..m : walk'[n].inst = walk[n].inst
    PROVE  Open(M, m)' = Reach(M, walk'[m].kids, Above(m))
<1>1. \A j : Key(j)' = Key(j)
  BY DEF Key
<1>2. Above(m)' = Above(m)
  BY <1>1 DEF Above
<1> QED
  BY <1>2 DEF Open, Reach, Among

LEMMA UnionUpTo ==
    ASSUME NEW n \in Nat, NEW U
    PROVE  UNION {U[m] : m \in 1..n + 1} = (UNION {U[m] : m \in 1..n}) \cup U[n + 1]
<1>1. \A m \in 1..n + 1 : m \in 1..n \/ m = n + 1
  OBVIOUS
<1>2. \A m \in 1..n : m \in 1..n + 1
  OBVIOUS
<1>3. n + 1 \in 1..n + 1
  OBVIOUS
<1>4. \A x : x \in UNION {U[m] : m \in 1..n + 1} <=> \E m \in 1..n + 1 : x \in U[m]
  OBVIOUS
<1>5. \A x : x \in UNION {U[m] : m \in 1..n} <=> \E m \in 1..n : x \in U[m]
  OBVIOUS
<1>6. ASSUME NEW x
      PROVE  (\E m \in 1..n + 1 : x \in U[m]) <=> (\E m \in 1..n : x \in U[m]) \/ x \in U[n + 1]
  BY <1>1, <1>2, <1>3
<1> DEFINE all == UNION {U[m] : m \in 1..n + 1}
           most == UNION {U[m] : m \in 1..n}
<1> HIDE DEF all, most
<1>7. \A x : x \in all <=> x \in most \/ x \in U[n + 1]
  BY <1>4, <1>5, <1>6 DEF all, most
<1>8. all = most \cup U[n + 1]
  BY ONLY <1>7
<1> QED
  BY <1>8 DEF all, most

LEMMA TreeCalled ==
    ASSUME PathInv, TreeInv, NEW i, NEW calls, Called(i, calls),
           Len(calls) = Len(walk), \A m \in 1..Len(walk) : calls[m].inst = walk[m].inst,
           \A M : Unfolds(M) =>
              Pending(M) = M[<<i, onPath>>] \cup Reach(M, tops', {})
                             \cup UNION {Reach(M, calls[m].kids, Above(m)) : m \in 1..Len(walk)}
    PROVE  TreeInv'
<1>n. PICK n : n = Len(walk)
  OBVIOUS
<1>1. /\ i \in Insts /\ design' = design /\ grouped' = grouped \cup {i} /\ n \in Nat
      /\ \A m \in 1..n : walk'[m] = calls[m]
      /\ Key(i) \in onPath => Len(walk') = n
      /\ Key(i) \notin onPath =>
           Len(walk') = n + 1 /\ walk'[n + 1] = [inst |-> i, kids |-> design.kids[i]]
  BY <1>n, CallOpens DEF PathInv
<1>2. onPath \in SUBSET Keys /\ onPath = Above(n)
  BY <1>n DEF PathInv, GroupingTypeOK, PathIsOpenCalls, Above
<1>3. \A j : Key(j)' = Key(j)
  BY <1>1 DEF Key
<1>4. SUFFICES ASSUME NEW M, Unfolds(M)'
               PROVE  grouped' \cup Pending(M)' = Reach(M, design'.tops, {})
  BY DEF TreeInv, Reach, Among
<1>5. Unfolds(M)
  <2>1. ASSUME NEW j \in Insts, NEW above \in SUBSET Keys
        PROVE  M[<<j, above>>] = {j} \cup IF Key(j) \in above THEN {}
                                    ELSE Reach(M, design.kids[j], above \cup {Key(j)})
    <3>1. Reach(M, design.kids[j], above \cup {Key(j)})'
            = Reach(M, design.kids[j], above \cup {Key(j)})
      BY <1>1 DEF Reach, Among, Key
    <3>2. M[<<j, above>>] = {j} \cup IF Key(j)' \in above THEN {}
                                ELSE Reach(M, design.kids[j], above \cup {Key(j)})'
      BY <1>4, <2>1 DEF Unfolds
    <3> QED
      BY <1>3, <3>1, <3>2
  <2> QED
    BY <2>1 DEF Unfolds
<1> DEFINE rest == UNION {Reach(M, calls[m].kids, Above(m)) : m \in 1..n}
           below == IF Key(i) \in onPath THEN {}
                    ELSE Reach(M, design.kids[i], onPath \cup {Key(i)})
<1>6. M[<<i, onPath>>] = {i} \cup below
  BY <1>1, <1>2, <1>5 DEF Unfolds
<1>7. Pending(M) = M[<<i, onPath>>] \cup Reach(M, tops', {}) \cup rest
  BY <1>n, <1>5
<1>8. \A m \in 1..n : Open(M, m)' = Reach(M, calls[m].kids, Above(m))
  <2>1. ASSUME NEW m \in 1..n PROVE Open(M, m)' = Reach(M, calls[m].kids, Above(m))
    <3>1. m \in Nat /\ \A p \in 1..m : p \in 1..n
      BY <1>1
    <3>2. \A p \in 1..m : walk'[p].inst = walk[p].inst
      BY <1>n, <1>1, <3>1
    <3>3. Open(M, m)' = Reach(M, walk'[m].kids, Above(m))
      BY <1>1, <3>1, <3>2, OpenUnchanged
    <3> QED
      BY <1>1, <3>3
  <2> QED
    BY <2>1
<1>9. UNION {Open(M, m)' : m \in 1..Len(walk')} = rest \cup below
  <2>1. CASE Key(i) \in onPath
    BY <1>1, <1>8, <2>1
  <2>2. CASE Key(i) \notin onPath
    <3>1. Len(walk') = n + 1 /\ walk'[n + 1].inst = i /\ walk'[n + 1].kids = design.kids[i]
      BY <1>1, <2>2
    <3>2. \A m \in 1..n + 1 : m \in 1..n \/ m = n + 1
      BY <1>1
    <3>3. \A m \in 1..n : m \in 1..n + 1
      BY <1>1
    <3>4. n + 1 \in 1..n + 1
      BY <1>1
    <3>5. Above(n + 1)' = onPath \cup {Key(i)}
      <4>1. \A m \in 1..n : walk'[m].inst = walk[m].inst
        BY <1>n, <1>1
      <4>2. {Key(walk'[m].inst) : m \in 1..n + 1} = {Key(walk[m].inst) : m \in 1..n} \cup {Key(i)}
        BY <3>1, <3>2, <3>3, <3>4, <4>1
      <4> QED
        BY <1>2, <1>3, <4>2 DEF Above
    <3>6. Open(M, n + 1)' = Reach(M, walk'[n + 1].kids, Above(n + 1)')
      BY DEF Open, Reach, Among
    <3>7. Open(M, n + 1)' = below
      BY <2>2, <3>1, <3>5, <3>6
    <3>8. UNION {Open(M, m)' : m \in 1..n + 1} = (UNION {Open(M, m)' : m \in 1..n}) \cup Open(M, n + 1)'
      <4> DEFINE U == [m \in 1..n + 1 |-> Open(M, m)']
      <4>1. \A m \in 1..n + 1 : U[m] = Open(M, m)'
        OBVIOUS
      <4> HIDE DEF U
      <4>2. UNION {U[m] : m \in 1..n + 1} = (UNION {U[m] : m \in 1..n}) \cup U[n + 1]
        BY <1>1, UnionUpTo
      <4>3. {U[m] : m \in 1..n + 1} = {Open(M, m)' : m \in 1..n + 1}
        BY <4>1
      <4>4. {U[m] : m \in 1..n} = {Open(M, m)' : m \in 1..n}
        BY <3>3, <4>1
      <4>5. U[n + 1] = Open(M, n + 1)'
        BY <3>4, <4>1
      <4> QED
        BY <4>2, <4>3, <4>4, <4>5
    <3>9. UNION {Open(M, m)' : m \in 1..n} = rest
      BY <1>8
    <3> HIDE DEF below, rest
    <3>10. UNION {Open(M, m)' : m \in 1..n + 1} = rest \cup below
      <4> DEFINE all == UNION {Open(M, m)' : m \in 1..n + 1}
                 most == UNION {Open(M, m)' : m \in 1..n}
                 last == Open(M, n + 1)'
      <4>1. all = most \cup last /\ most = rest /\ last = below
        BY <3>7, <3>8, <3>9
      <4> HIDE DEF all, most, last
      <4>2. all = rest \cup below
        BY <4>1
      <4> QED
        BY <4>2 DEF all
    <3> QED
      BY <3>1, <3>10
  <2> QED
    BY <2>1, <2>2
<1>10. Pending(M)' = Reach(M, tops', {}) \cup rest \cup below
  <2>1. Pending(M)' = Reach(M, tops', {}) \cup UNION {Open(M, m)' : m \in 1..Len(walk')}
    BY DEF Pending, Reach, Among
  <2> HIDE DEF rest, below
  <2> QED
    BY <1>9, <2>1
<1>11. grouped \cup Pending(M) = Reach(M, design'.tops, {})
  BY <1>1, <1>5 DEF TreeInv
<1> HIDE DEF rest, below
<1> QED
  BY <1>1, <1>6, <1>7, <1>10, <1>11

LEMMA TreeStep == PathInv /\ TreeInv /\ [Next]_vars => TreeInv'
<1> SUFFICES ASSUME PathInv, TreeInv, [Next]_vars PROVE TreeInv'
  OBVIOUS
<1> GroupingTypeOK
  BY DEF PathInv
<1>0. \A j : design' = design => Key(j)' = Key(j)
  BY DEF Key
<1>1. CASE UNCHANGED groupingVars
  <2>1. UNCHANGED <<design, tops, walk, grouped>>
    BY <1>1 DEF groupingVars
  <2>2. \A M : Unfolds(M)' <=> Unfolds(M)
    BY <2>1 DEF Unfolds, Reach, Among, Key
  <2>3. \A M : /\ Reach(M, design.tops, {})' = Reach(M, design.tops, {})
               /\ Reach(M, tops, {})' = Reach(M, tops, {})
    BY <2>1 DEF Reach, Among
  <2>4. \A M : \A m : Open(M, m)' = Open(M, m)
    BY <2>1 DEF Open, Reach, Among, Above, Key
  <2>5. \A M : Pending(M)' = Pending(M)
    BY <2>1, <2>3, <2>4 DEF Pending
  <2> QED
    BY <2>1, <2>2, <2>3, <2>5 DEF TreeInv
<1>2. CASE CollectTop
  <2>1. PICK i \in Insts :
           /\ Called(i, <<>>) /\ walk = <<>>
           /\ Among(tops) = {i} \cup Among(tops')
    BY <1>2, TopCalled
  <2>2. Len(<<>>) = Len(walk) /\ 1..Len(walk) = {} /\ onPath = {}
    BY <2>1 DEF PathInv, PathIsOpenCalls
  <2>3. ASSUME NEW M
        PROVE  Pending(M) = M[<<i, onPath>>] \cup Reach(M, tops', {})
                 \cup UNION {Reach(M, <<>>[m].kids, Above(m)) : m \in 1..Len(walk)}
    <3>1. Reach(M, tops, {}) = M[<<i, {}>>] \cup Reach(M, tops', {})
      BY <2>1 DEF Reach
    <3> QED
      BY <2>2, <3>1 DEF Pending
  <2> QED
    BY <2>1, <2>2, <2>3, TreeCalled
<1>3. CASE CollectChild
  <2>1. PICK i \in Insts, calls \in Seq(Frame) :
              /\ Called(i, calls) /\ tops' = tops
              /\ Len(walk) \in Nat \ {0} /\ Len(calls) = Len(walk)
              /\ \A m \in 1..Len(walk) - 1 : calls[m] = walk[m]
              /\ calls[Len(walk)].inst = walk[Len(walk)].inst
              /\ Among(walk[Len(walk)].kids) = {i} \cup Among(calls[Len(walk)].kids)
    BY <1>3, ChildCalled
  <2>2. PICK n \in Nat : Len(walk) = n + 1
    <3>1. Len(walk) - 1 \in Nat /\ Len(walk) = (Len(walk) - 1) + 1
      BY <2>1
    <3> QED
      BY <3>1
  <2>3. \A m \in 1..n : calls[m] = walk[m]
    BY <2>1, <2>2
  <2>4. \A m \in 1..Len(walk) : calls[m].inst = walk[m].inst
    <3>1. \A m \in 1..n + 1 : m \in 1..n \/ m = n + 1
      OBVIOUS
    <3> QED
      BY <2>1, <2>2, <2>3, <3>1
  <2>5. onPath = Above(n + 1)
    BY <2>2 DEF PathInv, PathIsOpenCalls, Above
  <2>6. ASSUME NEW M
        PROVE  Pending(M) = M[<<i, onPath>>] \cup Reach(M, tops', {})
                 \cup UNION {Reach(M, calls[m].kids, Above(m)) : m \in 1..Len(walk)}
    <3> DEFINE U == [m \in 1..n + 1 |-> Open(M, m)]
               V == [m \in 1..n + 1 |-> Reach(M, calls[m].kids, Above(m))]
    <3>1. \A m \in 1..n : m \in 1..n + 1 /\ U[m] = V[m]
      BY <2>3 DEF Open
    <3>2. n + 1 \in 1..n + 1
      OBVIOUS
    <3>3. /\ U[n + 1] = Reach(M, walk[n + 1].kids, onPath)
          /\ V[n + 1] = Reach(M, calls[n + 1].kids, onPath)
      BY <2>5, <3>2 DEF Open
    <3>4. U[n + 1] = M[<<i, onPath>>] \cup V[n + 1]
      <4>1. Among(walk[n + 1].kids) = {i} \cup Among(calls[n + 1].kids)
        BY <2>1, <2>2
      <4> HIDE DEF U, V
      <4> QED
        BY <3>3, <4>1 DEF Reach
    <3>5. /\ {Open(M, m) : m \in 1..Len(walk)} = {U[m] : m \in 1..n + 1}
          /\ {Reach(M, calls[m].kids, Above(m)) : m \in 1..Len(walk)} = {V[m] : m \in 1..n + 1}
      BY <2>2
    <3> HIDE DEF U, V
    <3>6. /\ UNION {U[m] : m \in 1..n + 1} = (UNION {U[m] : m \in 1..n}) \cup U[n + 1]
          /\ UNION {V[m] : m \in 1..n + 1} = (UNION {V[m] : m \in 1..n}) \cup V[n + 1]
      BY UnionUpTo
    <3>7. {U[m] : m \in 1..n} = {V[m] : m \in 1..n}
      BY <3>1
    <3>8. UNION {U[m] : m \in 1..n + 1} = M[<<i, onPath>>] \cup UNION {V[m] : m \in 1..n + 1}
      <4> DEFINE us == UNION {U[m] : m \in 1..n + 1}
                 vs == UNION {V[m] : m \in 1..n + 1}
                 before == UNION {V[m] : m \in 1..n}
      <4>1. us = before \cup U[n + 1] /\ vs = before \cup V[n + 1]
        BY <3>6, <3>7
      <4> HIDE DEF us, vs, before
      <4>2. us = M[<<i, onPath>>] \cup vs
        BY <3>4, <4>1
      <4> QED
        BY <4>2 DEF us, vs
    <3>9. Pending(M) = Reach(M, tops', {}) \cup UNION {U[m] : m \in 1..n + 1}
      BY <2>1, <3>5 DEF Pending
    <3> QED
      BY <3>5, <3>8, <3>9
  <2> QED
    BY <2>1, <2>4, <2>6, TreeCalled
<1>4. CASE LeaveInstance
  <2>1. /\ Len(walk) \in Nat \ {0} /\ walk \in Seq(Frame)
        /\ walk' = SubSeq(walk, 1, Len(walk) - 1)
        /\ UNCHANGED <<design, tops, grouped>> /\ walk[Len(walk)].kids = <<>>
    BY <1>4 DEF LeaveInstance, Innermost, GroupingTypeOK
  <2>2. PICK n \in Nat : Len(walk) = n + 1 /\ Len(walk) - 1 = n
    <3>1. Len(walk) - 1 \in Nat /\ Len(walk) = (Len(walk) - 1) + 1
      BY <2>1
    <3> QED
      BY <3>1
  <2>3. Len(walk') = n /\ \A m \in 1..n : walk'[m] = walk[m]
    BY <2>1, <2>2, WithoutLast
  <2>4. ASSUME NEW M PROVE Pending(M)' = Pending(M)
    <3> DEFINE U == [m \in 1..n + 1 |-> Open(M, m)]
    <3>1. ASSUME NEW m \in 1..n PROVE Open(M, m)' = U[m]
      <4>1. m \in Nat /\ m \in 1..n + 1 /\ \A p \in 1..m : p \in 1..n
        OBVIOUS
      <4>2. Open(M, m)' = Reach(M, walk'[m].kids, Above(m))
        BY <2>1, <2>3, <4>1, OpenUnchanged
      <4> QED
        BY <2>3, <4>1, <4>2 DEF Open
    <3>2. U[n + 1] = {}
      <4>1. n + 1 \in 1..n + 1 /\ Among(walk[n + 1].kids) = {}
        BY <2>1, <2>2 DEF Among
      <4> QED
        BY <4>1 DEF Open, Reach
    <3>3. {Open(M, m) : m \in 1..Len(walk)} = {U[m] : m \in 1..n + 1}
      BY <2>2
    <3> HIDE DEF U
    <3>4. {Open(M, m)' : m \in 1..Len(walk')} = {U[m] : m \in 1..n}
      BY <2>3, <3>1
    <3>5. UNION {U[m] : m \in 1..n + 1} = (UNION {U[m] : m \in 1..n}) \cup U[n + 1]
      BY UnionUpTo
    <3>6. Pending(M)' = Reach(M, tops', {}) \cup UNION {Open(M, m)' : m \in 1..Len(walk')}
      BY DEF Pending, Reach, Among
    <3>7. Pending(M) = Reach(M, tops, {}) \cup UNION {Open(M, m) : m \in 1..Len(walk)}
      BY DEF Pending
    <3> QED
      BY <2>1, <3>2, <3>3, <3>4, <3>5, <3>6, <3>7
  <2>5. \A M : Unfolds(M)' <=> Unfolds(M)
    BY <2>1 DEF Unfolds, Reach, Among, Key
  <2>6. \A M : Reach(M, design.tops, {})' = Reach(M, design.tops, {})
    BY <2>1 DEF Reach, Among
  <2> QED
    BY <2>1, <2>4, <2>5, <2>6 DEF TreeInv
<1> QED
  BY <1>1, <1>2, <1>3, <1>4, BuildingKeeps DEF Grouping

LEMMA TreeInit == TemplatesInit => TreeInv
<1> SUFFICES ASSUME TemplatesInit PROVE TreeInv
  OBVIOUS
<1>1. tops = design.tops /\ walk = <<>> /\ grouped = {}
  BY DEF TemplatesInit, Init
<1>2. 1..Len(walk) = {}
  BY <1>1
<1>3. \A M : Pending(M) = Reach(M, design.tops, {})
  BY <1>1, <1>2 DEF Pending
<1> QED
  BY <1>1, <1>3 DEF TreeInv

-----------------------------------------------------------------------------
(***************************************************************************)
(* Met is defined: with each key above, there are fewer below.              *)
(***************************************************************************)
Places == Insts \X SUBSET Keys
OneStep(M, p) ==
    {p[1]} \cup IF Key(p[1]) \in p[2] THEN {}
                ELSE UNION {M[<<design.kids[p[1]][n], p[2] \cup {Key(p[1])}>>] :
                                n \in DOMAIN design.kids[p[1]]}
Upto(n) == {p \in Places : Cardinality(Keys \ p[2]) <= n}
Solves(M, n) == \A p \in Upto(n) : M[p] = OneStep(M, p)

LEMMA RoomShrinks ==
    ASSUME GroupingTypeOK, IsFiniteSet(Keys), NEW n \in Nat, NEW p \in Upto(n),
           Key(p[1]) \notin p[2], NEW m \in DOMAIN design.kids[p[1]]
    PROVE  n - 1 \in Nat /\ <<design.kids[p[1]][m], p[2] \cup {Key(p[1])}>> \in Upto(n - 1)
<1> DEFINE i == p[1]
           above == p[2]
           S == Keys \ above
<1>1. i \in Insts /\ above \in SUBSET Keys /\ Cardinality(S) <= n
  BY DEF Upto, Places
<1>2. Key(i) \in S /\ design.kids[i] \in Seq(Insts)
  BY <1>1, OfDesign
<1>3. design.kids[i][m] \in Insts
  BY <1>2
<1>4. IsFiniteSet(S)
  BY FS_Subset
<1>5. Keys \ (above \cup {Key(i)}) = S \ {Key(i)}
  OBVIOUS
<1>6. Cardinality(S \ {Key(i)}) = Cardinality(S) - 1
  BY <1>2, <1>4, FS_RemoveElement
<1>7. Cardinality(S) \in Nat /\ Cardinality(S \ {Key(i)}) \in Nat
  BY <1>4, FS_CardinalityType, FS_RemoveElement, <1>2
<1>8. n - 1 \in Nat /\ Cardinality(S \ {Key(i)}) <= n - 1
  BY <1>1, <1>6, <1>7
<1>9. above \cup {Key(i)} \in SUBSET Keys
  BY <1>1, <1>2
<1> QED
  BY <1>3, <1>5, <1>8, <1>9 DEF Upto, Places

LEMMA Solvable ==
    ASSUME GroupingTypeOK, IsFiniteSet(Keys), NEW n \in Nat
    PROVE  \E M : Solves(M, n)
<1> DEFINE S == {k \in Nat : ~\E M : Solves(M, k)}
<1> SUFFICES ASSUME S # {} PROVE FALSE
  OBVIOUS
<1>1. PICK k \in S : \A m \in S : ~(<<m, k>> \in OpToRel(<, Nat))
  BY WFMin, NatLessThanWellFounded
<1>2. \A m \in S : ~(m < k)
  BY <1>1 DEF OpToRel
<1>3. k \in Nat /\ ~\E M : Solves(M, k)
  BY <1>1
<1>4. k = 0 \/ (k - 1 \in Nat /\ k - 1 < k)
  BY <1>3
<1>5. PICK M : k # 0 => Solves(M, k - 1)
  BY <1>2, <1>4
<1> DEFINE N == [p \in Places |-> IF k # 0 /\ p \in Upto(k - 1) THEN M[p] ELSE OneStep(M, p)]
<1>6. ASSUME NEW p \in Upto(k) PROVE N[p] = OneStep(N, p)
  <2>1. p \in Places
    BY DEF Upto
  <2>2. OneStep(N, p) = OneStep(M, p)
    <3>1. CASE Key(p[1]) \in p[2]
      BY <3>1 DEF OneStep
    <3>2. CASE Key(p[1]) \notin p[2]
      <4>1. ASSUME NEW m \in DOMAIN design.kids[p[1]]
            PROVE  N[<<design.kids[p[1]][m], p[2] \cup {Key(p[1])}>>]
                     = M[<<design.kids[p[1]][m], p[2] \cup {Key(p[1])}>>]
        <5> DEFINE q == <<design.kids[p[1]][m], p[2] \cup {Key(p[1])}>>
        <5>1. k - 1 \in Nat /\ q \in Upto(k - 1)
          BY <1>3, <3>2, RoomShrinks
        <5>2. k # 0 /\ q \in Places
          BY <1>3, <5>1 DEF Upto
        <5> HIDE DEF q
        <5> QED
          BY <5>1, <5>2 DEF q
      <4> HIDE DEF N
      <4> QED
        BY <4>1 DEF OneStep
    <3> QED
      BY <3>1, <3>2
  <2>3. k # 0 /\ p \in Upto(k - 1) => M[p] = OneStep(M, p)
    BY <1>5 DEF Solves
  <2> QED
    BY <2>1, <2>2, <2>3
<1> QED
  BY <1>3, <1>6 DEF Solves

LEMMA MetUnfolds ==
    ASSUME GroupingTypeOK, IsFiniteSet(Keys)
    PROVE  Unfolds(Met)
<1>1. Cardinality(Keys) \in Nat
  BY FS_CardinalityType
<1>2. PICK M : Solves(M, Cardinality(Keys))
  BY <1>1, Solvable
<1>3. \A p \in Places : p \in Upto(Cardinality(Keys))
  BY FS_Subset DEF Upto, Places
<1> DEFINE F == [p \in Places |-> M[p]]
<1>4. \A p \in Places : F[p] = OneStep(F, p)
  <2>1. ASSUME NEW p \in Places PROVE F[p] = OneStep(F, p)
    <3>1. p[1] \in Insts /\ p[2] \in SUBSET Keys
      BY DEF Places
    <3>2. Key(p[1]) \in Keys /\ design.kids[p[1]] \in Seq(Insts)
      BY <3>1, OfDesign
    <3>3. \A m \in DOMAIN design.kids[p[1]] :
             <<design.kids[p[1]][m], p[2] \cup {Key(p[1])}>> \in Places
      BY <3>1, <3>2 DEF Places
    <3>4. \A m \in DOMAIN design.kids[p[1]] :
             F[<<design.kids[p[1]][m], p[2] \cup {Key(p[1])}>>]
               = M[<<design.kids[p[1]][m], p[2] \cup {Key(p[1])}>>]
      BY <3>3
    <3>5. M[p] = OneStep(M, p)
      BY <1>2, <1>3 DEF Solves
    <3>6. F[p] = M[p]
      OBVIOUS
    <3> HIDE DEF F
    <3>7. OneStep(M, p) = OneStep(F, p)
      BY <3>4 DEF OneStep
    <3> QED
      BY <3>5, <3>6, <3>7
  <2> QED
    BY <2>1
<1>5. F = [p \in Places |-> OneStep(F, p)]
  <2>1. F = [p \in Places |-> F[p]]
    OBVIOUS
  <2> HIDE DEF F
  <2> QED
    BY <1>4, <2>1
<1> HIDE DEF F
<1>6. Met = CHOOSE G : G = [p \in Places |-> OneStep(G, p)]
  BY Zenon DEF Met, Places, OneStep
<1>7. Met = [p \in Places |-> OneStep(Met, p)]
  BY <1>5, <1>6
<1>8. ASSUME NEW i \in Insts, NEW above \in SUBSET Keys
      PROVE  Met[<<i, above>>] = {i} \cup IF Key(i) \in above THEN {}
                               ELSE Reach(Met, design.kids[i], above \cup {Key(i)})
  <2>1. <<i, above>> \in Places
    BY DEF Places
  <2>2. Met[<<i, above>>] = OneStep(Met, <<i, above>>)
    BY <1>7, <2>1
  <2>3. Reach(Met, design.kids[i], above \cup {Key(i)})
          = UNION {Met[<<design.kids[i][n], above \cup {Key(i)}>>] : n \in DOMAIN design.kids[i]}
    BY DEF Reach, Among
  <2> QED
    BY <2>2, <2>3 DEF OneStep
<1> QED
  BY <1>8 DEF Unfolds

-----------------------------------------------------------------------------
(***************************************************************************)
(* What run returns.                                                        *)
(***************************************************************************)
ReadyInv == BuildInv /\ ChosenInv /\ KidsInv /\ TreeInv

LEMMA ReadyInit == TemplatesInit => ReadyInv
  BY PathInit, LoopsInit, ChosenInit, KidsInit, TreeInit DEF ReadyInv, BuildInv

LEMMA ReadyStep == ReadyInv /\ [Next]_vars => ReadyInv'
  BY LoopsStep, ChosenStep, KidsStep, TreeStep DEF ReadyInv, BuildInv

LEMMA AllGrouped ==
    ASSUME IsFiniteSet(Keys), ReadyInv
    PROVE  EveryInstanceGrouped
<1> SUFFICES ASSUME Collected
             PROVE  grouped = UNION {Met[<<design.tops[n], {}>>] : n \in DOMAIN design.tops}
  BY DEF EveryInstanceGrouped
<1>1. tops = <<>> /\ walk = <<>>
  BY DEF Collected
<1>2. Unfolds(Met)
  BY MetUnfolds DEF ReadyInv, BuildInv, PathInv
<1>3. grouped \cup Pending(Met) = Reach(Met, design.tops, {})
  BY <1>2 DEF ReadyInv, TreeInv
<1>4. Pending(Met) = {}
  <2>1. Among(tops) = {} /\ 1..Len(walk) = {}
    BY <1>1 DEF Among
  <2> QED
    BY <2>1 DEF Pending, Reach
<1>5. Reach(Met, design.tops, {}) = UNION {Met[<<design.tops[n], {}>>] : n \in DOMAIN design.tops}
  BY DEF Reach, Among
<1> QED
  BY <1>3, <1>4, <1>5

\* Every loop has run, over every group.
LEMMA AllBuilt ==
    ASSUME ReadyInv, Built
    PROVE  /\ Collected /\ unanalysed = Cardinality({k \in Resolved : ~Analysed(group[k])})
           /\ \A k \in Resolved : Linked(k) /\ terms[k] = design.body[k].ports
<1>1. phase = "templates" /\ Resolved \subseteq done
  BY DEF Built, Left, Resolved
<1> QED
  BY <1>1 DEF ReadyInv, BuildInv, LoopsInv

LEMMA ChosenOf ==
    ASSUME ReadyInv, NEW k \in Resolved
    PROVE  k \in Keys /\ \E i \in grouped : Key(i) = k /\ group[k] = design.canon[i]
<1>1. k \in Keys /\ group[k] \in Offers(k)
  BY DEF ReadyInv, ChosenInv, BodiesChosen, Resolved
<1> QED
  BY <1>1 DEF Offers

LEMMA GroupedIsBodied ==
    ASSUME ReadyInv, NEW i \in grouped
    PROVE  Key(i) \in Resolved
<1>1. Key(i) \in Keys
  BY OfDesign DEF ReadyInv, BuildInv, PathInv, GroupingTypeOK
<1>2. design.canon[i] \in Offers(Key(i))
  BY DEF Offers
<1> QED
  BY <1>1, <1>2 DEF ReadyInv, ChosenInv, BodiesChosen, Resolved

\* What the places of a body's children lead to, in any instance of its key.
LEMMA KidOf ==
    ASSUME ReadyInv, KeysTellBodies, NEW i \in grouped,
           NEW n \in DOMAIN design.body[Key(i)].children,
           design.body[Key(i)].children[n].kid # 0
    PROVE  /\ design.body[Key(i)].children[n].kid \in DOMAIN design.kids[i]
           /\ ChildKey(Key(i), design.body[Key(i)].children[n])
                = Key(design.kids[i][design.body[Key(i)].children[n].kid])
<1>1. PICK j \in grouped : Key(j) = Key(i) /\ group[Key(i)] = design.canon[j]
  BY GroupedIsBodied, ChosenOf
<1>2. PICK kid : kid = design.body[Key(i)].children[n].kid
  OBVIOUS
<1>3. kid \in 0..Len(design.kids[i]) /\ Alike(i, design.canon[j])
  BY <1>1, <1>2 DEF KeysTellBodies
<1>4. i \in Insts /\ design.kids[i] \in Seq(Insts)
  BY OfDesign DEF ReadyInv, BuildInv, PathInv, GroupingTypeOK
<1>5. kid \in DOMAIN design.kids[i]
  BY <1>2, <1>3, <1>4
<1>6. Key(design.kids[i][kid]) = Key(design.kids[design.canon[j]][kid])
  BY <1>3, <1>5 DEF Alike
<1>7. ChildKey(Key(i), design.body[Key(i)].children[n]) = Key(design.kids[group[Key(i)]][kid])
  BY <1>2 DEF ChildKey
<1> QED
  BY <1>1, <1>2, <1>5, <1>6, <1>7

LEMMA LinkedWhenBuilt ==
    ASSUME ReadyInv, KeysTellBodies, Built
    PROVE  TemplatesLinked
<1>1. SUFFICES ASSUME NEW k \in Resolved
               PROVE  /\ modules[templates[k].module] = design.def[k]
                      /\ \A n \in DOMAIN templates[k].children :
                            ChildOf(k, n).key # NoBody =>
                               /\ group[ChildOf(k, n).key] # NoBody
                               /\ terms[ChildOf(k, n).key] = design.body[ChildOf(k, n).key].ports
                               /\ templates[ChildOf(k, n).key].module # 0
  BY DEF TemplatesLinked, Resolved
<1>2. Linked(k)
  BY AllBuilt
<1>3. ASSUME NEW n \in DOMAIN templates[k].children, ChildOf(k, n).key # NoBody
      PROVE  ChildOf(k, n).key \in Resolved
  <2> DEFINE child == design.body[k].children[n]
  <2>1. /\ n \in DOMAIN design.body[k].children /\ child.kid # 0
        /\ ChildOf(k, n).key = ChildKey(k, child)
    BY <1>2, <1>3 DEF Linked, ChildOf
  <2>2. PICK i \in grouped : Key(i) = k
    BY ChosenOf
  <2>3. PICK j \in grouped : Key(j) = k /\ Followed(j)
    BY <2>2 DEF ReadyInv, KidsInv
  <2>4. child.kid \in DOMAIN design.kids[j] /\ ChildKey(k, child) = Key(design.kids[j][child.kid])
    BY <2>1, <2>3, KidOf
  <2>5. design.kids[j][child.kid] \in grouped
    <3>1. 1..Len(walk) = {}
      BY AllBuilt DEF Collected
    <3> QED
      BY <2>3, <2>4, <3>1 DEF Followed, Among
  <2> QED
    BY <2>1, <2>4, <2>5, GroupedIsBodied
<1>4. ASSUME NEW m \in Resolved
      PROVE  group[m] # NoBody /\ terms[m] = design.body[m].ports /\ templates[m].module # 0
  <2>1. terms[m] = design.body[m].ports /\ templates[m].module \in DOMAIN modules
    BY AllBuilt DEF Linked
  <2>2. 0 \notin DOMAIN modules
    BY DEF ReadyInv, BuildInv, LoopsInv
  <2> QED
    BY <2>1, <2>2 DEF Resolved
<1> QED
  BY <1>2, <1>3, <1>4 DEF Linked

LEMMA Counted ==
    ASSUME ReadyInv, Built
    PROVE  unanalysed = Cardinality(NeverAnalysed)
<1>1. ASSUME NEW k \in Keys
      PROVE  (Offers(k) # {} /\ \A b \in Offers(k) : ~Analysed(b))
               <=> (group[k] # NoBody /\ ~Analysed(group[k]))
  BY DEF ReadyInv, ChosenInv, BodiesChosen
<1>2. NeverAnalysed = {k \in Resolved : ~Analysed(group[k])}
  BY <1>1 DEF NeverAnalysed, Resolved
<1> QED
  BY <1>2, AllBuilt

(***************************************************************************)
(* Every occurrence of the tree has a group, and nothing else: the walk     *)
(* ends with the instances a descent meets, up to those that repeat a key   *)
(* on the way down (TemplateBuilder::collect).                              *)
(***************************************************************************)
THEOREM TreeIsGrouped ==
    ASSUME IsFiniteSet(Keys) PROVE Spec => []EveryInstanceGrouped
<1>1. ReadyInv => EveryInstanceGrouped
  BY AllGrouped
<1> QED
  BY ReadyInit, ReadyStep, <1>1, PTL DEF Spec

(***************************************************************************)
(* No definition has two module rows, whatever the order of the groups      *)
(* (internModuleRow).                                                       *)
(***************************************************************************)
THEOREM ModulesAreInterned == Spec => []OneModuleRowEach
<1>1. ReadyInv => OneModuleRowEach
  BY DEF ReadyInv, BuildInv, LoopsInv
<1> QED
  BY ReadyInit, ReadyStep, <1>1, PTL DEF Spec

(***************************************************************************)
(* Where keys tell bodies apart, run returns templates that are all there:  *)
(* every child a template names is a group with its terminals and its own   *)
(* template, every definition has one row, and the groups never analysed    *)
(* are counted (TemplateBuilder::run).                                      *)
(***************************************************************************)
THEOREM GroupsAreReady ==
    ASSUME IsFiniteSet(Keys) PROVE Spec => [](KeysTellBodies => GroupsReady)
<1>1. ReadyInv => (KeysTellBodies => GroupsReady)
  <2> SUFFICES ASSUME ReadyInv, KeysTellBodies PROVE GroupsReady
    OBVIOUS
  <2>1. PathIsOpenCalls /\ OneModuleRowEach
    BY DEF ReadyInv, BuildInv, PathInv, LoopsInv
  <2> QED
    BY <2>1, AllGrouped, LinkedWhenBuilt, Counted DEF GroupsReady
<1> QED
  BY ReadyInit, ReadyStep, <1>1, PTL DEF Spec

(***************************************************************************)
(* And then pass 2 stamps the tree that was elaborated. So an occurrence    *)
(* gets the children of another only of a design where two instances of one *)
(* key have children of different keys (groupKey).                          *)
(***************************************************************************)
THEOREM StampedWhereKeysTell == Spec => [](KeysTellBodies => StampedAsElaborated)
<1>1. ReadyInv => (KeysTellBodies => StampedAsElaborated)
  <2> SUFFICES ASSUME ReadyInv, KeysTellBodies, Built, NEW i \in grouped,
                      NEW n \in DOMAIN templates[Key(i)].children,
                      design.body[Key(i)].children[n].kid # 0
               PROVE  ChildOf(Key(i), n).key
                        = Key(design.kids[i][design.body[Key(i)].children[n].kid])
    BY DEF StampedAsElaborated
  <2>1. Linked(Key(i))
    BY AllBuilt, GroupedIsBodied
  <2> QED
    BY <2>1, KidOf DEF Linked, ChildOf
<1> QED
  BY ReadyInit, ReadyStep, <1>1, PTL DEF Spec
=============================================================================
