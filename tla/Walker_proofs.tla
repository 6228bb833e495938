---------------------------- MODULE Walker_proofs ----------------------------
(***************************************************************************)
(* What the walk guarantees for every program and every budget: its state  *)
(* keeps its shape, and call sites are a forest as deep as their depths    *)
(* say.                                                                    *)
(*                                                                         *)
(* Both need that the agenda undoes what was set in the order it was set:  *)
(* from the site in force, each "leave" still to come goes back to the     *)
(* parent, and the last one to none.                                       *)
(*                                                                         *)
(* Then what the theorems about the walk's rows rest on. The syntax says   *)
(* what is in force at a node (Placed), wherever the call it is expanded   *)
(* for stands (Sound). Every item of the agenda leads from one such state  *)
(* of affairs to another (Good): visiting a node leaves things as they     *)
(* were, an arm opens a level, an item that undoes puts back what its      *)
(* construct set.                                                          *)
(***************************************************************************)
EXTENDS WalkerProperties, SequenceTheorems, FiniteSetTheorems,
        WellFoundedInduction, TLAPS

(***************************************************************************)
(* Sequences.                                                              *)
(***************************************************************************)
LEMMA ElementIn ==
    ASSUME NEW S, NEW s \in Seq(S), NEW n \in 1..Len(s)
    PROVE  s[n] \in S
  OBVIOUS

LEMMA Joined ==
    ASSUME NEW S, NEW s \in Seq(S), NEW t \in Seq(S)
    PROVE  /\ s \o t \in Seq(S) /\ Len(s \o t) = Len(s) + Len(t)
           /\ \A i \in 1..Len(s) : (s \o t)[i] = s[i]
           /\ \A i \in Len(s) + 1..Len(s) + Len(t) : (s \o t)[i] = t[i - Len(s)]
  OBVIOUS

LEMMA WithLast ==
    ASSUME NEW S, NEW s \in Seq(S), NEW e \in S
    PROVE  /\ Append(s, e) \in Seq(S) /\ Len(Append(s, e)) = Len(s) + 1
           /\ \A i \in 1..Len(s) : Append(s, e)[i] = s[i]
           /\ Append(s, e)[Len(s) + 1] = e
  OBVIOUS

LEMMA Single == ASSUME NEW S, NEW e \in S PROVE <<e>> \in Seq(S)
  OBVIOUS

LEMMA Widened ==
    ASSUME NEW S, NEW T, S \subseteq T, NEW s \in Seq(S) PROVE s \in Seq(T)
  OBVIOUS

LEMMA Listed ==
    ASSUME NEW S, NEW n \in Nat, NEW f, f = [i \in 1..n |-> f[i]],
           \A i \in 1..n : f[i] \in S
    PROVE  f \in Seq(S) /\ Len(f) = n
  OBVIOUS

(***************************************************************************)
(* The parts of the invariant.                                             *)
(***************************************************************************)
StartOK ==
    /\ program \in Program
    /\ at \in 0..Len(program.walks) /\ walking \in BOOLEAN
    /\ base \in 0..Len(branches) /\ branches \in Seq(Branch)
    /\ procedures \in Nat /\ proc \in 0..procedures

RowsOK ==
    /\ stmts \in Seq(Stmt) /\ seq \in Nat
    /\ curStmt \in 0..Len(stmts) /\ curBranch \in Nat

CallsOK ==
    /\ budget \in 0..Budget /\ truncated \in Nat
    /\ sites \in Seq(Site) /\ binds \in Seq(Bind) /\ SitesNested

\* Levels with a row come first, and their numbers go up to the rows.
Numbered(lv, rows) ==
    /\ lv \in Seq(Level)
    /\ \A i \in 1..Len(lv) : (lv[i].id # 0 <=> i <= Settled(lv)) /\ lv[i].id <= rows

LevelsOK == frames \in Seq(Frame) /\ Numbered(levels, Len(frames))

CtxOK ==
    /\ ctx \in Context /\ ctx.site \in 0..Len(sites)
    /\ ctx.depth = DepthAt(ctx.site) /\ ctx.depth + budget <= Budget

\* What the agenda may hold: arms of their nodes, calls of subroutines, and
\* contexts of sites there are.
Fits(it) ==
    /\ it.ctx.site \in 0..Len(sites)
    /\ it.op = "arm" => it.arm \in 1..Len(Of(it.node).arms)
    /\ it.op \in {"enter", "leave"} => Of(it.node).callee \in Node
Fitting == {it \in Item : Fits(it)}
Plainly == {it \in Fitting : it.op # "leave"}

AgendaOK == agenda \in Seq(Fitting)

\* The site in force at each place of the agenda.
InForce(s) ==
    /\ s \in [1..Len(agenda) + 1 -> 0..Len(sites)]
    /\ s[1] = ctx.site /\ s[Len(agenda) + 1] = 0
    /\ \A i \in 1..Len(agenda) :
          IF agenda[i].op = "leave"
          THEN /\ s[i] # 0 /\ s[i + 1] = sites[s[i]].parent
               /\ agenda[i].ctx.site = s[i + 1]
          ELSE s[i + 1] = s[i]
NestOK == \E s : InForce(s)

IdleOK == walking \/ agenda = <<>>

WalkInv == /\ StartOK /\ RowsOK /\ CallsOK /\ LevelsOK /\ CtxOK
           /\ AgendaOK /\ NestOK /\ IdleOK

LEMMA SyntaxOf ==
    ASSUME StartOK, NEW n \in Node
    PROVE  /\ Of(n) \in Syntax /\ program \in Programs
           /\ program.result \in [Node -> SUBSET Var]
           /\ program.walks \in Seq(Walk)
           /\ Of(n).kind = "call" => Of(n).callee \in Node
<1>1. program \in Programs /\ program \in Program
  BY ProgramTyped DEF StartOK
<1>2. Of(n) \in Syntax
  BY <1>1 DEF Programs, Of
<1>3. Of(n).kind = "call" => Of(n).callee \in Node
  BY <1>1, <1>2, CallsNameBodies DEF Of, Syntax
<1> QED
  BY <1>1, <1>2, <1>3 DEF Programs

LEMMA InvIsTyped == WalkInv => TypeOK
<1> SUFFICES ASSUME WalkInv PROVE TypeOK
  OBVIOUS
<1>1. program \in Programs
  BY ProgramTyped DEF WalkInv, StartOK
<1>2. agenda \in Seq(Item)
  BY Widened DEF WalkInv, AgendaOK, Fitting
<1> QED
  BY <1>1, <1>2 DEF WalkInv, TypeOK, StartOK, RowsOK, CallsOK, LevelsOK, Numbered, CtxOK

LEMMA WalkInit == Init => WalkInv
<1> SUFFICES ASSUME Init PROVE WalkInv
  OBVIOUS
<1>1. program \in Programs
  BY ProgramTyped DEF Init
<1>2. StartOK
  <2>1. Len(program.walks) \in Nat
    BY <1>1 DEF Programs
  <2>2. branches = <<>> /\ branches \in Seq(Branch) /\ Len(branches) = 0
    BY DEF Init
  <2>3. /\ program \in Program /\ at = 0 /\ walking = FALSE /\ base = 0
        /\ procedures = 0 /\ proc = 0
    BY DEF Init
  <2>4. at \in 0..Len(program.walks) /\ base \in 0..Len(branches) /\ proc \in 0..procedures
    BY <2>1, <2>2, <2>3
  <2> QED
    BY <2>2, <2>3, <2>4 DEF StartOK
<1>3. RowsOK /\ CallsOK /\ AgendaOK /\ IdleOK
  BY BudgetNat DEF Init, RowsOK, CallsOK, AgendaOK, SitesNested, IdleOK
<1>4. LevelsOK
  BY DEF Init, LevelsOK, Numbered
<1>5. CtxOK
  BY BudgetNat DEF Init, CtxOK, Outer, Context, DepthAt, NoDelay, Word
<1>6. NestOK
  <2>1. InForce(<<0>>)
    BY DEF Init, InForce, Outer
  <2> QED
    BY <2>1 DEF NestOK
<1> QED
  BY <1>2, <1>3, <1>4, <1>5, <1>6 DEF WalkInv

(***************************************************************************)
(* What most actions leave alone.                                          *)
(***************************************************************************)
LEMMA QuietKeeps == ASSUME StartOK, Quiet PROVE StartOK'
  BY DEF StartOK, Quiet

LEMMA NoRowsKeeps == ASSUME RowsOK, NoRows PROVE RowsOK'
  BY DEF RowsOK, NoRows

LEMMA NoCallsKeeps == ASSUME CallsOK, NoCalls PROVE CallsOK'
  BY DEF CallsOK, NoCalls, SitesNested, DepthAt

LEMMA NoLevelsKeeps == ASSUME LevelsOK, NoLevels PROVE LevelsOK'
  BY DEF LevelsOK, Numbered, NoLevels, Settled

\* ctx changes, but neither the site nor the depth.
LEMMA CtxKeeps ==
    ASSUME CtxOK, NoCalls, ctx' \in Context,
           ctx'.site = ctx.site, ctx'.depth = ctx.depth
    PROVE  CtxOK'
  BY DEF CtxOK, NoCalls, DepthAt

(***************************************************************************)
(* The agenda.                                                             *)
(***************************************************************************)
\* Sites are only added.
Grown ==
    /\ sites \in Seq(Site) /\ sites' \in Seq(Site)
    /\ Len(sites) <= Len(sites')
    /\ \A k \in 1..Len(sites) : sites'[k] = sites[k]

LEMMA FitsStill ==
    ASSUME Grown, UNCHANGED program
    PROVE  Fitting \subseteq Fitting' /\ Plainly \subseteq Plainly'
<1>1. 0..Len(sites) \subseteq 0..Len(sites')
  BY DEF Grown
<1>2. \A it : Fits(it) => Fits(it)'
  BY <1>1 DEF Fits, Of
<1> QED
  BY <1>2 DEF Fitting, Plainly

LEMMA Rest ==
    ASSUME AgendaOK, agenda # <<>>
    PROVE  /\ Tail(agenda) \in Seq(Fitting) /\ Len(agenda) \in Nat \ {0}
           /\ Len(Tail(agenda)) = Len(agenda) - 1
           /\ \A i \in 1..Len(agenda) - 1 : Tail(agenda)[i] = agenda[i + 1]
           /\ Head(agenda) = agenda[1] /\ Head(agenda) \in Fitting
  BY HeadTailProperties DEF AgendaOK

\* Items in the place of the first.
LEMMA ReplacedItems ==
    ASSUME AgendaOK, agenda # <<>>, Grown, UNCHANGED program,
           NEW items \in Seq(Fitting'), Replace(items)
    PROVE  /\ AgendaOK' /\ Len(agenda') = Len(items) + Len(agenda) - 1
           /\ \A i \in 1..Len(items) : agenda'[i] = items[i]
           /\ \A i \in Len(items) + 1..Len(agenda') :
                 agenda'[i] = agenda[i - Len(items) + 1]
<1> DEFINE rest == Tail(agenda)
<1>1. /\ rest \in Seq(Fitting) /\ Len(agenda) \in Nat \ {0}
      /\ Len(rest) = Len(agenda) - 1
      /\ \A i \in 1..Len(agenda) - 1 : rest[i] = agenda[i + 1]
  BY Rest
<1>2. rest \in Seq(Fitting')
  BY <1>1, FitsStill, Widened
<1>3. agenda' = items \o rest
  BY DEF Replace
<1> HIDE DEF rest
<1>4. /\ items \o rest \in Seq(Fitting') /\ Len(items \o rest) = Len(items) + Len(rest)
      /\ \A i \in 1..Len(items) : (items \o rest)[i] = items[i]
      /\ \A i \in Len(items) + 1..Len(items) + Len(rest) :
            (items \o rest)[i] = rest[i - Len(items)]
  BY <1>2, Joined
<1>5. Len(items) \in Nat
  OBVIOUS
<1>6. ASSUME NEW i \in Len(items) + 1..Len(agenda')
      PROVE  agenda'[i] = agenda[i - Len(items) + 1]
  <2>1. i \in Len(items) + 1..Len(items) + Len(rest)
    BY <1>3, <1>4
  <2>2. i - Len(items) \in 1..Len(agenda) - 1
    BY <1>1, <1>5, <2>1
  <2> QED
    BY <1>1, <1>3, <1>4, <2>1, <2>2
<1>7. AgendaOK'
  BY <1>3, <1>4 DEF AgendaOK
<1> QED
  BY <1>1, <1>3, <1>4, <1>6, <1>7

\* Items that leave no call, in the place of one that does not either: the
\* site in force is as it was.
LEMMA PlainlyReplaced ==
    ASSUME AgendaOK, NestOK, agenda # <<>>, Head(agenda).op # "leave",
           Grown, UNCHANGED program, ctx'.site = ctx.site,
           NEW items \in Seq(Plainly), Replace(items)
    PROVE  AgendaOK' /\ NestOK'
<1>1. items \in Seq(Plainly') /\ items \in Seq(Fitting')
  BY Widened, FitsStill DEF Plainly
<1>2. PICK m \in Nat : m = Len(items)
  OBVIOUS
<1>3. PICK n \in Nat \ {0} : n = Len(agenda)
  BY Rest
<1>4. /\ AgendaOK' /\ Len(agenda') = m + n - 1
      /\ \A i \in 1..m : agenda'[i] = items[i]
      /\ \A i \in m + 1..Len(agenda') : agenda'[i] = agenda[i - m + 1]
  BY <1>1, <1>2, <1>3, ReplacedItems
<1>5. PICK s : InForce(s)
  BY DEF NestOK
<1>6. /\ s \in [1..n + 1 -> 0..Len(sites)] /\ s[1] = ctx.site /\ s[n + 1] = 0
      /\ \A i \in 1..n :
            IF agenda[i].op = "leave"
            THEN /\ s[i] # 0 /\ s[i + 1] = sites[s[i]].parent
                 /\ agenda[i].ctx.site = s[i + 1]
            ELSE s[i + 1] = s[i]
  BY <1>3, <1>5 DEF InForce
<1>7. s[2] = s[1] /\ agenda[1].op # "leave"
  BY <1>3, <1>6, Rest
<1> DEFINE t == [i \in 1..m + n |-> IF i <= m THEN s[1] ELSE s[i - m + 1]]
<1>8. t \in [1..m + n -> 0..Len(sites')]
  <2>1. ASSUME NEW i \in 1..m + n PROVE t[i] \in 0..Len(sites')
    <3>1. CASE i <= m
      BY <1>3, <1>6, <3>1 DEF Grown
    <3>2. CASE ~(i <= m)
      <4>1. i - m + 1 \in 1..n + 1
        BY <1>3, <3>2
      <4> QED
        BY <1>6, <3>2, <4>1 DEF Grown
    <3> QED
      BY <3>1, <3>2
  <2> QED
    BY <2>1
<1>9. t[1] = ctx'.site /\ t[m + n] = 0
  <2>1. 1 \in 1..m + n /\ m + n \in 1..m + n /\ ~(m + n <= m)
    BY <1>3
  <2>2. t[m + n] = s[n + 1]
    BY <1>3, <2>1
  <2>3. t[1] = s[1]
    BY <1>7, <2>1
  <2> QED
    BY <1>6, <2>2, <2>3
<1>10. ASSUME NEW i \in 1..m + n - 1
       PROVE  IF agenda'[i].op = "leave"
              THEN /\ t[i] # 0 /\ t[i + 1] = sites'[t[i]].parent
                   /\ agenda'[i].ctx.site = t[i + 1]
              ELSE t[i + 1] = t[i]
  <2>1. i \in 1..m + n /\ i + 1 \in 1..m + n
    BY <1>3
  <2>2. CASE i <= m
    <3>1. agenda'[i] \in Plainly'
      BY <1>1, <1>2, <1>4, <2>2
    <3>2. agenda'[i].op # "leave"
      BY <3>1 DEF Plainly
    <3>3. t[i] = s[1]
      BY <2>1, <2>2
    <3>4. t[i + 1] = s[1]
      <4>1. CASE i + 1 <= m
        BY <2>1, <4>1
      <4>2. CASE i = m
        BY <1>7, <2>1, <4>2
      <4> QED
        BY <2>2, <4>1, <4>2
    <3> QED
      BY <3>2, <3>3, <3>4
  <2>3. CASE ~(i <= m)
    <3>1. PICK j \in 2..n : j = i - m + 1
      <4>1. i - m + 1 \in 2..n
        BY <1>2, <1>3, <2>1, <2>3
      <4> QED
        BY <4>1
    <3>2. agenda'[i] = agenda[j]
      <4>1. i \in m + 1..Len(agenda')
        BY <1>2, <1>3, <1>4, <2>1, <2>3
      <4> QED
        BY <1>4, <3>1, <4>1
    <3>3. t[i] = s[j]
      BY <2>1, <2>3, <3>1
    <3>4. t[i + 1] = s[i + 1 - m + 1]
      BY <1>2, <2>1, <2>3
    <3>5. i + 1 - m + 1 = j + 1
      BY <1>2, <1>3, <2>1, <3>1
    <3>6. t[i + 1] = s[j + 1]
      BY <3>4, <3>5
    <3>7. s[j] \in 0..Len(sites) /\ j \in 1..n
      BY <1>6, <3>1
    <3>8. s[j] # 0 => sites'[s[j]] = sites[s[j]]
      BY <3>7 DEF Grown
    <3> QED
      BY <1>6, <3>2, <3>3, <3>6, <3>7, <3>8
  <2> QED
    BY <2>2, <2>3
<1> HIDE DEF t
<1>11. (m + n - 1) + 1 = m + n
  BY <1>3
<1>12. InForce(t)'
  BY <1>4, <1>8, <1>9, <1>10, <1>11 DEF InForce
<1> QED
  BY <1>4, <1>12 DEF NestOK

(***************************************************************************)
(* What the handlers put on the agenda.                                    *)
(***************************************************************************)
LEMMA OuterIsContext == Outer \in Context /\ Outer.site = 0 /\ Outer.depth = 0
  BY DEF Outer, Context, Word

LEMMA DoIsPlain ==
    ASSUME CtxOK, CallsOK, NEW n \in Node, NEW op \in {"visit", "point", "pop"}
    PROVE  Do(op, n) \in Plainly
<1>1. Do(op, n) \in Item
  BY OuterIsContext DEF Do, Item
<1>2. 0 \in 0..Len(sites)
  BY DEF CallsOK
<1> QED
  BY <1>1, <1>2, OuterIsContext DEF Do, Plainly, Fitting, Fits

LEMMA EnterIsPlain ==
    ASSUME StartOK, CtxOK, CallsOK, NEW n \in Node, Of(n).kind = "call"
    PROVE  Do("enter", n) \in Plainly
<1>1. Do("enter", n) \in Item
  BY OuterIsContext DEF Do, Item
<1>2. 0 \in 0..Len(sites) /\ Of(n).callee \in Node
  BY SyntaxOf DEF CallsOK
<1> QED
  BY <1>1, <1>2, OuterIsContext DEF Do, Plainly, Fitting, Fits

LEMMA UndoIsPlain ==
    ASSUME CtxOK, NEW n \in Node, NEW op \in {"unguard", "unindex", "undelay", "unforce"}
    PROVE  Undo(op, n) \in Plainly
<1>1. Undo(op, n) \in Item
  BY DEF Undo, Item, CtxOK
<1> QED
  BY <1>1 DEF Undo, Plainly, Fitting, Fits, CtxOK

LEMMA VisitsArePlain ==
    ASSUME CtxOK, CallsOK, NEW ns \in Seq(Node)
    PROVE  Visits(ns) \in Seq(Plainly)
<1>1. \A i \in 1..Len(ns) : ns[i] \in Node /\ Visits(ns)[i] = Do("visit", ns[i])
  BY ElementIn DEF Visits
<1>2. \A i \in 1..Len(ns) : Visits(ns)[i] \in Plainly
  BY <1>1, DoIsPlain
<1>3. Visits(ns) = [i \in 1..Len(ns) |-> Visits(ns)[i]]
  BY DEF Visits
<1>4. Len(ns) \in Nat
  OBVIOUS
<1> QED
  BY <1>2, <1>3, <1>4, Listed

LEMMA ArmsArePlain ==
    ASSUME StartOK, CtxOK, CallsOK, NEW n \in Node
    PROVE  Arms(n) \in Seq(Plainly)
<1>1. PICK k \in Nat : k = Len(Of(n).arms)
  BY SyntaxOf DEF Syntax
<1>2. Arms(n) = [i \in 1..k |-> [Do("arm", n) EXCEPT !.arm = i]]
  BY <1>1 DEF Arms
<1>3. ASSUME NEW i \in 1..k PROVE [Do("arm", n) EXCEPT !.arm = i] \in Plainly
  <2>1. [Do("arm", n) EXCEPT !.arm = i]
          = [op |-> "arm", node |-> n, arm |-> i, ctx |-> Outer]
    BY DEF Do
  <2>2. [op |-> "arm", node |-> n, arm |-> i, ctx |-> Outer] \in Item
    BY OuterIsContext DEF Item
  <2>3. 0 \in 0..Len(sites)
    BY DEF CallsOK
  <2> QED
    BY <1>1, <2>1, <2>2, <2>3, OuterIsContext DEF Plainly, Fitting, Fits
<1>4. \A i \in 1..k : Arms(n)[i] \in Plainly
  BY <1>2, <1>3
<1>5. Arms(n) = [i \in 1..k |-> Arms(n)[i]]
  BY <1>2
<1> QED
  BY <1>1, <1>4, <1>5, Listed

(***************************************************************************)
(* Levels.                                                                 *)
(***************************************************************************)
LEMMA SettledCounts ==
    ASSUME NEW lv \in Seq(Level) PROVE Settled(lv) \in 0..Len(lv)
<1> DEFINE T == {i \in 1..Len(lv) : lv[i].id # 0}
<1>1. PICK m \in Nat : m = Len(lv)
  OBVIOUS
<1>2. IsFiniteSet(1..Len(lv)) /\ Cardinality(1..Len(lv)) = Len(lv)
  <2>1. 1 \in Int /\ m \in Int
    OBVIOUS
  <2>2. IsFiniteSet(1..m) /\ Cardinality(1..m) = IF 1 > m THEN 0 ELSE m - 1 + 1
    BY <2>1, FS_Interval
  <2>3. (IF 1 > m THEN 0 ELSE m - 1 + 1) = m
    OBVIOUS
  <2> QED
    BY <1>1, <2>2, <2>3
<1>3. T \in SUBSET (1..Len(lv))
  OBVIOUS
<1> HIDE DEF T
<1>4. IsFiniteSet(T) /\ Cardinality(T) <= Len(lv)
  BY <1>2, <1>3, FS_Subset
<1>5. Cardinality(T) \in Nat
  BY <1>4, FS_CardinalityType
<1>6. Settled(lv) = Cardinality(T)
  BY DEF Settled, T
<1> QED
  BY <1>1, <1>4, <1>5, <1>6

LEMMA BranchIsNumber == ASSUME LevelsOK PROVE CurrentBranch \in Nat
<1>1. CASE levels = <<>>
  BY <1>1 DEF CurrentBranch
<1>2. CASE levels # <<>>
  <2>1. PICK k \in 1..Len(levels) : k = Len(levels)
    BY <1>2 DEF LevelsOK, Numbered
  <2>2. Settled(levels) \in 0..Len(levels)
    BY SettledCounts DEF LevelsOK, Numbered
  <2>3. levels[k].id \in Nat /\ Len(frames) \in Nat /\ Len(levels) \in Nat
    <3>1. levels \in Seq(Level) /\ frames \in Seq(Frame)
      BY DEF LevelsOK, Numbered
    <3>2. levels[k] \in Level
      BY <2>1, <3>1, ElementIn
    <3> QED
      BY <3>1, <3>2 DEF Level
  <2>4. PICK d \in 0..k : d = Settled(levels)
    BY <2>1, <2>2
  <2>5. PICK f \in Nat : f = Len(frames)
    BY <2>3
  <2>6. f + k - d \in Nat
    BY <2>1, <2>3, <2>4
  <2>7. IdOf(levels, k) = IF levels[k].id # 0 THEN levels[k].id ELSE f + k - d
    BY <2>4, <2>5 DEF IdOf
  <2> QED
    BY <1>2, <2>1, <2>3, <2>6, <2>7 DEF CurrentBranch
<1> QED
  BY <1>1, <1>2

(***************************************************************************)
(* Rows.                                                                   *)
(***************************************************************************)
LEMMA RowIsStmt ==
    ASSUME StartOK, RowsOK, LevelsOK, CtxOK, CallsOK,
           NEW n \in Node, NEW k \in Nat, NEW writes \in SUBSET Var
    PROVE  Row(n, k, writes) \in Stmt
<1>1. base \in Nat /\ CurrentBranch \in Nat
  BY BranchIsNumber DEF StartOK
<1>2. InTemplate(CurrentBranch) \in Nat
  BY <1>1 DEF InTemplate
<1>3. proc \in Nat /\ ctx.site \in Nat /\ (IF proc = 0 THEN -1 ELSE seq + k) \in Int
  BY DEF StartOK, CtxOK, RowsOK, Context
<1> QED
  BY <1>2, <1>3 DEF Row, Stmt, Word

LEMMA WriteIsStmt ==
    ASSUME StartOK, RowsOK, LevelsOK, CtxOK, CallsOK,
           NEW n \in Node, NEW writes \in SUBSET Var, NEW delay \in Delay \cup {NoDelay}
    PROVE  Write(n, writes, delay) \in Stmt
<1> DEFINE gates == {InTemplate(b) : b \in Chain(CurrentBranch)}
           row == Row(n, 0, writes)
<1>1. row \in Stmt
  BY RowIsStmt
<1>2. \A b \in Chain(CurrentBranch) : b \in Nat
  BY DEF Chain, LevelsOK, Numbered
<1>3. base \in Nat
  BY DEF StartOK
<1>4. gates \in SUBSET Nat
  BY <1>2, <1>3 DEF InTemplate
<1>5. ctx.word \in Word
  BY DEF CtxOK, Context
<1>6. Write(n, writes, delay)
        = [row EXCEPT !.delay = delay, !.word = ctx.word, !.gates = gates]
  BY DEF Write
<1> HIDE DEF row, gates
<1> QED
  BY <1>1, <1>4, <1>5, <1>6 DEF Stmt

LEMMA Filed ==
    ASSUME StartOK, RowsOK, LevelsOK, NEW rows \in Seq(Stmt), File(rows)
    PROVE  RowsOK'
<1>1. stmts' \in Seq(Stmt) /\ Len(stmts') = Len(stmts) + Len(rows)
  BY Joined DEF File, RowsOK
<1>2. seq' \in Nat
  BY DEF File, RowsOK
<1>3. InTemplate(CurrentBranch) \in Nat
  BY BranchIsNumber DEF StartOK, InTemplate
<1>4. curBranch' \in Nat /\ curStmt' \in 0..Len(stmts')
  BY <1>1, <1>3 DEF File, RowsOK
<1> QED
  BY <1>1, <1>2, <1>4 DEF RowsOK

(***************************************************************************)
(* Steps that neither enter a call nor leave one.                          *)
(***************************************************************************)
LEMMA Stepped ==
    ASSUME WalkInv, agenda # <<>>, Head(agenda).op # "leave",
           NEW items \in Seq(Plainly), Replace(items), Quiet, NoCalls,
           RowsOK', LevelsOK', ctx' \in Context,
           ctx'.site = ctx.site, ctx'.depth = ctx.depth
    PROVE  WalkInv'
<1>1. StartOK' /\ CallsOK' /\ CtxOK'
  BY QuietKeeps, NoCallsKeeps, CtxKeeps DEF WalkInv
<1>2. Grown /\ UNCHANGED program
  BY DEF Grown, NoCalls, Quiet, WalkInv, CallsOK
<1>3. AgendaOK' /\ NestOK'
  BY <1>2, PlainlyReplaced DEF WalkInv
<1>4. IdleOK'
  BY DEF WalkInv, IdleOK, Quiet
<1> QED
  BY <1>1, <1>3, <1>4 DEF WalkInv

\* The same, of a handler that visits the parts of its node.
LEMMA Defaulted ==
    ASSUME WalkInv, NEW n \in Node, Visiting(n, Of(n).kind), VisitDefault(n),
           RowsOK', UNCHANGED ctx
    PROVE  WalkInv'
<1>1. Of(n).kids \in Seq(Node)
  BY SyntaxOf DEF Syntax, WalkInv
<1>2. Visits(Of(n).kids) \in Seq(Plainly)
  BY <1>1, VisitsArePlain DEF WalkInv
<1>3. agenda # <<>> /\ Head(agenda).op # "leave"
  BY DEF Visiting, Pending
<1>4. /\ Replace(Visits(Of(n).kids)) /\ Quiet /\ NoCalls /\ LevelsOK'
  BY NoLevelsKeeps DEF VisitDefault, WalkInv
<1>5. ctx' \in Context /\ ctx'.site = ctx.site /\ ctx'.depth = ctx.depth
  BY DEF WalkInv, CtxOK
<1> QED
  BY <1>2, <1>3, <1>4, <1>5, Stepped

LEMMA StatementStep ==
    ASSUME WalkInv, NEW n \in Node,
           \/ HandlePlain(n) \/ HandleAssignment(n) \/ HandleStep(n)
           \/ HandleReturn(n) \/ HandleRow(n)
    PROVE  WalkInv'
<1>1. StartOK /\ RowsOK /\ LevelsOK /\ CtxOK /\ CallsOK
  BY DEF WalkInv
<1>2. Of(n) \in Syntax /\ program.result \in [Node -> SUBSET Var]
  BY <1>1, SyntaxOf
<1>3. Of(n).vars \ ctx.indices \in SUBSET Var
  BY <1>2 DEF Syntax
<1>4. ctx.delay \in Delay \cup {NoDelay} /\ Of(n).delay \in Delay \cup {NoDelay}
      /\ ctx.sub \in Node \cup {0}
  BY <1>1, <1>2 DEF CtxOK, Context, Syntax
<1>5. ASSUME NEW writes \in SUBSET Var, NEW delay \in Delay \cup {NoDelay},
             File(<<Write(n, writes, delay)>>)
      PROVE  RowsOK'
  <2>1. Write(n, writes, delay) \in Stmt
    BY <1>1, WriteIsStmt
  <2> QED
    BY <1>1, <1>5, <2>1, Single, Filed
<1>6. CASE HandlePlain(n)
  <2>1. RowsOK'
    BY <1>1, <1>6, NoRowsKeeps DEF HandlePlain
  <2> QED
    BY <1>6, <2>1, Defaulted DEF HandlePlain, Visiting
<1>7. CASE HandleAssignment(n)
  <2> DEFINE targets == Of(n).vars \ ctx.indices
             delay == IF Of(n).delay # NoDelay THEN Of(n).delay ELSE ctx.delay
  <2>1. delay \in Delay \cup {NoDelay}
    BY <1>4
  <2>2. \/ File(<<Write(n, targets, delay)>>)
        \/ seq' = seq + 1 /\ UNCHANGED <<stmts, curStmt, curBranch>>
    BY <1>7 DEF HandleAssignment
  <2> HIDE DEF delay
  <2>3. File(<<Write(n, targets, delay)>>) => RowsOK'
    BY <1>3, <1>5, <2>1
  <2>4. seq' = seq + 1 /\ UNCHANGED <<stmts, curStmt, curBranch>> => RowsOK'
    BY <1>1 DEF RowsOK
  <2>5. RowsOK'
    BY <2>2, <2>3, <2>4
  <2> QED
    BY <1>7, <2>5, Defaulted DEF HandleAssignment, Visiting
<1>8. CASE HandleStep(n)
  <2>1. File(<<Write(n, Of(n).vars \ ctx.indices, ctx.delay)>>) \/ NoRows
    BY <1>8 DEF HandleStep
  <2>2. RowsOK'
    BY <1>1, <1>3, <1>4, <1>5, <2>1, NoRowsKeeps
  <2> QED
    BY <1>8, <2>2, Defaulted DEF HandleStep, Visiting
<1>9. CASE HandleReturn(n)
  <2>1. \/ ctx.sub # 0 /\ File(<<Write(n, program.result[ctx.sub], ctx.delay)>>)
        \/ NoRows
    BY <1>9 DEF HandleReturn
  <2>2. ctx.sub # 0 => program.result[ctx.sub] \in SUBSET Var
    BY <1>2, <1>4
  <2>3. RowsOK'
    BY <1>1, <1>4, <1>5, <2>1, <2>2, NoRowsKeeps
  <2> QED
    BY <1>9, <2>3, Defaulted DEF HandleReturn, Visiting
<1>10. CASE HandleRow(n)
  <2>1. Row(n, 0, {}) \in Stmt
    BY <1>1, RowIsStmt
  <2>2. RowsOK'
    BY <1>1, <1>10, <2>1, Single, Filed DEF HandleRow
  <2> QED
    BY <1>10, <2>2, Defaulted DEF HandleRow, Visiting
<1> QED
  BY <1>6, <1>7, <1>8, <1>9, <1>10

\* Constructs that set a field of the context, or give the levels and the
\* agenda something to do.
LEMMA ConstructStep ==
    ASSUME WalkInv, NEW n \in Node,
           \/ HandleTimed(n) \/ HandleForce(n) \/ HandleConditional(n)
           \/ HandleCase(n) \/ HandleLoop(n) \/ HandleFor(n) \/ HandleForeach(n)
           \/ HandleCall(n)
    PROVE  WalkInv'
<1>1. StartOK /\ RowsOK /\ LevelsOK /\ CtxOK /\ CallsOK
  BY DEF WalkInv
<1>2. Of(n) \in Syntax
  BY <1>1, SyntaxOf
<1>3. Of(n).kids \in Seq(Node) /\ Of(n).head \in Seq(Node)
  BY <1>2 DEF Syntax
<1>4. /\ Visits(Of(n).kids) \in Seq(Plainly) /\ Visits(Of(n).head) \in Seq(Plainly)
      /\ Arms(n) \in Seq(Plainly)
  BY <1>1, <1>3, VisitsArePlain, ArmsArePlain
<1>5. \A op \in {"unguard", "unindex", "undelay", "unforce"} :
          <<Undo(op, n)>> \in Seq(Plainly)
  BY <1>1, UndoIsPlain, Single
<1>6. GuardedHead(n) \in Seq(Plainly)
  BY <1>4, <1>5, Joined DEF GuardedHead
<1>7. ctx \in Context /\ Of(n).vars \in SUBSET Var
  BY <1>1, <1>2 DEF CtxOK, Syntax
<1>8. ASSUME NEW items \in Seq(Plainly), Replace(items), agenda # <<>>,
             Head(agenda).op = "visit", Quiet, NoCalls, RowsOK', NoLevels,
             ctx' \in Context, ctx'.site = ctx.site, ctx'.depth = ctx.depth
      PROVE  WalkInv'
  BY <1>1, <1>8, Stepped, NoLevelsKeeps
<1>9. CASE HandleTimed(n)
  <2>1. RowsOK'
    <3> DEFINE wait == [k \in 1..Of(n).waits |-> Row(n, k - 1, {})]
    <3>1. NoRows \/ File(wait)
      BY <1>9 DEF HandleTimed
    <3>2. Of(n).waits \in Nat
      BY <1>2 DEF Syntax
    <3>3. \A k \in 1..Of(n).waits : wait[k] \in Stmt
      <4>1. ASSUME NEW k \in 1..Of(n).waits PROVE Row(n, k - 1, {}) \in Stmt
        <5>1. k - 1 \in Nat
          BY <3>2
        <5> QED
          BY <1>1, <5>1, RowIsStmt
      <4> QED
        BY <4>1
    <3>4. wait = [k \in 1..Of(n).waits |-> wait[k]]
      OBVIOUS
    <3> HIDE DEF wait
    <3>5. wait \in Seq(Stmt)
      BY <3>2, <3>3, <3>4, Listed
    <3> QED
      BY <1>1, <3>1, <3>5, Filed, NoRowsKeeps
  <2>2. CASE Replace(Visits(Of(n).kids)) /\ UNCHANGED ctx
    BY <1>4, <1>7, <1>8, <1>9, <2>1, <2>2 DEF HandleTimed, Visiting, Pending
  <2>3. CASE /\ Of(n).delay # NoDelay /\ ctx' = [ctx EXCEPT !.delay = Of(n).delay]
             /\ Replace(Visits(Of(n).kids) \o <<Undo("undelay", n)>>)
    <3>1. Visits(Of(n).kids) \o <<Undo("undelay", n)>> \in Seq(Plainly)
      BY <1>4, <1>5, Joined
    <3>2. ctx' \in Context /\ ctx'.site = ctx.site /\ ctx'.depth = ctx.depth
      BY <1>2, <1>7, <2>3 DEF Context, Syntax
    <3> QED
      BY <1>8, <1>9, <2>1, <2>3, <3>1, <3>2 DEF HandleTimed, Visiting, Pending
  <2> QED
    BY <1>9, <2>2, <2>3 DEF HandleTimed
<1>10. CASE HandleForce(n)
  <2>1. Visits(Of(n).kids) \o <<Undo("unforce", n)>> \in Seq(Plainly)
    BY <1>4, <1>5, Joined
  <2>2. ctx' \in Context /\ ctx'.site = ctx.site /\ ctx'.depth = ctx.depth
    BY <1>2, <1>7, <1>10 DEF HandleForce, Context, Syntax
  <2>3. RowsOK'
    BY <1>1, <1>10, NoRowsKeeps DEF HandleForce
  <2> QED
    BY <1>8, <1>10, <2>1, <2>2, <2>3 DEF HandleForce, Visiting, Pending
<1>11. CASE HandleConditional(n) \/ HandleLoop(n)
  <2>1. GuardedHead(n) \o Arms(n) \in Seq(Plainly)
    BY <1>4, <1>6, Joined
  <2>2. ctx' \in Context /\ ctx'.site = ctx.site /\ ctx'.depth = ctx.depth
    BY <1>7, <1>11 DEF HandleConditional, HandleLoop, Context
  <2>3. RowsOK'
    BY <1>1, <1>11, NoRowsKeeps DEF HandleConditional, HandleLoop
  <2> QED
    BY <1>8, <1>11, <2>1, <2>2, <2>3 DEF HandleConditional, HandleLoop, Visiting, Pending
<1>12. CASE HandleCase(n)
  <2>1. <<Do("point", n)>> \in Seq(Plainly) /\ <<Do("pop", n)>> \in Seq(Plainly)
    BY <1>1, DoIsPlain, Single
  <2>2. GuardedHead(n) \o <<Do("point", n)>> \o Arms(n) \o <<Do("pop", n)>> \in Seq(Plainly)
    BY <1>4, <1>6, <2>1, Joined
  <2>3. ctx' \in Context /\ ctx'.site = ctx.site /\ ctx'.depth = ctx.depth
    BY <1>7, <1>12 DEF HandleCase, Context
  <2>4. RowsOK'
    BY <1>1, <1>12, NoRowsKeeps DEF HandleCase
  <2> QED
    BY <1>8, <1>12, <2>2, <2>3, <2>4 DEF HandleCase, Visiting, Pending
<1>13. CASE HandleFor(n)
  <2>1. GuardedHead(n) \o Arms(n) \o <<Undo("unindex", n)>> \in Seq(Plainly)
    BY <1>4, <1>5, <1>6, Joined
  <2>2. ctx' \in Context /\ ctx'.site = ctx.site /\ ctx'.depth = ctx.depth
    BY <1>7, <1>13 DEF HandleFor, Context
  <2>3. RowsOK'
    BY <1>1, <1>13, NoRowsKeeps DEF HandleFor
  <2> QED
    BY <1>8, <1>13, <2>1, <2>2, <2>3 DEF HandleFor, Visiting, Pending
<1>14. CASE HandleForeach(n)
  <2>1. Arms(n) \o <<Undo("unindex", n)>> \in Seq(Plainly)
    BY <1>4, <1>5, Joined
  <2>2. ctx' \in Context /\ ctx'.site = ctx.site /\ ctx'.depth = ctx.depth
    BY <1>7, <1>14 DEF HandleForeach, Context
  <2>3. RowsOK'
    BY <1>1, <1>14, NoRowsKeeps DEF HandleForeach
  <2> QED
    BY <1>8, <1>14, <2>1, <2>2, <2>3 DEF HandleForeach, Visiting, Pending
<1>15. CASE HandleCall(n)
  <2>1. <<Do("enter", n)>> \in Seq(Plainly)
    BY <1>1, <1>15, EnterIsPlain, Single DEF HandleCall, Visiting
  <2>2. Visits(Of(n).kids) \o <<Do("enter", n)>> \in Seq(Plainly)
    BY <1>4, <2>1, Joined
  <2>3. RowsOK'
    BY <1>1, <1>15, NoRowsKeeps DEF HandleCall
  <2> QED
    BY <1>7, <1>8, <1>15, <2>2, <2>3 DEF HandleCall, Visiting, Pending
<1> QED
  BY <1>9, <1>10, <1>11, <1>12, <1>13, <1>14, <1>15

(***************************************************************************)
(* What the agenda undoes.                                                 *)
(***************************************************************************)
LEMMA HeadIsItem ==
    ASSUME AgendaOK, agenda # <<>>
    PROVE  /\ Head(agenda) \in Item /\ Head(agenda).node \in Node
           /\ Head(agenda).ctx \in Context /\ Fits(Head(agenda))
  BY Rest DEF Fitting, Item

LEMMA NothingIsPlain == <<>> \in Seq(Plainly)
  OBVIOUS

LEMMA UndoStep ==
    ASSUME WalkInv, Unguard \/ Unindex \/ Undelay \/ Unforce
    PROVE  WalkInv'
<1>1. /\ agenda # <<>> /\ Head(agenda).op # "leave" /\ Replace(<<>>)
      /\ NoRows /\ NoLevels /\ NoCalls /\ Quiet
  BY DEF Unguard, Unindex, Undelay, Unforce, Pending
<1>2. RowsOK' /\ LevelsOK'
  BY <1>1, NoRowsKeeps, NoLevelsKeeps DEF WalkInv
<1>3. Head(agenda).ctx \in Context /\ ctx \in Context
  BY <1>1, HeadIsItem DEF WalkInv, CtxOK
<1>4. ctx' \in Context /\ ctx'.site = ctx.site /\ ctx'.depth = ctx.depth
  BY <1>3 DEF Unguard, Unindex, Undelay, Unforce, Context
<1> QED
  BY <1>1, <1>2, <1>4, NothingIsPlain, Stepped

(***************************************************************************)
(* Levels come and go.                                                     *)
(***************************************************************************)
\* Numbered is known by any place that parts the levels with a row from those
\* without.
LEMMA PartedAt ==
    ASSUME NEW lv \in Seq(Level), NEW p \in 0..Len(lv),
           \A i \in 1..Len(lv) : lv[i].id # 0 <=> i <= p
    PROVE  Settled(lv) = p
<1>1. Len(lv) \in Nat /\ p \in Nat /\ 1 \in Int /\ p \in Int
  OBVIOUS
<1>2. \A i : i \in {j \in 1..Len(lv) : lv[j].id # 0} <=> i \in 1..p
  BY <1>1
<1>3. {j \in 1..Len(lv) : lv[j].id # 0} = 1..p
  BY <1>2
<1>4. Cardinality(1..p) = p
  BY <1>1, FS_Interval
<1> QED
  BY <1>3, <1>4 DEF Settled

LEMMA LevelAdded ==
    ASSUME LevelsOK, NEW n \in Node, NEW k \in Nat
    PROVE  LET lv == Append(levels, [node |-> n, arm |-> k, id |-> 0])
           IN  Numbered(lv, Len(frames)) /\ Settled(lv) = Settled(levels)
<1> DEFINE new == [node |-> n, arm |-> k, id |-> 0]
           lv == Append(levels, new)
<1>1. new \in Level /\ new.id = 0
  BY DEF Level
<1> HIDE DEF new
<1>2. /\ lv \in Seq(Level) /\ Len(lv) = Len(levels) + 1
      /\ \A i \in 1..Len(levels) : lv[i] = levels[i]
      /\ lv[Len(levels) + 1] = new
  BY <1>1, WithLast DEF LevelsOK, Numbered
<1>3. PICK m \in Nat, p \in Nat : m = Len(levels) /\ p = Settled(levels) /\ p <= m
  BY SettledCounts DEF LevelsOK, Numbered
<1> HIDE DEF lv
<1>4. \A i \in 1..m + 1 : lv[i].id # 0 <=> i <= p
  BY <1>1, <1>2, <1>3 DEF LevelsOK, Numbered
<1>5. Settled(lv) = p
  BY <1>2, <1>3, <1>4, PartedAt
<1>6. Len(frames) \in Nat
  BY DEF LevelsOK, Numbered
<1>7. \A i \in 1..m + 1 : lv[i].id <= Len(frames)
  BY <1>1, <1>2, <1>3, <1>6 DEF LevelsOK, Numbered
<1>8. Numbered(lv, Len(frames))
  BY <1>2, <1>3, <1>4, <1>5, <1>7 DEF Numbered
<1> QED
  BY <1>3, <1>5, <1>8 DEF lv, new

LEMMA Shortened ==
    ASSUME NEW lv, NEW rows \in Nat, Numbered(lv, rows)
    PROVE  Numbered(SubSeq(lv, 1, Len(lv) - 1), rows)
<1>1. PICK m \in Nat, p \in Nat : m = Len(lv) /\ p = Settled(lv) /\ p <= m
  BY SettledCounts DEF Numbered
<1>2. PICK short : short = SubSeq(lv, 1, m - 1)
  OBVIOUS
<1>3. CASE m = 0
  <2>1. short = <<>>
    BY <1>2, <1>3, SubSeqEmpty
  <2>2. <<>> \in Seq(Level) /\ Len(<<>>) = 0
    OBVIOUS
  <2>3. Numbered(<<>>, rows)
    BY <2>2 DEF Numbered
  <2> QED
    BY <1>1, <1>2, <2>1, <2>3
<1>4. CASE m # 0
  <2>1. m - 1 \in Nat /\ m - 1 \in Int /\ 1 \in Int
    BY <1>4
  <2>2. \A i \in 1..m - 1 : lv[i] \in Level
    BY <1>1, <2>1, ElementIn DEF Numbered
  <2>3. /\ short \in Seq(Level)
        /\ Len(short) = IF 1 <= m - 1 THEN (m - 1) - 1 + 1 ELSE 0
        /\ \A i \in 1..(m - 1) - 1 + 1 : short[i] = lv[1 + i - 1]
    BY <1>2, <2>1, <2>2, SubSeqProperties
  <2>4. Len(short) = m - 1 /\ \A i \in 1..m - 1 : short[i] = lv[i]
    <3>1. (m - 1) - 1 + 1 = m - 1 /\ (IF 1 <= m - 1 THEN (m - 1) - 1 + 1 ELSE 0) = m - 1
      BY <1>4
    <3>2. \A i \in 1..m - 1 : 1 + i - 1 = i
      OBVIOUS
    <3>3. \A i \in 1..m - 1 : short[i] = lv[1 + i - 1]
      BY <2>3, <3>1, Zenon
    <3> QED
      BY <2>3, <3>1, <3>2, <3>3
  <2> DEFINE q == IF p <= m - 1 THEN p ELSE m - 1
  <2>5. q \in 0..m - 1 /\ \A i \in 1..m - 1 : i <= q <=> i <= p
    BY <1>1, <2>1
  <2> HIDE DEF q
  <2>6. \A i \in 1..m - 1 : short[i].id # 0 <=> i <= q
    BY <1>1, <2>4, <2>5 DEF Numbered
  <2>7. Settled(short) = q
    BY <2>3, <2>4, <2>5, <2>6, PartedAt
  <2>8. \A i \in 1..m - 1 : short[i].id <= rows
    BY <1>1, <2>4 DEF Numbered
  <2>9. Numbered(short, rows)
    BY <2>3, <2>4, <2>6, <2>7, <2>8 DEF Numbered
  <2> QED
    BY <1>1, <1>2, <2>9
<1> QED
  BY <1>3, <1>4

\* Settle gives rows to the levels without one, and to every one of them.
LEMMA SettledAll ==
    ASSUME CtxOK, frames \in Seq(Frame), NEW lv, Numbered(lv, Len(frames)), Settle(lv)
    PROVE  LevelsOK'
<1>1. PICK m \in Nat, p \in Nat : m = Len(lv) /\ p = Settled(lv) /\ p <= m
  BY SettledCounts DEF Numbered
<1>2. PICK f \in Nat : f = Len(frames)
  BY DEF CtxOK
<1>3. lv \in Seq(Level) /\ \A i \in 1..m : lv[i] \in Level
  BY <1>1, ElementIn DEF Numbered
<1>4. ASSUME NEW i \in 1..m
      PROVE  IdOf(lv, i) \in Nat \ {0} /\ IdOf(lv, i) <= f + m - p
  <2>1. lv[i].id \in Nat /\ lv[i].id <= f /\ (lv[i].id # 0 <=> i <= p)
    BY <1>1, <1>2, <1>3 DEF Numbered, Level
  <2>2. IdOf(lv, i) = IF lv[i].id # 0 THEN lv[i].id ELSE f + i - p
    BY <1>1, <1>2 DEF IdOf
  <2>3. CASE lv[i].id # 0
    BY <1>1, <1>2, <2>1, <2>2, <2>3
  <2>4. CASE lv[i].id = 0
    <3>1. i > p
      BY <1>1, <2>1, <2>4
    <3> QED
      BY <1>1, <1>2, <2>2, <2>4, <3>1
  <2> QED
    BY <2>1, <2>3, <2>4
<1>5. /\ levels' = [i \in 1..m |-> levels'[i]]
      /\ \A i \in 1..m : levels'[i] = [lv[i] EXCEPT !.id = IdOf(lv, i)]
  BY <1>1 DEF Settle
<1>6. \A i \in 1..m : levels'[i] \in Level /\ levels'[i].id = IdOf(lv, i)
  <2>1. SUFFICES ASSUME NEW i \in 1..m
                 PROVE  levels'[i] \in Level /\ levels'[i].id = IdOf(lv, i)
    OBVIOUS
  <2>2. lv[i] \in Level /\ IdOf(lv, i) \in Nat
    BY <1>3, <1>4
  <2>3. levels'[i] = [lv[i] EXCEPT !.id = IdOf(lv, i)]
    BY <1>5
  <2> QED
    BY <2>2, <2>3 DEF Level
<1>7. levels' \in Seq(Level) /\ Len(levels') = m
  BY <1>5, <1>6, Listed
<1> DEFINE new == [k \in 1..m - p |->
               LET i == p + k
               IN  [node |-> lv[i].node, arm |-> lv[i].arm, depth |-> i,
                    parent |-> IF i = 1 THEN 0 ELSE IdOf(lv, i - 1),
                    site |-> ctx.site]]
<1>8. frames' = frames \o new
  BY <1>1 DEF Settle
<1>9. ASSUME NEW k \in 1..m - p PROVE new[k] \in Frame
  <2>1. PICK i \in 1..m : i = p + k
    BY <1>1
  <2>2. lv[i].node \in Node /\ lv[i].arm \in Nat
    BY <1>3 DEF Level
  <2>3. (IF i = 1 THEN 0 ELSE IdOf(lv, i - 1)) \in Nat
    <3>1. i # 1 => i - 1 \in 1..m
      BY <1>1
    <3> QED
      BY <1>4, <3>1
  <2>4. ctx.site \in Nat
    BY DEF CtxOK, Context
  <2>5. new[k] = [node |-> lv[i].node, arm |-> lv[i].arm, depth |-> i,
                  parent |-> IF i = 1 THEN 0 ELSE IdOf(lv, i - 1), site |-> ctx.site]
    BY <2>1
  <2> HIDE DEF new
  <2> QED
    BY <2>2, <2>3, <2>4, <2>5 DEF Frame
<1>10. new = [k \in 1..m - p |-> new[k]] /\ m - p \in Nat
  BY <1>1
<1> HIDE DEF new
<1>11. new \in Seq(Frame) /\ Len(new) = m - p
  BY <1>9, <1>10, Listed
<1>12. frames' \in Seq(Frame) /\ Len(frames') = f + (m - p)
  BY <1>2, <1>8, <1>11, Joined
<1>13. \A i \in 1..m : levels'[i].id # 0 /\ levels'[i].id <= Len(frames')
  BY <1>1, <1>2, <1>4, <1>6, <1>12
<1>14. PICK now \in Seq(Level) : now = levels'
  BY <1>7
<1>15. m \in 0..Len(now) /\ \A i \in 1..Len(now) : now[i].id # 0 <=> i <= m
  BY <1>1, <1>7, <1>13, <1>14
<1>16. Settled(now) = m
  BY <1>15, PartedAt
<1>17. Numbered(now, Len(frames'))
  BY <1>7, <1>13, <1>14, <1>15, <1>16 DEF Numbered
<1> QED
  BY <1>12, <1>14, <1>17 DEF LevelsOK, Numbered, Settled

LEMMA LevelStep ==
    ASSUME WalkInv, PushPoint \/ EnterArm \/ PopLevel
    PROVE  WalkInv'
<1>1. /\ agenda # <<>> /\ Head(agenda).op # "leave"
      /\ NoRows /\ NoCalls /\ Quiet /\ UNCHANGED ctx
  BY DEF PushPoint, EnterArm, PopLevel, Pending
<1>2. /\ StartOK /\ RowsOK /\ LevelsOK /\ CtxOK /\ CallsOK /\ AgendaOK
      /\ RowsOK' /\ ctx \in Context
  BY <1>1, NoRowsKeeps DEF WalkInv, CtxOK
<1>3. PICK n \in Node : n = Head(agenda).node
  BY <1>1, <1>2, HeadIsItem
<1>4. ASSUME NEW items \in Seq(Plainly), Replace(items), LevelsOK' PROVE WalkInv'
  BY <1>1, <1>2, <1>4, Stepped
<1>5. CASE PushPoint
  <2>1. /\ levels' = Append(levels, [node |-> n, arm |-> 0, id |-> 0])
        /\ UNCHANGED frames /\ Replace(<<>>)
    BY <1>3, <1>5 DEF PushPoint
  <2>2. LevelsOK'
    <3> DEFINE lv == Append(levels, [node |-> n, arm |-> 0, id |-> 0])
    <3>1. Numbered(lv, Len(frames))
      BY <1>2, LevelAdded
    <3> HIDE DEF lv
    <3>2. levels' = lv
      BY <2>1 DEF lv
    <3> QED
      BY <1>2, <2>1, <3>1, <3>2 DEF LevelsOK, Numbered, Settled
  <2> QED
    BY <1>4, <2>1, <2>2, NothingIsPlain
<1>6. CASE EnterArm
  <2>1. PICK k : k = Head(agenda).arm
    OBVIOUS
  <2>2. k \in 1..Len(Of(n).arms)
    BY <1>1, <1>2, <1>3, <1>6, <2>1, HeadIsItem DEF EnterArm, Pending, Fits
  <2>3. Of(n).arms[k] \in Node /\ k \in Nat
    BY <1>2, <2>2, SyntaxOf, ElementIn DEF Syntax
  <2>4. <<Do("visit", Of(n).arms[k]), Do("pop", n)>> \in Seq(Plainly)
    <3>1. Do("visit", Of(n).arms[k]) \in Plainly /\ Do("pop", n) \in Plainly
      BY <1>2, <2>3, DoIsPlain
    <3> QED
      BY <3>1
  <2>5. /\ Settle(Append(levels, [node |-> n, arm |-> k, id |-> 0]))
        /\ Replace(<<Do("visit", Of(n).arms[k]), Do("pop", n)>>)
    BY <1>3, <1>6, <2>1 DEF EnterArm
  <2>6. LevelsOK'
    <3> DEFINE lv == Append(levels, [node |-> n, arm |-> k, id |-> 0])
    <3>1. Numbered(lv, Len(frames)) /\ Settle(lv)
      BY <1>2, <2>3, <2>5, LevelAdded
    <3> HIDE DEF lv
    <3> QED
      BY <1>2, <3>1, SettledAll DEF LevelsOK
  <2> QED
    BY <1>4, <2>4, <2>5, <2>6
<1>7. CASE PopLevel
  <2>1. levels' = SubSeq(levels, 1, Len(levels) - 1) /\ UNCHANGED frames /\ Replace(<<>>)
    BY <1>7 DEF PopLevel
  <2>2. LevelsOK'
    <3>1. Len(frames) \in Nat /\ Numbered(levels, Len(frames)) /\ frames \in Seq(Frame)
      BY <1>2 DEF LevelsOK
    <3>2. PICK lv : lv = SubSeq(levels, 1, Len(levels) - 1)
      OBVIOUS
    <3>3. Numbered(lv, Len(frames))
      BY <3>1, <3>2, Shortened
    <3>4. levels' = lv
      BY <2>1, <3>2
    <3> QED
      BY <2>1, <3>1, <3>3, <3>4 DEF LevelsOK, Numbered, Settled
  <2> QED
    BY <1>4, <2>1, <2>2, NothingIsPlain
<1> QED
  BY <1>5, <1>6, <1>7

(***************************************************************************)
(* Calls.                                                                  *)
(***************************************************************************)
LEMMA Allocated ==
    ASSUME WalkInv, NEW n \in Node, Entering(n), Allocate(n)
    PROVE  /\ Grown /\ SitesNested' /\ binds' \in Seq(Bind)
           /\ Len(sites') = Len(sites) + 1
           /\ sites'[Len(sites) + 1].parent = ctx.site
           /\ sites'[Len(sites) + 1].depth = ctx.depth + 1
           /\ \A s \in 0..Len(sites) : DepthAt(s)' = DepthAt(s)
<1>1. /\ CallsOK /\ CtxOK /\ RowsOK /\ AgendaOK /\ StartOK /\ sites \in Seq(Site)
  BY DEF WalkInv, CallsOK
<1>2. Of(n).callee \in Node
  BY <1>1, HeadIsItem DEF Entering, Pending, Fits
<1>3. PICK c \in Nat : /\ sites' = Append(sites, Opened(n, c))
                       /\ binds' = binds \o Bindings(n, c)
  <2> DEFINE caller == IF ctx.bindable THEN curStmt ELSE 0
  <2>1. caller \in Nat
    BY <1>1 DEF RowsOK
  <2>2. sites' = Append(sites, Opened(n, caller)) /\ binds' = binds \o Bindings(n, caller)
    BY DEF Allocate
  <2> HIDE DEF caller
  <2> QED
    BY <2>1, <2>2
<1>4. ctx.site \in Nat /\ ctx.depth \in Nat /\ ctx.site \in 0..Len(sites)
  BY <1>1 DEF CtxOK, Context
<1> DEFINE new == Opened(n, c)
<1>5. new \in Site /\ new.parent = ctx.site /\ new.depth = ctx.depth + 1
  BY <1>2, <1>4 DEF Opened, Site
<1> HIDE DEF new
<1>6. PICK k \in Nat : k = Len(sites)
  BY <1>1
<1>7. /\ sites' \in Seq(Site) /\ Len(sites') = k + 1
      /\ \A i \in 1..k : sites'[i] = sites[i]
      /\ sites'[k + 1] = new
  BY <1>1, <1>3, <1>5, <1>6, WithLast DEF new
<1>8. Grown
  BY <1>1, <1>6, <1>7 DEF Grown
<1>9. \A s \in 0..k : DepthAt(s)' = DepthAt(s)
  BY <1>6, <1>7 DEF DepthAt
<1>10. SitesNested'
  <2>1. ASSUME NEW s \in 1..k + 1
        PROVE  /\ sites'[s].parent \in 0..s - 1
               /\ sites'[s].depth = DepthAt(sites[s].parent)' + 1
               /\ sites'[s].depth <= Budget + 1
    <3>1. CASE s \in 1..k
      <4>1. /\ sites[s].parent \in 0..s - 1
            /\ sites[s].depth = DepthAt(sites[s].parent) + 1
            /\ sites[s].depth <= Budget + 1
        BY <1>1, <1>6, <3>1 DEF CallsOK, SitesNested
      <4>2. sites[s].parent \in 0..k
        BY <1>6, <3>1, <4>1
      <4>3. PICK p : p = sites[s].parent
        OBVIOUS
      <4>4. DepthAt(p)' = DepthAt(p)
        BY <1>9, <4>2, <4>3
      <4>5. sites'[s] = sites[s]
        BY <1>7, <3>1
      <4> QED
        BY <4>1, <4>3, <4>4, <4>5 DEF DepthAt
    <3>2. CASE s = k + 1
      <4>1. ctx.depth = DepthAt(ctx.site) /\ ctx.depth + budget <= Budget
        BY <1>1 DEF CtxOK
      <4>2. budget \in Nat /\ Budget \in Nat
        BY <1>1, BudgetNat DEF CallsOK
      <4>3. PICK p \in 0..k : p = ctx.site
        BY <1>4, <1>6
      <4>4. DepthAt(p)' = ctx.depth
        BY <1>9, <4>1, <4>3
      <4>5. ctx.depth + 1 <= Budget + 1
        BY <1>4, <4>1, <4>2
      <4>6. sites'[s].parent = p /\ sites'[s].depth = ctx.depth + 1
        BY <1>5, <1>7, <3>2, <4>3
      <4>7. p \in 0..s - 1
        BY <1>6, <3>2, <4>3
      <4> QED
        BY <4>4, <4>5, <4>6, <4>7 DEF DepthAt
    <3> QED
      BY <1>6, <3>1, <3>2
  <2>2. DOMAIN sites' = 1..k + 1
    BY <1>7
  <2> QED
    BY <2>1, <2>2 DEF SitesNested, DepthAt
<1>11. binds' \in Seq(Bind)
  <2> DEFINE more == Bindings(n, c)
  <2>1. Of(n).binds \in Nat
    BY <1>1, SyntaxOf DEF Syntax
  <2>2. more = [i \in 1..Of(n).binds |-> [site |-> k + 1, stmt |-> c]]
    BY <1>6 DEF Bindings
  <2>3. [site |-> k + 1, stmt |-> c] \in Bind
    BY DEF Bind
  <2> HIDE DEF more
  <2>4. more = [i \in 1..Of(n).binds |-> more[i]] /\ \A i \in 1..Of(n).binds : more[i] \in Bind
    BY <2>2, <2>3
  <2>5. more \in Seq(Bind)
    BY <2>1, <2>4, Listed
  <2>6. binds \in Seq(Bind)
    BY <1>1 DEF CallsOK
  <2> QED
    BY <1>3, <2>5, <2>6, Joined DEF more
<1> QED
  BY <1>5, <1>6, <1>7, <1>8, <1>9, <1>10, <1>11

\* A call that is not expanded leaves a site and nothing else.
LEMMA GivenUpStep ==
    ASSUME WalkInv, NEW n \in Node, Recursive(n) \/ OverBudget(n)
    PROVE  WalkInv'
<1>1. /\ Entering(n) /\ Allocate(n) /\ Replace(<<>>) /\ NoRows /\ NoLevels /\ Quiet
      /\ UNCHANGED <<ctx, budget>> /\ truncated' \in {truncated, truncated + 1}
  BY DEF Recursive, OverBudget
<1>2. /\ Grown /\ SitesNested' /\ binds' \in Seq(Bind)
      /\ \A s \in 0..Len(sites) : DepthAt(s)' = DepthAt(s)
  BY <1>1, Allocated
<1>3. StartOK' /\ RowsOK' /\ LevelsOK'
  BY <1>1, QuietKeeps, NoRowsKeeps, NoLevelsKeeps DEF WalkInv
<1>4. CallsOK'
  BY <1>1, <1>2 DEF CallsOK, WalkInv, Grown
<1>5. CtxOK'
  <2>1. ctx.site \in 0..Len(sites) /\ ctx.depth = DepthAt(ctx.site)
    BY DEF WalkInv, CtxOK
  <2>2. PICK p \in 0..Len(sites) : p = ctx.site
    BY <2>1
  <2>3. ctx'.site = p /\ ctx'.depth = DepthAt(p)'
    BY <1>1, <1>2, <2>1, <2>2
  <2>4. p \in 0..Len(sites')
    BY <1>2, <2>2 DEF Grown
  <2> QED
    BY <1>1, <2>3, <2>4 DEF CtxOK, WalkInv, DepthAt
<1>6. AgendaOK' /\ NestOK'
  <2>1. agenda # <<>> /\ Head(agenda).op # "leave" /\ UNCHANGED program
    BY <1>1 DEF Entering, Pending, Quiet
  <2> QED
    BY <1>1, <1>2, <2>1, NothingIsPlain, PlainlyReplaced DEF WalkInv
<1>7. IdleOK'
  BY <1>1 DEF WalkInv, IdleOK, Quiet, Entering, Pending
<1> QED
  BY <1>3, <1>4, <1>5, <1>6, <1>7 DEF WalkInv

\* A call that is: its site is in force until its "leave", which goes back to
\* the one that was.
LEMMA ExpandStep == ASSUME WalkInv, NEW n \in Node, Expand(n) PROVE WalkInv'
<1>1. /\ Entering(n) /\ Allocate(n) /\ NoRows /\ NoLevels /\ Quiet
      /\ budget > 0 /\ budget' = budget - 1 /\ UNCHANGED truncated
      /\ Replace(<<Do("visit", Of(n).callee), Undo("leave", n)>>)
      /\ ctx' = [ctx EXCEPT !.site = Len(sites) + 1, !.depth = @ + 1,
                            !.active = @ \cup {Of(n).callee}, !.sub = Of(n).callee]
  BY DEF Expand
<1>2. /\ Grown /\ SitesNested' /\ binds' \in Seq(Bind)
      /\ Len(sites') = Len(sites) + 1
      /\ sites'[Len(sites) + 1].parent = ctx.site
      /\ sites'[Len(sites) + 1].depth = ctx.depth + 1
  BY <1>1, Allocated
<1>3. PICK k \in Nat : k = Len(sites)
  BY DEF WalkInv, CallsOK
<1>4. /\ StartOK /\ CtxOK /\ CallsOK /\ AgendaOK /\ agenda # <<>>
      /\ Head(agenda).op = "enter" /\ UNCHANGED program
  BY <1>1 DEF WalkInv, Entering, Pending, Quiet
<1>5. StartOK' /\ RowsOK' /\ LevelsOK'
  BY <1>1, QuietKeeps, NoRowsKeeps, NoLevelsKeeps DEF WalkInv
<1>6. CallsOK'
  <2>1. budget' \in 0..Budget
    BY <1>1, <1>4, BudgetNat DEF CallsOK
  <2> QED
    BY <1>1, <1>2, <1>4, <2>1 DEF CallsOK, Grown
<1>7. PICK callee \in Node : callee = Of(n).callee
  BY <1>1, <1>4, HeadIsItem DEF Entering, Fits
<1>8. ctx \in Context
  BY <1>4 DEF CtxOK
<1>9. /\ ctx' \in Context /\ ctx'.site = k + 1 /\ ctx'.depth = ctx.depth + 1
  <2>1. ctx' = [ctx EXCEPT !.site = k + 1, !.depth = ctx.depth + 1,
                           !.active = ctx.active \cup {callee}, !.sub = callee]
    BY <1>1, <1>3, <1>7
  <2>2. ctx.depth + 1 \in Nat /\ ctx.active \cup {callee} \in SUBSET Node /\ k + 1 \in Nat
    BY <1>8 DEF Context
  <2> QED
    BY <1>8, <2>1, <2>2 DEF Context
<1>10. CtxOK'
  <2>1. ctx'.site # 0 /\ ctx'.site \in 0..Len(sites')
    BY <1>2, <1>3, <1>9
  <2>2. ctx'.depth = DepthAt(ctx.site)'
    <3>1. sites'[ctx'.site].depth = ctx'.depth
      BY <1>2, <1>3, <1>9
    <3> QED
      BY <2>1, <3>1 DEF DepthAt
  <2>3. ctx'.depth + budget' <= Budget
    BY <1>1, <1>4, <1>8, <1>9, BudgetNat DEF CtxOK, CallsOK, Context
  <2> QED
    BY <1>9, <2>1, <2>2, <2>3 DEF CtxOK
<1> DEFINE items == <<Do("visit", callee), Undo("leave", n)>>
<1>11. items \in Seq(Fitting) /\ Len(items) = 2
  <2>1. Do("visit", callee) \in Fitting
    BY <1>4, DoIsPlain DEF Plainly
  <2>2. Undo("leave", n) \in Item
    BY <1>8 DEF Undo, Item
  <2>3. Undo("leave", n) \in Fitting
    BY <1>4, <1>7, <2>2 DEF Undo, Fitting, Fits, CtxOK
  <2> QED
    BY <2>1, <2>3
<1>12. items \in Seq(Fitting') /\ Replace(items)
  BY <1>1, <1>2, <1>4, <1>7, <1>11, FitsStill, Widened
<1>13. PICK m \in Nat \ {0} : m = Len(agenda)
  BY <1>4, Rest
<1>14. items[1].op = "visit" /\ items[2].op = "leave" /\ items[2].ctx = ctx
  BY DEF Do, Undo
<1> HIDE DEF items
<1>15. /\ AgendaOK' /\ Len(agenda') = m + 1
       /\ agenda'[1].op = "visit" /\ agenda'[2].op = "leave" /\ agenda'[2].ctx = ctx
       /\ \A i \in 3..m + 1 : agenda'[i] = agenda[i - 1]
  <2>1. /\ AgendaOK' /\ Len(agenda') = 2 + m - 1
        /\ \A i \in 1..2 : agenda'[i] = items[i]
        /\ \A i \in 2 + 1..Len(agenda') : agenda'[i] = agenda[i - 2 + 1]
    <3>1. /\ AgendaOK' /\ Len(agenda') = Len(items) + Len(agenda) - 1
          /\ \A i \in 1..Len(items) : agenda'[i] = items[i]
          /\ \A i \in Len(items) + 1..Len(agenda') :
                agenda'[i] = agenda[i - Len(items) + 1]
      BY <1>2, <1>4, <1>12, ReplacedItems
    <3> QED
      BY <1>11, <1>13, <3>1
  <2>2. Len(agenda') = m + 1 /\ \A i \in 3..m + 1 : agenda'[i] = agenda[i - 1]
    BY <2>1
  <2> QED
    BY <1>14, <2>1, <2>2
<1>16. NestOK'
  <2>1. PICK s : InForce(s)
    BY DEF WalkInv, NestOK
  <2>2. /\ s \in [1..m + 1 -> 0..k] /\ s[1] = ctx.site /\ s[m + 1] = 0
        /\ \A i \in 1..m :
              IF agenda[i].op = "leave"
              THEN /\ s[i] # 0 /\ s[i + 1] = sites[s[i]].parent
                   /\ agenda[i].ctx.site = s[i + 1]
              ELSE s[i + 1] = s[i]
    BY <1>3, <1>13, <2>1 DEF InForce
  <2>3. s[2] = ctx.site
    BY <1>4, <1>13, <2>2, Rest
  <2> DEFINE t == [i \in 1..m + 2 |-> IF i <= 2 THEN k + 1 ELSE s[i - 1]]
  <2>4. t \in [1..m + 2 -> 0..k + 1]
    <3>1. ASSUME NEW i \in 1..m + 2 PROVE t[i] \in 0..k + 1
      <4>1. CASE i <= 2
        BY <4>1
      <4>2. CASE ~(i <= 2)
        <5>1. i - 1 \in 1..m + 1
          BY <4>2
        <5>2. s[i - 1] \in 0..k
          BY <2>2, <5>1
        <5> QED
          BY <4>2, <5>2
      <4> QED
        BY <4>1, <4>2
    <3> QED
      BY <3>1
  <2>5. t[1] = k + 1 /\ t[2] = k + 1 /\ t[3] = ctx.site /\ t[m + 2] = 0
    <3>1. 1 \in 1..m + 2 /\ 2 \in 1..m + 2 /\ 3 \in 1..m + 2 /\ m + 2 \in 1..m + 2
          /\ ~(m + 2 <= 2) /\ m + 2 - 1 = m + 1
      OBVIOUS
    <3> QED
      BY <2>2, <2>3, <3>1
  <2>6. \A i \in 3..m + 1 : t[i] = s[i - 1] /\ t[i + 1] = s[i]
    OBVIOUS
  <2> HIDE DEF t
  <2>7. ASSUME NEW i \in 1..m + 1
        PROVE  IF agenda'[i].op = "leave"
               THEN /\ t[i] # 0 /\ t[i + 1] = sites'[t[i]].parent
                    /\ agenda'[i].ctx.site = t[i + 1]
               ELSE t[i + 1] = t[i]
    <3>1. CASE i = 1
      BY <1>15, <2>5, <3>1
    <3>2. CASE i = 2
      BY <1>2, <1>3, <1>15, <2>5, <3>2
    <3>3. CASE i \in 3..m + 1
      <4>1. PICK j \in 2..m : j = i - 1 /\ j + 1 = i
        BY <3>3
      <4>2. agenda'[i] = agenda[j] /\ t[i] = s[j] /\ t[i + 1] = s[j + 1]
        BY <1>15, <2>6, <3>3, <4>1
      <4>3. s[j] \in 0..k /\ j \in 1..m
        BY <2>2, <4>1
      <4>4. s[j] # 0 => sites'[s[j]] = sites[s[j]]
        BY <1>2, <1>3, <4>3 DEF Grown
      <4> QED
        BY <2>2, <4>2, <4>3, <4>4
    <3> QED
      BY <3>1, <3>2, <3>3
  <2>8. (m + 1) + 1 = m + 2
    OBVIOUS
  <2>9. InForce(t)'
    BY <1>2, <1>3, <1>9, <1>15, <2>4, <2>5, <2>7, <2>8 DEF InForce
  <2> QED
    BY <2>9 DEF NestOK
<1>17. IdleOK'
  BY <1>1, <1>4 DEF WalkInv, IdleOK, Quiet
<1> QED
  BY <1>5, <1>6, <1>10, <1>15, <1>16, <1>17 DEF WalkInv

LEMMA LeaveStep == ASSUME WalkInv, LeaveCall PROVE WalkInv'
<1>1. /\ agenda # <<>> /\ Head(agenda).op = "leave" /\ Replace(<<>>)
      /\ NoRows /\ NoLevels /\ NoCalls /\ Quiet
  BY DEF LeaveCall, Pending
<1>2. /\ StartOK' /\ RowsOK' /\ LevelsOK' /\ CallsOK' /\ CallsOK /\ AgendaOK
      /\ ctx \in Context
  BY <1>1, QuietKeeps, NoRowsKeeps, NoLevelsKeeps, NoCallsKeeps DEF WalkInv, CtxOK
<1>3. PICK m \in Nat \ {0} : m = Len(agenda)
  BY <1>1, <1>2, Rest
<1>4. Head(agenda) = agenda[1] /\ Head(agenda).ctx \in Context
  BY <1>1, <1>2, Rest, HeadIsItem
<1>5. PICK s : InForce(s)
  BY DEF WalkInv, NestOK
<1>6. /\ s \in [1..m + 1 -> 0..Len(sites)] /\ s[1] = ctx.site /\ s[m + 1] = 0
      /\ \A i \in 1..m :
            IF agenda[i].op = "leave"
            THEN /\ s[i] # 0 /\ s[i + 1] = sites[s[i]].parent
                 /\ agenda[i].ctx.site = s[i + 1]
            ELSE s[i + 1] = s[i]
  BY <1>3, <1>5 DEF InForce
<1>7. PICK k \in Nat : k = Len(sites)
  BY <1>2 DEF CallsOK
<1>8. PICK here \in 1..k, out \in 0..k :
          /\ here = ctx.site /\ out = sites[here].parent
          /\ out = s[2] /\ Head(agenda).ctx.site = out
  <2>1. 1 \in 1..m /\ 1 \in 1..m + 1 /\ 2 \in 1..m + 1
    OBVIOUS
  <2>2. s[1] # 0 /\ s[2] = sites[s[1]].parent /\ agenda[1].ctx.site = s[2]
    BY <1>1, <1>4, <1>6, <2>1
  <2>3. s[1] \in 1..k /\ s[2] \in 0..k
    BY <1>6, <1>7, <2>1, <2>2
  <2> QED
    BY <1>4, <1>6, <2>2, <2>3
<1>9. ctx.depth = DepthAt(out) + 1 /\ DepthAt(out) \in Nat
  <2>1. ctx.depth = sites[here].depth
    <3>1. ctx.depth = DepthAt(ctx.site)
      BY DEF WalkInv, CtxOK
    <3>2. ctx.depth = DepthAt(here) /\ here # 0
      BY <1>8, <3>1
    <3> QED
      BY <3>2 DEF DepthAt
  <2>2. sites[here].depth = DepthAt(out) + 1
    <3>1. DOMAIN sites = 1..k
      BY <1>2, <1>7 DEF CallsOK
    <3>2. sites[here].depth = DepthAt(sites[here].parent) + 1
      BY <1>2, <3>1 DEF CallsOK, SitesNested
    <3> QED
      BY <1>8, <3>2 DEF DepthAt
  <2>3. DepthAt(out) \in Nat
    <3>1. out # 0 => sites[out] \in Site
      BY <1>2, <1>7, <1>8, ElementIn DEF CallsOK
    <3> QED
      BY <3>1 DEF DepthAt, Site
  <2> QED
    BY <2>1, <2>2, <2>3
<1>10. /\ ctx' \in Context /\ ctx'.site = out /\ ctx'.depth = DepthAt(out)
  <2>1. PICK saved \in Context : saved = Head(agenda).ctx
    BY <1>4
  <2>2. PICK callee : callee = Of(Head(agenda).node).callee
    OBVIOUS
  <2>3. ctx' = [ctx EXCEPT !.site = saved.site, !.sub = saved.sub, !.depth = @ - 1,
                           !.active = @ \ {callee}]
    BY <2>1, <2>2 DEF LeaveCall
  <2>4. /\ saved.site = out /\ saved.site \in Nat /\ saved.sub \in Node \cup {0}
        /\ ctx.depth - 1 = DepthAt(out) /\ ctx.active \ {callee} \in SUBSET Node
    BY <1>2, <1>8, <1>9, <2>1 DEF Context
  <2> QED
    BY <1>2, <1>9, <2>3, <2>4 DEF Context
<1>11. CtxOK'
  <2>1. DepthAt(out)' = DepthAt(out) /\ UNCHANGED <<sites, budget>>
    BY <1>1 DEF NoCalls, DepthAt
  <2>2. ctx'.depth + budget' <= Budget
    BY <1>2, <1>9, <1>10, <2>1, BudgetNat DEF WalkInv, CtxOK, CallsOK
  <2>3. ctx'.depth = DepthAt(ctx.site)'
    BY <1>10, <2>1 DEF DepthAt
  <2>4. ctx'.site \in 0..Len(sites')
    BY <1>7, <1>8, <1>10, <2>1
  <2> QED
    BY <1>10, <2>2, <2>3, <2>4 DEF CtxOK
<1>12. Grown /\ UNCHANGED <<program, sites>>
  BY <1>1, <1>2 DEF Grown, NoCalls, Quiet, CallsOK
<1>13. /\ AgendaOK' /\ Len(agenda') = m - 1
       /\ \A i \in 1..m - 1 : agenda'[i] = agenda[i + 1]
  <2> DEFINE none == <<>>
  <2>1. none \in Seq(Fitting') /\ Len(none) = 0 /\ Replace(none)
    BY <1>1
  <2> HIDE DEF none
  <2>2. /\ AgendaOK' /\ Len(agenda') = 0 + m - 1
        /\ \A i \in 0 + 1..Len(agenda') : agenda'[i] = agenda[i - 0 + 1]
    <3>1. /\ AgendaOK' /\ Len(agenda') = Len(none) + Len(agenda) - 1
          /\ \A i \in Len(none) + 1..Len(agenda') :
                agenda'[i] = agenda[i - Len(none) + 1]
      BY <1>1, <1>2, <1>12, <2>1, ReplacedItems
    <3> QED
      BY <1>3, <2>1, <3>1
  <2> QED
    BY <2>2
<1>14. NestOK'
  <2> DEFINE t == [i \in 1..m |-> s[i + 1]]
  <2>1. t \in [1..m -> 0..k]
    BY <1>6, <1>7
  <2>2. t[1] = out /\ t[m] = 0
    BY <1>6, <1>8
  <2>3. ASSUME NEW i \in 1..m - 1
        PROVE  IF agenda'[i].op = "leave"
               THEN /\ t[i] # 0 /\ t[i + 1] = sites'[t[i]].parent
                    /\ agenda'[i].ctx.site = t[i + 1]
               ELSE t[i + 1] = t[i]
    <3>1. PICK j \in 2..m : j = i + 1
      OBVIOUS
    <3>2. agenda'[i] = agenda[j] /\ t[i] = s[j] /\ t[i + 1] = s[j + 1]
      BY <1>13, <3>1
    <3>3. j \in 1..m
      OBVIOUS
    <3> QED
      BY <1>6, <1>12, <3>2, <3>3
  <2> HIDE DEF t
  <2>4. (m - 1) + 1 = m
    OBVIOUS
  <2>5. InForce(t)'
    BY <1>7, <1>10, <1>12, <1>13, <2>1, <2>2, <2>3, <2>4 DEF InForce
  <2> QED
    BY <2>5 DEF NestOK
<1>15. IdleOK'
  BY <1>1 DEF WalkInv, IdleOK, Quiet
<1> QED
  BY <1>2, <1>11, <1>13, <1>14, <1>15 DEF WalkInv

(***************************************************************************)
(* From one walk to the next: no call is open, and no site in force.       *)
(***************************************************************************)
LEMMA NoSiteBetween == ASSUME WalkInv, agenda = <<>> PROVE ctx.site = 0
<1>1. PICK s : InForce(s)
  BY DEF WalkInv, NestOK
<1>2. s[1] = ctx.site /\ s[Len(agenda) + 1] = 0
  BY <1>1 DEF InForce
<1>3. Len(agenda) + 1 = 1
  OBVIOUS
<1> QED
  BY <1>2, <1>3

LEMMA StartStep == ASSUME WalkInv, StartWalk PROVE WalkInv'
<1>1. ~walking /\ at < Len(program.walks) /\ at' = at + 1 /\ walking' = TRUE
      /\ base' = Len(branches) /\ levels' = <<>> /\ frames' = <<>> /\ seq' = 0
      /\ NoCalls /\ UNCHANGED <<program, curBranch, branches>>
  BY DEF StartWalk
<1>2. agenda = <<>> /\ ctx.site = 0
  BY <1>1, NoSiteBetween DEF WalkInv, IdleOK
<1>3. program.walks \in Seq(Walk) /\ at + 1 \in 1..Len(program.walks)
  <2>1. program \in Programs /\ at \in 0..Len(program.walks)
    BY ProgramTyped DEF WalkInv, StartOK
  <2>2. program.walks \in Seq(Walk)
    BY <2>1 DEF Programs
  <2> QED
    BY <1>1, <2>1, <2>2
<1>4. PICK w \in Walk : w = program.walks[at + 1]
  BY <1>3, ElementIn
<1>5. w.top \in Node /\ w.delay \in Delay \cup {NoDelay}
  BY DEF Walk
<1>6. PICK p \in Nat : /\ proc' = p /\ p <= procedures' /\ procedures' \in Nat
                       /\ p = IF w.continuous THEN 0 ELSE procedures + 1
  BY <1>4 DEF StartWalk, WalkInv, StartOK
<1>7. StartOK'
  <2>1. branches' \in Seq(Branch) /\ base' \in 0..Len(branches')
    BY <1>1 DEF WalkInv, StartOK
  <2> QED
    BY <1>1, <1>3, <1>6, <2>1 DEF WalkInv, StartOK
<1>8. RowsOK'
  <2> DEFINE row == [node |-> 0, proc |-> p, site |-> ctx.site, branch |-> curBranch,
                     seq |-> -1, delay |-> NoDelay, word |-> "own",
                     writes |-> {}, gates |-> {}]
  <2>1. /\ stmts' = IF w.header THEN Append(stmts, row) ELSE stmts
        /\ curStmt' = IF w.header THEN Len(stmts) + 1 ELSE 0
    BY <1>4, <1>6 DEF StartWalk
  <2>2. stmts \in Seq(Stmt) /\ curBranch \in Nat
    BY DEF WalkInv, RowsOK
  <2>3. row \in Stmt
    BY <1>2, <2>2 DEF Stmt, Word
  <2> HIDE DEF row
  <2>4. Append(stmts, row) \in Seq(Stmt) /\ Len(Append(stmts, row)) = Len(stmts) + 1
    BY <2>2, <2>3, WithLast
  <2>5. stmts' \in Seq(Stmt) /\ curStmt' \in 0..Len(stmts')
    BY <2>1, <2>2, <2>4
  <2> QED
    BY <1>1, <2>2, <2>5 DEF RowsOK
<1>9. CallsOK' /\ CallsOK /\ UNCHANGED <<sites, budget>>
  BY <1>1, NoCallsKeeps DEF WalkInv, NoCalls
<1>10. LevelsOK'
  <2>1. <<>> \in Seq(Level) /\ <<>> \in Seq(Frame) /\ Len(<<>>) = 0
    OBVIOUS
  <2>2. Numbered(<<>>, 0)
    BY <2>1 DEF Numbered
  <2> QED
    BY <1>1, <2>1, <2>2 DEF LevelsOK, Numbered, Settled
<1>11. ctx' = [Outer EXCEPT !.site = 0, !.delay = w.delay]
  BY <1>2, <1>4 DEF StartWalk
<1>12. ctx' \in Context /\ ctx'.site = 0 /\ ctx'.depth = 0
  BY <1>5, <1>11, OuterIsContext DEF Context
<1>13. CtxOK'
  <2>1. 0 \in 0..Len(sites') /\ 0 + budget' <= Budget
    BY <1>9, BudgetNat DEF CallsOK
  <2> QED
    BY <1>12, <2>1 DEF CtxOK, DepthAt
<1> DEFINE first == <<Do("visit", w.top)>>
<1>14. agenda' = first
  BY <1>4 DEF StartWalk
<1>15. first \in Seq(Fitting) /\ Len(first) = 1 /\ first[1].op = "visit"
  <2>1. Do("visit", w.top) \in Fitting
    BY <1>5, <1>9, DoIsPlain DEF Plainly, WalkInv
  <2> QED
    BY <2>1 DEF Do
<1> HIDE DEF first
<1>16. AgendaOK'
  <2>1. Grown /\ UNCHANGED program
    BY <1>1, <1>9 DEF Grown, CallsOK
  <2>2. first \in Seq(Fitting')
    BY <1>15, <2>1, FitsStill, Widened
  <2> QED
    BY <1>14, <2>2 DEF AgendaOK
<1>17. NestOK'
  <2> DEFINE t == [i \in 1..2 |-> 0]
  <2>1. t \in [1..2 -> 0..Len(sites')] /\ t[1] = 0 /\ t[2] = 0
    BY <1>9 DEF CallsOK
  <2> HIDE DEF t
  <2>2. Len(agenda') = 1 /\ agenda'[1].op # "leave"
    BY <1>14, <1>15
  <2>3. \A i \in 1..1 : i = 1 /\ i + 1 = 2
    OBVIOUS
  <2>4. InForce(t)'
    BY <1>12, <2>1, <2>2, <2>3 DEF InForce
  <2> QED
    BY <2>4 DEF NestOK
<1>18. IdleOK'
  BY <1>1 DEF IdleOK
<1> QED
  BY <1>7, <1>8, <1>9, <1>10, <1>13, <1>16, <1>17, <1>18 DEF WalkInv

LEMMA EndStep == ASSUME WalkInv, EndWalk PROVE WalkInv'
<1>1. /\ walking' = FALSE /\ proc' = 0 /\ curStmt' = 0 /\ curBranch' = 0
      /\ NoCalls /\ NoLevels /\ agenda = <<>>
      /\ UNCHANGED <<program, at, agenda, ctx, seq, base, procedures, stmts>>
  BY DEF EndWalk
<1> DEFINE new == [i \in 1..Len(frames) |->
              [node |-> frames[i].node, arm |-> frames[i].arm,
               parent |-> InTemplate(frames[i].parent),
               depth |-> frames[i].depth, site |-> frames[i].site, proc |-> proc]]
<1>2. branches' = branches \o new
  BY DEF EndWalk
<1>3. PICK f \in Nat : f = Len(frames)
  BY DEF WalkInv, LevelsOK
<1>4. ASSUME NEW i \in 1..f PROVE new[i] \in Branch
  <2>1. PICK row \in Frame : row = frames[i]
    BY <1>3, ElementIn DEF WalkInv, LevelsOK
  <2>2. InTemplate(row.parent) \in Nat /\ proc \in Nat
    BY DEF InTemplate, Frame, WalkInv, StartOK
  <2>3. new[i] = [node |-> row.node, arm |-> row.arm, parent |-> InTemplate(row.parent),
                  depth |-> row.depth, site |-> row.site, proc |-> proc]
    BY <1>3, <2>1
  <2> HIDE DEF new
  <2> QED
    BY <2>2, <2>3 DEF Branch, Frame
<1>5. new = [i \in 1..f |-> new[i]]
  BY <1>3
<1> HIDE DEF new
<1>6. new \in Seq(Branch)
  BY <1>4, <1>5, Listed
<1>7. branches' \in Seq(Branch) /\ Len(branches') = Len(branches) + Len(new)
  BY <1>2, <1>6, Joined DEF WalkInv, StartOK
<1>8. base' \in 0..Len(branches')
  BY <1>1, <1>6, <1>7 DEF WalkInv, StartOK
<1>9. StartOK'
  <2>1. StartOK
    BY DEF WalkInv
  <2>2. /\ program' \in Program /\ at' \in 0..Len(program'.walks) /\ walking' \in BOOLEAN
        /\ procedures' \in Nat
    BY <1>1, <2>1 DEF StartOK
  <2>3. proc' \in 0..procedures'
    BY <1>1, <2>2
  <2> QED
    BY <1>7, <1>8, <2>2, <2>3 DEF StartOK
<1>10. RowsOK'
  BY <1>1 DEF WalkInv, RowsOK
<1>11. CallsOK' /\ LevelsOK' /\ CtxOK'
  BY <1>1, NoCallsKeeps, NoLevelsKeeps, CtxKeeps DEF WalkInv, CtxOK
<1>12. Grown /\ UNCHANGED <<program, sites>>
  BY <1>1 DEF WalkInv, CallsOK, NoCalls, Grown
<1>13. AgendaOK'
  BY <1>1, <1>12, FitsStill, Widened DEF WalkInv, AgendaOK
<1>14. NestOK'
  BY <1>1, <1>12 DEF WalkInv, NestOK, InForce
<1>15. IdleOK'
  BY <1>1 DEF IdleOK
<1> QED
  BY <1>9, <1>10, <1>11, <1>13, <1>14, <1>15 DEF WalkInv

LEMMA StutterStep == ASSUME WalkInv, UNCHANGED vars PROVE WalkInv'
<1>1. /\ Quiet /\ NoRows /\ NoCalls /\ NoLevels
      /\ UNCHANGED <<agenda, ctx, program, sites, walking>>
  BY DEF vars, walkVars, buildVars, tables, Quiet, NoRows, NoCalls, NoLevels
<1>2. StartOK' /\ RowsOK' /\ CallsOK' /\ LevelsOK' /\ CtxOK'
  BY <1>1, QuietKeeps, NoRowsKeeps, NoCallsKeeps, NoLevelsKeeps, CtxKeeps
     DEF WalkInv, CtxOK
<1>3. Grown
  BY <1>1 DEF WalkInv, CallsOK, Grown
<1>4. AgendaOK'
  BY <1>1, <1>3, FitsStill, Widened DEF WalkInv, AgendaOK
<1>5. NestOK' /\ IdleOK'
  BY <1>1 DEF WalkInv, NestOK, InForce, IdleOK
<1> QED
  BY <1>2, <1>4, <1>5 DEF WalkInv

LEMMA WalkStep == WalkInv /\ [Next]_vars => WalkInv'
<1> SUFFICES ASSUME WalkInv, [Next]_vars PROVE WalkInv'
  OBVIOUS
<1>1. CASE StartWalk
  BY <1>1, StartStep
<1>2. ASSUME NEW n \in Node, Handle(n) PROVE WalkInv'
  BY <1>2, StatementStep, ConstructStep, GivenUpStep, ExpandStep DEF Handle
<1>3. CASE Resume
  BY <1>3, LevelStep, UndoStep, LeaveStep DEF Resume
<1>4. CASE EndWalk
  BY <1>4, EndStep
<1>5. CASE Finished \/ UNCHANGED vars
  BY <1>5, StutterStep DEF Finished
<1> QED
  BY <1>1, <1>2, <1>3, <1>4, <1>5 DEF Next

(***************************************************************************)
(* The rows, the agenda and the context keep their shape, in every program *)
(* and under every budget: what a construct saved is a context of a site   *)
(* there is when it is put back, no number in a row is that of a row there *)
(* is not, and the levels with a row are the outer ones.                   *)
(***************************************************************************)
THEOREM TypeCorrect == Spec => []TypeOK
BY WalkInit, WalkStep, InvIsTyped, PTL DEF Spec

(***************************************************************************)
(* Call sites are a forest in which a parent comes before its children and *)
(* the recorded depth is the number of sites around one, itself included;  *)
(* none is deeper than the bodies the budget pays for, and one, however    *)
(* the bodies call each other.                                             *)
(***************************************************************************)
THEOREM SitesAreNested == Spec => []SitesNested
<1>1. WalkInv => SitesNested
  BY DEF WalkInv, CallsOK
<1> QED
  BY WalkInit, WalkStep, <1>1, PTL DEF Spec

(***************************************************************************)
(* Recursion on numbers.                                                   *)
(***************************************************************************)
LEMMA Least ==
    ASSUME NEW S \in SUBSET Nat, S # {}
    PROVE  \E n \in S : \A m \in S : n <= m
<1>1. PICK n \in S : \A m \in S : ~(<<m, n>> \in OpToRel(<, Nat))
  BY WFMin, NatLessThanWellFounded
<1>2. \A m \in S : ~(m < n)
  BY <1>1 DEF OpToRel
<1> QED
  BY <1>2

\* F computes one value from those before it.
LooksBack(F, S, T) ==
    /\ F \in [[S -> T] \X S -> T]
    /\ \A g, h \in [S -> T] : \A x \in S :
          (\A y \in S : y < x => g[y] = h[y]) => F[<<g, x>>] = F[<<h, x>>]

Solves(g, F, S, T, n) == g \in [S -> T] /\ \A x \in S : x < n => g[x] = F[<<g, x>>]

LEMMA SolvedAlike ==
    ASSUME NEW S \in SUBSET Nat, NEW T, NEW F, LooksBack(F, S, T),
           NEW g, NEW h, NEW m \in Nat, NEW n \in Nat, m <= n,
           Solves(g, F, S, T, m), Solves(h, F, S, T, n)
    PROVE  \A x \in S : x < m => g[x] = h[x]
<1> DEFINE B == {x \in S : x < m /\ g[x] # h[x]}
<1>1. CASE B = {}
  BY <1>1
<1>2. CASE B # {}
  <2>1. PICK x \in B : \A y \in B : x <= y
    BY <1>2, Least
  <2>2. x \in S /\ x < m /\ x < n /\ g[x] # h[x]
    BY <2>1
  <2>3. \A y \in S : y < x => g[y] = h[y]
    BY <2>1, <2>2
  <2>4. F[<<g, x>>] = F[<<h, x>>]
    BY <2>2, <2>3 DEF LooksBack, Solves
  <2> QED
    BY <2>2, <2>4 DEF Solves
<1> QED
  BY <1>1, <1>2

LEMMA SolvedUpTo ==
    ASSUME NEW S \in SUBSET Nat, NEW T, NEW F, LooksBack(F, S, T), T # {},
           NEW n \in Nat
    PROVE  \E g : Solves(g, F, S, T, n)
<1> DEFINE B == {m \in Nat : ~ \E g : Solves(g, F, S, T, m)}
<1>1. CASE B = {}
  BY <1>1
<1>2. CASE B # {}
  <2>1. PICK m \in B : \A k \in B : m <= k
    BY <1>2, Least
  <2>2. PICK t \in T : TRUE
    OBVIOUS
  <2>3. m # 0
    <3>1. Solves([x \in S |-> t], F, S, T, 0)
      BY <2>2 DEF Solves
    <3> QED
      BY <2>1, <3>1
  <2>4. m - 1 \in Nat /\ m - 1 \notin B
    BY <2>1, <2>3
  <2>5. PICK g : Solves(g, F, S, T, m - 1)
    BY <2>4
  <2>6. CASE m - 1 \notin S
    <3>1. Solves(g, F, S, T, m)
      BY <2>4, <2>5, <2>6 DEF Solves
    <3> QED
      BY <2>1, <3>1
  <2>7. CASE m - 1 \in S
    <3>1. F[<<g, m - 1>>] \in T
      BY <2>5, <2>7 DEF Solves, LooksBack
    <3>2. PICK h \in [S -> T] : /\ h[m - 1] = F[<<g, m - 1>>]
                                /\ \A x \in S : x # m - 1 => h[x] = g[x]
      <4>1. [g EXCEPT ![m - 1] = F[<<g, m - 1>>]] \in [S -> T]
        BY <2>5, <3>1 DEF Solves
      <4> QED
        BY <2>5, <2>7, <4>1 DEF Solves
    <3>3. ASSUME NEW x \in S, x < m PROVE h[x] = F[<<h, x>>]
      <4>1. \A y \in S : y < x => g[y] = h[y]
        BY <2>4, <3>2, <3>3
      <4>2. F[<<g, x>>] = F[<<h, x>>]
        BY <2>5, <4>1 DEF LooksBack, Solves
      <4>3. CASE x = m - 1
        BY <3>2, <4>2, <4>3
      <4>4. CASE x # m - 1
        BY <2>4, <2>5, <3>2, <3>3, <4>2, <4>4 DEF Solves
      <4> QED
        BY <4>3, <4>4
    <3>4. Solves(h, F, S, T, m)
      BY <3>2, <3>3 DEF Solves
    <3> QED
      BY <2>1, <3>4
  <2> QED
    BY <2>6, <2>7
<1> QED
  BY <1>1, <1>2

Fixed(f, F, S, T) == f \in [S -> T] /\ \A x \in S : f[x] = F[<<f, x>>]

LEMMA Recursion ==
    ASSUME NEW S \in SUBSET Nat, NEW T, NEW F, LooksBack(F, S, T), T # {}
    PROVE  \E f : Fixed(f, F, S, T)
<1> DEFINE best(x) == CHOOSE g : Solves(g, F, S, T, x + 1)
<1>1. \A x \in S : Solves(best(x), F, S, T, x + 1)
  BY SolvedUpTo
<1> HIDE DEF best
<1> DEFINE f == [x \in S |-> best(x)[x]]
<1>2. f \in [S -> T] /\ \A x \in S : f[x] = best(x)[x]
  BY <1>1 DEF Solves
<1> HIDE DEF f
<1>3. ASSUME NEW x \in S PROVE f[x] = F[<<f, x>>]
  <2>1. \A y \in S : y < x => f[y] = best(x)[y]
    <3>1. ASSUME NEW y \in S, y < x PROVE best(y)[y] = best(x)[y]
      <4>1. y + 1 \in Nat /\ x + 1 \in Nat /\ y + 1 <= x + 1 /\ y < y + 1
        BY <3>1
      <4> QED
        BY <1>1, <4>1, SolvedAlike
    <3> QED
      BY <1>2, <3>1
  <2>2. best(x) \in [S -> T] /\ best(x)[x] = F[<<best(x), x>>]
    BY <1>1 DEF Solves
  <2>3. F[<<f, x>>] = F[<<best(x), x>>]
    BY <1>2, <2>1, <2>2 DEF LooksBack
  <2> QED
    BY <1>2, <2>2, <2>3
<1> QED
  BY <1>2, <1>3 DEF Fixed

\* A function that goes up from a member to another one before it, until a root.
Climbs(f, S, R, up, A, B) ==
    \A m \in S : f[m] = IF m \in R THEN A[m] ELSE B[<<m, f[up[m]]>>]

LEMMA Descends ==
    ASSUME NEW S \in SUBSET Nat, NEW R \in SUBSET S, NEW up, NEW T, NEW A, NEW B,
           \A m \in S \ R : up[m] \in S /\ up[m] < m,
           \A m \in R : A[m] \in T,
           \A m \in S \ R : \A t \in T : B[<<m, t>>] \in T
    PROVE  \E f : f \in [S -> T] /\ Climbs(f, S, R, up, A, B)
<1> DEFINE F == [p \in [S -> T] \X S |->
                   IF p[2] \in R THEN A[p[2]] ELSE B[<<p[2], p[1][up[p[2]]]>>]]
<1>1. ASSUME NEW g \in [S -> T], NEW x \in S
      PROVE  /\ F[<<g, x>>] = IF x \in R THEN A[x] ELSE B[<<x, g[up[x]]>>]
             /\ F[<<g, x>>] \in T
  OBVIOUS
<1>2. F \in [[S -> T] \X S -> T]
  <2>1. \A p \in [S -> T] \X S : p[1] \in [S -> T] /\ p[2] \in S /\ p = <<p[1], p[2]>>
    OBVIOUS
  <2>2. F = [p \in [S -> T] \X S |-> F[p]]
    OBVIOUS
  <2> HIDE DEF F
  <2>3. \A p \in [S -> T] \X S : F[p] \in T
    BY <1>1, <2>1
  <2> QED
    BY <2>2, <2>3
<1> HIDE DEF F
<1>3. LooksBack(F, S, T)
  <2>1. ASSUME NEW g \in [S -> T], NEW h \in [S -> T], NEW x \in S,
               \A y \in S : y < x => g[y] = h[y]
        PROVE  F[<<g, x>>] = F[<<h, x>>]
    <3>1. CASE x \in R
      BY <1>1, <3>1
    <3>2. CASE x \notin R
      <4>1. g[up[x]] = h[up[x]]
        BY <2>1, <3>2
      <4> QED
        <5>1. F[<<g, x>>] = B[<<x, g[up[x]]>>] /\ F[<<h, x>>] = B[<<x, h[up[x]]>>]
          BY <1>1, <3>2
        <5> QED
          BY <4>1, <5>1
    <3> QED
      BY <3>1, <3>2
  <2> QED
    BY <1>2, <2>1 DEF LooksBack
<1>4. CASE T # {}
  <2>1. PICK f : Fixed(f, F, S, T)
    BY <1>3, <1>4, Recursion
  <2>2. \A m \in S : f[m] = IF m \in R THEN A[m] ELSE B[<<m, f[up[m]]>>]
    BY <1>1, <2>1 DEF Fixed
  <2> QED
    BY <2>1, <2>2 DEF Fixed, Climbs
<1>5. CASE S = {}
  <2>1. [m \in S |-> A[m]] \in [S -> T]
    BY <1>5
  <2> QED
    BY <1>5, <2>1 DEF Climbs
<1>6. CASE S # {} /\ T = {}
  <2>1. PICK m \in S : \A k \in S : m <= k
    BY <1>6, Least
  <2>2. m \notin R
    BY <1>6
  <2>3. up[m] \in S /\ up[m] < m
    BY <2>2
  <2>4. m <= up[m] /\ m \in Nat /\ up[m] \in Nat
    BY <2>1, <2>3
  <2> QED
    BY <2>3, <2>4
<1> QED
  BY <1>4, <1>5, <1>6

LEMMA DescendsAlike ==
    ASSUME NEW S \in SUBSET Nat, NEW R \in SUBSET S, NEW up, NEW A, NEW B,
           \A m \in S \ R : up[m] \in S /\ up[m] < m, NEW f, NEW g,
           Climbs(f, S, R, up, A, B), Climbs(g, S, R, up, A, B)
    PROVE  \A m \in S : f[m] = g[m]
<1> DEFINE D == {m \in S : f[m] # g[m]}
<1>1. CASE D = {}
  BY <1>1
<1>2. CASE D # {}
  <2>1. PICK m \in D : \A k \in D : m <= k
    BY <1>2, Least
  <2>2. m \in S /\ f[m] # g[m]
    BY <2>1
  <2>3. m \notin R => f[up[m]] = g[up[m]]
    <3>1. ASSUME m \notin R PROVE f[up[m]] = g[up[m]]
      <4>1. up[m] \in S /\ up[m] < m
        BY <2>2, <3>1
      <4>2. up[m] \notin D
        <5>1. up[m] \in Nat /\ m \in Nat
          BY <2>2, <4>1
        <5> QED
          BY <2>1, <4>1, <5>1
      <4> QED
        BY <4>1, <4>2
    <3> QED
      BY <3>1
  <2> QED
    BY <2>2, <2>3 DEF Climbs
<1> QED
  BY <1>1, <1>2

(***************************************************************************)
(* The source is a forest.                                                 *)
(***************************************************************************)
Parts(m) == Mentions(program, m)

LEMMA PartPlaced ==
    ASSUME program \in Program, NEW m \in Node, NEW i \in DOMAIN Parts(m)
    PROVE  /\ Parts(m)[i] \in Node /\ Parts(m)[i] > m
           /\ Parts(m)[i] \notin Bodies(program)
           /\ \A j \in DOMAIN Parts(m) : Parts(m)[j] = Parts(m)[i] => i = j
           /\ HolderOf(Parts(m)[i]) = m
<1>1. program \in Programs /\ IsForest(program)
  BY ProgramTyped, ProgramForests
<1>2. Parts(m) \in Seq(Node)
  <2>1. program.syntax[m] \in Syntax
    BY <1>1 DEF Programs
  <2> QED
    BY <2>1 DEF Syntax, Parts, Mentions
<1>3. Parts(m)[i] \in Node
  BY <1>2
<1>4. /\ Parts(m)[i] > m /\ Parts(m)[i] \notin Bodies(program)
      /\ \A j \in DOMAIN Parts(m) : Parts(m)[j] = Parts(m)[i] => i = j
      /\ \A h \in Node : \A j \in DOMAIN Parts(h) : Parts(h)[j] = Parts(m)[i] => h = m
  BY <1>1 DEF IsForest, Parts
<1>5. PICK k : k = Parts(m)[i]
  OBVIOUS
<1> DEFINE holders == {h \in Node : \E j \in DOMAIN Parts(h) : Parts(h)[j] = k}
<1>6. holders = {m}
  BY <1>4, <1>5
<1>7. HolderOf(k) = IF holders = {} THEN 0 ELSE CHOOSE h \in holders : TRUE
  BY DEF HolderOf, Parts
<1> HIDE DEF holders
<1>8. HolderOf(k) = m
  BY <1>6, <1>7
<1> QED
  BY <1>3, <1>4, <1>5, <1>8

LEMMA HolderBefore ==
    ASSUME program \in Program, NEW n \in Node
    PROVE  /\ HolderOf(n) \in Node \cup {0} /\ HolderOf(n) \in Nat
           /\ HolderOf(n) # 0 => /\ HolderOf(n) \in Node /\ HolderOf(n) < n
                                 /\ \E i \in DOMAIN Parts(HolderOf(n)) : Parts(HolderOf(n))[i] = n
           /\ n \in Bodies(program) => HolderOf(n) = 0
<1>1. CASE \E h \in Node : \E j \in DOMAIN Parts(h) : Parts(h)[j] = n
  <2>1. PICK h \in Node : \E j \in DOMAIN Parts(h) : Parts(h)[j] = n
    BY <1>1
  <2>2. PICK j \in DOMAIN Parts(h) : Parts(h)[j] = n
    BY <2>1
  <2>3. HolderOf(n) = h /\ n > h /\ n \notin Bodies(program)
    BY <2>2, PartPlaced
  <2> QED
    BY <2>1, <2>3, NodesPositive
<1>2. CASE ~ \E h \in Node : \E j \in DOMAIN Parts(h) : Parts(h)[j] = n
  <2> DEFINE holders == {h \in Node : \E j \in DOMAIN Parts(h) : Parts(h)[j] = n}
  <2>1. holders = {}
    BY <1>2
  <2>2. HolderOf(n) = IF holders = {} THEN 0 ELSE CHOOSE h \in holders : TRUE
    BY DEF HolderOf, Parts
  <2> HIDE DEF holders
  <2> QED
    BY <2>1, <2>2
<1> QED
  BY <1>1, <1>2

\* What goes up the forest.
Rises(f, A, B) ==
    \A m \in Node : f[m] = IF HolderOf(m) = 0 THEN A[m] ELSE B[<<m, f[HolderOf(m)]>>]

LEMMA RisesSolved ==
    ASSUME program \in Program, NEW T, NEW A, NEW B,
           \A m \in Node : HolderOf(m) = 0 => A[m] \in T,
           \A m \in Node : HolderOf(m) # 0 => \A t \in T : B[<<m, t>>] \in T
    PROVE  \E f : f \in [Node -> T] /\ Rises(f, A, B)
<1>1. PICK R : R = {m \in Node : HolderOf(m) = 0}
  OBVIOUS
<1>2. PICK up : up = [m \in Node |-> HolderOf(m)]
  OBVIOUS
<1>3. /\ Node \in SUBSET Nat /\ R \in SUBSET Node
      /\ \A m \in Node : m \in R <=> HolderOf(m) = 0
      /\ \A m \in Node : up[m] = HolderOf(m)
  BY <1>1, <1>2, NodesPositive
<1>4. \A m \in Node \ R : up[m] \in Node /\ up[m] < m
  BY <1>3, HolderBefore
<1>5. \A f : Climbs(f, Node, R, up, A, B) => Rises(f, A, B)
  BY <1>3 DEF Rises, Climbs
<1>6. /\ \A m \in R : A[m] \in T
      /\ \A m \in Node \ R : \A t \in T : B[<<m, t>>] \in T
  BY <1>3
<1>7. PICK f : f \in [Node -> T] /\ Climbs(f, Node, R, up, A, B)
  BY <1>3, <1>4, <1>6, Descends
<1> QED
  BY <1>5, <1>7

LEMMA ForestInduction ==
    ASSUME program \in Program, NEW P,
           \A m \in Node : (HolderOf(m) # 0 => HolderOf(m) \in P) => m \in P
    PROVE  \A m \in Node : m \in P
<1>1. CASE Node \ P = {}
  BY <1>1
<1>2. CASE Node \ P # {}
  <2>1. Node \ P \in SUBSET Nat
    BY NodesPositive
  <2>2. PICK m \in Node \ P : \A k \in Node \ P : m <= k
    BY <1>2, <2>1, Least
  <2>3. HolderOf(m) # 0 => HolderOf(m) \in Node /\ HolderOf(m) < m
    BY <2>2, HolderBefore
  <2>4. HolderOf(m) # 0 => HolderOf(m) \in P
    BY <2>1, <2>2, <2>3
  <2> QED
    BY <2>2, <2>4
<1> QED
  BY <1>1, <1>2

LEMMA RootUnfolds ==
    ASSUME program \in Program, NEW n \in Node
    PROVE  /\ Root(n) = IF HolderOf(n) = 0 THEN n ELSE Root(HolderOf(n))
           /\ Root(n) \in Node
<1>1. PICK A : A = [m \in Node |-> m]
  OBVIOUS
<1>2. PICK B : B = [p \in Node \X Node |-> p[2]]
  OBVIOUS
<1>3. /\ \A m \in Node : A[m] = m
      /\ \A m, t \in Node : B[<<m, t>>] = t
  BY <1>1, <1>2
<1>4. \E f : f \in [Node -> Node] /\ Rises(f, A, B)
  <2>1. \A m \in Node : HolderOf(m) = 0 => A[m] \in Node
    BY <1>3
  <2>2. \A m \in Node : HolderOf(m) # 0 => \A t \in Node : B[<<m, t>>] \in Node
    BY <1>3
  <2> QED
    BY <2>1, <2>2, RisesSolved
<1> DEFINE Step(g, m) == IF HolderOf(m) = 0 THEN m ELSE g[HolderOf(m)]
<1>5. PICK f : f \in [Node -> Node] /\ Rises(f, A, B)
  BY <1>4
<1>6. f = [m \in Node |-> Step(f, m)]
  <2>1. \A m \in Node : f[m] = Step(f, m)
    <3>1. \A m \in Node : HolderOf(m) # 0 => HolderOf(m) \in Node
      BY HolderBefore
    <3> QED
      BY <1>3, <1>5, <3>1 DEF Rises
  <2>2. f = [m \in Node |-> f[m]]
    BY <1>5
  <2> QED
    BY <2>1, <2>2
<1>7. PICK g : g = CHOOSE h : h = [m \in Node |-> Step(h, m)]
  OBVIOUS
<1>8. g = [m \in Node |-> Step(g, m)]
  BY <1>6, <1>7
<1>9. \A m \in Node : Root(m) = g[m]
  BY <1>7, Zenon DEF Root
<1>10. \A m \in Node : g[m] = Step(g, m)
  BY <1>8
<1>11. Root(n) = IF HolderOf(n) = 0 THEN n ELSE Root(HolderOf(n))
  BY <1>9, <1>10, HolderBefore
<1>12. PICK P : P = {m \in Node : g[m] \in Node}
  OBVIOUS
<1>13. \A m \in Node : m \in P
  BY <1>10, <1>12, HolderBefore, ForestInduction
<1> QED
  BY <1>9, <1>11, <1>12, <1>13

LEMMA OfProgram ==
    ASSUME program \in Program, NEW n \in Node
    PROVE  /\ Of(n) \in Syntax /\ Of(n).delay \in Delay \cup {NoDelay}
           /\ Of(n).head \in Seq(Node) /\ Of(n).arms \in Seq(Node)
           /\ Of(n).kids \in Seq(Node) /\ Of(n).vars \in SUBSET Var
           /\ Of(n).word \in Word /\ Parts(n) \in Seq(Node)
           /\ Parts(n) = Of(n).head \o Of(n).arms \o Of(n).kids
<1>1. program \in Programs
  BY ProgramTyped
<1>2. Of(n) \in Syntax
  BY <1>1 DEF Programs, Of
<1>3. Parts(n) = Of(n).head \o Of(n).arms \o Of(n).kids
  BY DEF Parts, Mentions, Of
<1> QED
  BY <1>2, <1>3 DEF Syntax

LEMMA Pair == ASSUME NEW S, NEW a \in S, NEW b \in S PROVE <<a, b>> \in Seq(S)
  OBVIOUS

LEMMA LevelsTyped ==
    ASSUME program \in Program, NEW m \in Node, NEW n
    PROVE  LevelsAt(m, n) \in Seq(Node \X Nat)
<1>1. Of(m).arms \in Seq(Node)
  BY OfProgram
<1>2. CASE n \notin Elements(Of(m).arms)
  <2>1. LevelsAt(m, n) = <<>>
    BY <1>2 DEF LevelsAt
  <2> QED
    BY <2>1
<1>3. CASE n \in Elements(Of(m).arms)
  <2> DEFINE k == CHOOSE i \in 1..Len(Of(m).arms) : Of(m).arms[i] = n
  <2>1. \E i \in 1..Len(Of(m).arms) : Of(m).arms[i] = n
    BY <1>3 DEF Elements
  <2>2. k \in Nat
    BY <1>1, <2>1
  <2>3. LevelsAt(m, n) = IF Of(m).kind = "case" THEN << <<m, 0>>, <<m, k>> >>
                         ELSE << <<m, k>> >>
    BY <1>3 DEF LevelsAt
  <2> HIDE DEF k
  <2>4. <<m, 0>> \in Node \X Nat /\ <<m, k>> \in Node \X Nat
    BY <2>2
  <2>5. << <<m, 0>>, <<m, k>> >> \in Seq(Node \X Nat) /\ << <<m, k>> >> \in Seq(Node \X Nat)
    BY <2>4, Single, Pair
  <2> QED
    BY <2>3, <2>5
<1> QED
  BY <1>2, <1>3

LEMMA HoldersUnfolds ==
    ASSUME program \in Program, NEW n \in Node
    PROVE  /\ Holders(n) = IF HolderOf(n) = 0 THEN {} ELSE Holders(HolderOf(n)) \cup {HolderOf(n)}
           /\ Holders(n) \in SUBSET Node
<1>1. PICK T : T = SUBSET Node
  OBVIOUS
<1>2. PICK A : A = [m \in Node |-> {}]
  OBVIOUS
<1>3. PICK B : B = [p \in Node \X T |-> p[2] \cup {HolderOf(p[1])}]
  OBVIOUS
<1>4. \A m \in Node, t \in T : B[<<m, t>>] = t \cup {HolderOf(m)}
  BY <1>3
<1>5. \E f : f \in [Node -> T] /\ Rises(f, A, B)
  <2>1. \A m \in Node : HolderOf(m) = 0 => A[m] \in T
    BY <1>1, <1>2
  <2>2. \A m \in Node : HolderOf(m) # 0 => \A t \in T : B[<<m, t>>] \in T
    <3>1. ASSUME NEW m \in Node, HolderOf(m) # 0, NEW t \in T
          PROVE  t \cup {HolderOf(m)} \in T
      <4>1. PICK h \in Node : h = HolderOf(m)
        BY <3>1, HolderBefore
      <4>2. t \cup {h} \in T
        BY <1>1
      <4> QED
        BY <4>1, <4>2
    <3> QED
      BY <1>4, <3>1
  <2> QED
    BY <2>1, <2>2, RisesSolved
<1> DEFINE Step(g, m) == LET h == HolderOf(m) IN IF h = 0 THEN {} ELSE g[h] \cup {h}
<1>6. PICK f : f \in [Node -> T] /\ Rises(f, A, B)
  BY <1>5
<1>7. f = [m \in Node |-> Step(f, m)]
  <2>1. \A m \in Node : f[m] = Step(f, m)
    <3>1. \A m \in Node : HolderOf(m) # 0 => HolderOf(m) \in Node
      BY HolderBefore
    <3> QED
      BY <1>2, <1>4, <1>6, <3>1 DEF Rises
  <2>2. f = [m \in Node |-> f[m]]
    BY <1>6
  <2> QED
    BY <2>1, <2>2
<1>8. PICK g : g = CHOOSE h : h = [m \in Node |-> Step(h, m)]
  OBVIOUS
<1>9. g = [m \in Node |-> Step(g, m)]
  BY <1>7, <1>8
<1>10. \A m \in Node : Holders(m) = g[m]
  BY <1>8, Zenon DEF Holders
<1>11. \A m \in Node : g[m] = IF HolderOf(m) = 0 THEN {} ELSE g[HolderOf(m)] \cup {HolderOf(m)}
  BY <1>9, HolderBefore
<1>12. Holders(n) = IF HolderOf(n) = 0 THEN {} ELSE Holders(HolderOf(n)) \cup {HolderOf(n)}
  BY <1>10, <1>11, HolderBefore
<1>13. PICK P : P = {m \in Node : g[m] \in T}
  OBVIOUS
<1>14. \A m \in Node : HolderOf(m) = 0 => g[m] \in T
  <2>1. \A m \in Node : {} \in T
    BY <1>1
  <2> QED
    BY <1>11, <2>1
<1>15. \A m \in Node : HolderOf(m) # 0 /\ g[HolderOf(m)] \in T => g[m] \in T
  <2>1. ASSUME NEW m \in Node, HolderOf(m) # 0, g[HolderOf(m)] \in T PROVE g[m] \in T
    <3>1. PICK h \in Node : h = HolderOf(m)
      BY <2>1, HolderBefore
    <3>2. PICK t \in T : t = g[h]
      BY <2>1, <3>1
    <3>3. t \cup {h} \in T
      BY <1>1
    <3>4. g[m] = t \cup {h}
      BY <1>11, <2>1, <3>1, <3>2
    <3> QED
      BY <3>3, <3>4
  <2> QED
    BY <2>1
<1>16. \A m \in Node : m \in P
  BY <1>13, <1>14, <1>15, HolderBefore, ForestInduction
<1> QED
  BY <1>1, <1>10, <1>12, <1>13, <1>16

LEMMA DelayAroundUnfolds ==
    ASSUME program \in Program, NEW n \in Node
    PROVE  /\ DelayAround(n) = IF HolderOf(n) = 0 THEN NoDelay ELSE (IF Of(HolderOf(n)).kind = "timed" /\ Of(HolderOf(n)).delay # NoDelay THEN Of(HolderOf(n)).delay ELSE DelayAround(HolderOf(n)))
           /\ DelayAround(n) \in Delay \cup {NoDelay}
<1>1. PICK T : T = Delay \cup {NoDelay}
  OBVIOUS
<1>2. PICK A : A = [m \in Node |-> NoDelay]
  OBVIOUS
<1>3. PICK B : B = [p \in Node \X T |-> (IF Of(HolderOf(p[1])).kind = "timed" /\ Of(HolderOf(p[1])).delay # NoDelay THEN Of(HolderOf(p[1])).delay ELSE p[2])]
  OBVIOUS
<1>4. \A m \in Node, t \in T : B[<<m, t>>] = (IF Of(HolderOf(m)).kind = "timed" /\ Of(HolderOf(m)).delay # NoDelay THEN Of(HolderOf(m)).delay ELSE t)
  BY <1>3
<1>5. \E f : f \in [Node -> T] /\ Rises(f, A, B)
  <2>1. \A m \in Node : HolderOf(m) = 0 => A[m] \in T
    BY <1>1, <1>2
  <2>2. \A m \in Node : HolderOf(m) # 0 => \A t \in T : B[<<m, t>>] \in T
    <3>1. ASSUME NEW m \in Node, HolderOf(m) # 0, NEW t \in T
          PROVE  (IF Of(HolderOf(m)).kind = "timed" /\ Of(HolderOf(m)).delay # NoDelay THEN Of(HolderOf(m)).delay ELSE t) \in T
      <4>1. PICK h \in Node : h = HolderOf(m)
        BY <3>1, HolderBefore
      <4>2. (IF Of(h).kind = "timed" /\ Of(h).delay # NoDelay THEN Of(h).delay ELSE t) \in T
        BY <1>1, OfProgram
      <4> QED
        BY <4>1, <4>2
    <3> QED
      BY <1>4, <3>1
  <2> QED
    BY <2>1, <2>2, RisesSolved
<1> DEFINE Step(g, m) == LET h == HolderOf(m) IN CASE h = 0 -> NoDelay [] h # 0 /\ Of(h).kind = "timed" /\ Of(h).delay # NoDelay -> Of(h).delay [] OTHER -> g[h]
<1>6. PICK f : f \in [Node -> T] /\ Rises(f, A, B)
  BY <1>5
<1>7. f = [m \in Node |-> Step(f, m)]
  <2>1. \A m \in Node : f[m] = Step(f, m)
    <3>1. \A m \in Node : HolderOf(m) # 0 => HolderOf(m) \in Node
      BY HolderBefore
    <3> QED
      BY <1>2, <1>4, <1>6, <3>1 DEF Rises
  <2>2. f = [m \in Node |-> f[m]]
    BY <1>6
  <2> QED
    BY <2>1, <2>2
<1>8. PICK g : g = CHOOSE h : h = [m \in Node |-> Step(h, m)]
  OBVIOUS
<1>9. g = [m \in Node |-> Step(g, m)]
  BY <1>7, <1>8
<1>10. \A m \in Node : DelayAround(m) = g[m]
  BY <1>8, Zenon DEF DelayAround
<1>11. \A m \in Node : g[m] = IF HolderOf(m) = 0 THEN NoDelay ELSE (IF Of(HolderOf(m)).kind = "timed" /\ Of(HolderOf(m)).delay # NoDelay THEN Of(HolderOf(m)).delay ELSE g[HolderOf(m)])
  BY <1>9, HolderBefore
<1>12. DelayAround(n) = IF HolderOf(n) = 0 THEN NoDelay ELSE (IF Of(HolderOf(n)).kind = "timed" /\ Of(HolderOf(n)).delay # NoDelay THEN Of(HolderOf(n)).delay ELSE DelayAround(HolderOf(n)))
  BY <1>10, <1>11, HolderBefore
<1>13. PICK P : P = {m \in Node : g[m] \in T}
  OBVIOUS
<1>14. \A m \in Node : HolderOf(m) = 0 => g[m] \in T
  <2>1. \A m \in Node : NoDelay \in T
    BY <1>1
  <2> QED
    BY <1>11, <2>1
<1>15. \A m \in Node : HolderOf(m) # 0 /\ g[HolderOf(m)] \in T => g[m] \in T
  <2>1. ASSUME NEW m \in Node, HolderOf(m) # 0, g[HolderOf(m)] \in T PROVE g[m] \in T
    <3>1. PICK h \in Node : h = HolderOf(m)
      BY <2>1, HolderBefore
    <3>2. PICK t \in T : t = g[h]
      BY <2>1, <3>1
    <3>3. (IF Of(h).kind = "timed" /\ Of(h).delay # NoDelay THEN Of(h).delay ELSE t) \in T
      BY <1>1, OfProgram
    <3>4. g[m] = (IF Of(h).kind = "timed" /\ Of(h).delay # NoDelay THEN Of(h).delay ELSE t)
      BY <1>11, <2>1, <3>1, <3>2
    <3> QED
      BY <3>3, <3>4
  <2> QED
    BY <2>1
<1>16. \A m \in Node : m \in P
  BY <1>13, <1>14, <1>15, HolderBefore, ForestInduction
<1> QED
  BY <1>1, <1>10, <1>12, <1>13, <1>16

LEMMA StatementOfUnfolds ==
    ASSUME program \in Program, NEW n \in Node
    PROVE  /\ StatementOf(n) = IF HolderOf(n) = 0 THEN 0 ELSE (IF Of(HolderOf(n)).kind \in Makers THEN HolderOf(n) ELSE StatementOf(HolderOf(n)))
           /\ StatementOf(n) \in Node \cup {0}
<1>1. PICK T : T = Node \cup {0}
  OBVIOUS
<1>2. PICK A : A = [m \in Node |-> 0]
  OBVIOUS
<1>3. PICK B : B = [p \in Node \X T |-> (IF Of(HolderOf(p[1])).kind \in Makers THEN HolderOf(p[1]) ELSE p[2])]
  OBVIOUS
<1>4. \A m \in Node, t \in T : B[<<m, t>>] = (IF Of(HolderOf(m)).kind \in Makers THEN HolderOf(m) ELSE t)
  BY <1>3
<1>5. \E f : f \in [Node -> T] /\ Rises(f, A, B)
  <2>1. \A m \in Node : HolderOf(m) = 0 => A[m] \in T
    BY <1>1, <1>2
  <2>2. \A m \in Node : HolderOf(m) # 0 => \A t \in T : B[<<m, t>>] \in T
    <3>1. ASSUME NEW m \in Node, HolderOf(m) # 0, NEW t \in T
          PROVE  (IF Of(HolderOf(m)).kind \in Makers THEN HolderOf(m) ELSE t) \in T
      <4>1. PICK h \in Node : h = HolderOf(m)
        BY <3>1, HolderBefore
      <4>2. (IF Of(h).kind \in Makers THEN h ELSE t) \in T
        BY <1>1
      <4> QED
        BY <4>1, <4>2
    <3> QED
      BY <1>4, <3>1
  <2> QED
    BY <2>1, <2>2, RisesSolved
<1> DEFINE Step(g, m) == LET h == HolderOf(m) IN IF h = 0 \/ Of(h).kind \in Makers THEN h ELSE g[h]
<1>6. PICK f : f \in [Node -> T] /\ Rises(f, A, B)
  BY <1>5
<1>7. f = [m \in Node |-> Step(f, m)]
  <2>1. \A m \in Node : f[m] = Step(f, m)
    <3>1. \A m \in Node : HolderOf(m) # 0 => HolderOf(m) \in Node
      BY HolderBefore
    <3> QED
      BY <1>2, <1>4, <1>6, <3>1 DEF Rises
  <2>2. f = [m \in Node |-> f[m]]
    BY <1>6
  <2> QED
    BY <2>1, <2>2
<1>8. PICK g : g = CHOOSE h : h = [m \in Node |-> Step(h, m)]
  OBVIOUS
<1>9. g = [m \in Node |-> Step(g, m)]
  BY <1>7, <1>8
<1>10. \A m \in Node : StatementOf(m) = g[m]
  BY <1>8, Zenon DEF StatementOf
<1>11. \A m \in Node : g[m] = IF HolderOf(m) = 0 THEN 0 ELSE (IF Of(HolderOf(m)).kind \in Makers THEN HolderOf(m) ELSE g[HolderOf(m)])
  BY <1>9, HolderBefore
<1>12. StatementOf(n) = IF HolderOf(n) = 0 THEN 0 ELSE (IF Of(HolderOf(n)).kind \in Makers THEN HolderOf(n) ELSE StatementOf(HolderOf(n)))
  BY <1>10, <1>11, HolderBefore
<1>13. PICK P : P = {m \in Node : g[m] \in T}
  OBVIOUS
<1>14. \A m \in Node : HolderOf(m) = 0 => g[m] \in T
  <2>1. \A m \in Node : 0 \in T
    BY <1>1
  <2> QED
    BY <1>11, <2>1
<1>15. \A m \in Node : HolderOf(m) # 0 /\ g[HolderOf(m)] \in T => g[m] \in T
  <2>1. ASSUME NEW m \in Node, HolderOf(m) # 0, g[HolderOf(m)] \in T PROVE g[m] \in T
    <3>1. PICK h \in Node : h = HolderOf(m)
      BY <2>1, HolderBefore
    <3>2. PICK t \in T : t = g[h]
      BY <2>1, <3>1
    <3>3. (IF Of(h).kind \in Makers THEN h ELSE t) \in T
      BY <1>1
    <3>4. g[m] = (IF Of(h).kind \in Makers THEN h ELSE t)
      BY <1>11, <2>1, <3>1, <3>2
    <3> QED
      BY <3>3, <3>4
  <2> QED
    BY <2>1
<1>16. \A m \in Node : m \in P
  BY <1>13, <1>14, <1>15, HolderBefore, ForestInduction
<1> QED
  BY <1>1, <1>10, <1>12, <1>13, <1>16

LEMMA AroundUnfolds ==
    ASSUME program \in Program, NEW n \in Node
    PROVE  /\ Around(n) = IF HolderOf(n) = 0 THEN <<>> ELSE Around(HolderOf(n)) \o LevelsAt(HolderOf(n), n)
           /\ Around(n) \in Seq(Node \X Nat)
<1>1. PICK T : T = Seq(Node \X Nat)
  OBVIOUS
<1>2. PICK A : A = [m \in Node |-> <<>>]
  OBVIOUS
<1>3. PICK B : B = [p \in Node \X T |-> p[2] \o LevelsAt(HolderOf(p[1]), p[1])]
  OBVIOUS
<1>4. \A m \in Node, t \in T : B[<<m, t>>] = t \o LevelsAt(HolderOf(m), m)
  BY <1>3
<1>5. \E f : f \in [Node -> T] /\ Rises(f, A, B)
  <2>1. \A m \in Node : HolderOf(m) = 0 => A[m] \in T
    BY <1>1, <1>2
  <2>2. \A m \in Node : HolderOf(m) # 0 => \A t \in T : B[<<m, t>>] \in T
    <3>1. ASSUME NEW m \in Node, HolderOf(m) # 0, NEW t \in T
          PROVE  t \o LevelsAt(HolderOf(m), m) \in T
      <4>1. PICK h \in Node : h = HolderOf(m)
        BY <3>1, HolderBefore
      <4>2. t \o LevelsAt(h, m) \in T
        BY <1>1, LevelsTyped
      <4> QED
        BY <4>1, <4>2
    <3> QED
      BY <1>4, <3>1
  <2> QED
    BY <2>1, <2>2, RisesSolved
<1> DEFINE Step(g, m) == LET h == HolderOf(m) IN IF h = 0 THEN <<>> ELSE g[h] \o LevelsAt(h, m)
<1>6. PICK f : f \in [Node -> T] /\ Rises(f, A, B)
  BY <1>5
<1>7. f = [m \in Node |-> Step(f, m)]
  <2>1. \A m \in Node : f[m] = Step(f, m)
    <3>1. \A m \in Node : HolderOf(m) # 0 => HolderOf(m) \in Node
      BY HolderBefore
    <3> QED
      BY <1>2, <1>4, <1>6, <3>1 DEF Rises
  <2>2. f = [m \in Node |-> f[m]]
    BY <1>6
  <2> QED
    BY <2>1, <2>2
<1>8. PICK g : g = CHOOSE h : h = [m \in Node |-> Step(h, m)]
  OBVIOUS
<1>9. g = [m \in Node |-> Step(g, m)]
  BY <1>7, <1>8
<1>10. \A m \in Node : Around(m) = g[m]
  BY <1>8, Zenon DEF Around
<1>11. \A m \in Node : g[m] = IF HolderOf(m) = 0 THEN <<>> ELSE g[HolderOf(m)] \o LevelsAt(HolderOf(m), m)
  BY <1>9, HolderBefore
<1>12. Around(n) = IF HolderOf(n) = 0 THEN <<>> ELSE Around(HolderOf(n)) \o LevelsAt(HolderOf(n), n)
  BY <1>10, <1>11, HolderBefore
<1>13. PICK P : P = {m \in Node : g[m] \in T}
  OBVIOUS
<1>14. \A m \in Node : HolderOf(m) = 0 => g[m] \in T
  <2>1. \A m \in Node : <<>> \in T
    BY <1>1
  <2> QED
    BY <1>11, <2>1
<1>15. \A m \in Node : HolderOf(m) # 0 /\ g[HolderOf(m)] \in T => g[m] \in T
  <2>1. ASSUME NEW m \in Node, HolderOf(m) # 0, g[HolderOf(m)] \in T PROVE g[m] \in T
    <3>1. PICK h \in Node : h = HolderOf(m)
      BY <2>1, HolderBefore
    <3>2. PICK t \in T : t = g[h]
      BY <2>1, <3>1
    <3>3. t \o LevelsAt(h, m) \in T
      BY <1>1, LevelsTyped
    <3>4. g[m] = t \o LevelsAt(h, m)
      BY <1>11, <2>1, <3>1, <3>2
    <3> QED
      BY <3>3, <3>4
  <2> QED
    BY <2>1
<1>16. \A m \in Node : m \in P
  BY <1>13, <1>14, <1>15, HolderBefore, ForestInduction
<1> QED
  BY <1>1, <1>10, <1>12, <1>13, <1>16

\* The three runs of parts.
LEMMA PartIndices ==
    ASSUME program \in Program, NEW m \in Node
    PROVE  \E h, a, k \in Nat :
             /\ h = Len(Of(m).head) /\ a = Len(Of(m).arms) /\ k = Len(Of(m).kids)
             /\ \A j \in 1..h : j \in DOMAIN Parts(m) /\ Parts(m)[j] = Of(m).head[j]
             /\ \A j \in 1..a : h + j \in DOMAIN Parts(m) /\ Parts(m)[h + j] = Of(m).arms[j]
             /\ \A j \in 1..k : /\ h + a + j \in DOMAIN Parts(m)
                               /\ Parts(m)[h + a + j] = Of(m).kids[j]
<1>1. PICK hs, bs, ks : /\ hs = Of(m).head /\ bs = Of(m).arms /\ ks = Of(m).kids
                        /\ hs \in Seq(Node) /\ bs \in Seq(Node) /\ ks \in Seq(Node)
                        /\ Parts(m) = hs \o bs \o ks
  BY OfProgram
<1>2. PICK h \in Nat, a \in Nat, k \in Nat : h = Len(hs) /\ a = Len(bs) /\ k = Len(ks)
  BY <1>1
<1>3. /\ DOMAIN Parts(m) = 1..h + a + k
      /\ \A j \in 1..h : Parts(m)[j] = hs[j]
      /\ \A j \in 1..a : Parts(m)[h + j] = bs[j]
      /\ \A j \in 1..k : Parts(m)[h + a + j] = ks[j]
  <2>1. hs \in Seq(Node) /\ bs \in Seq(Node) /\ ks \in Seq(Node)
    BY <1>1
  <2>2. hs \o bs \in Seq(Node) /\ Len(hs \o bs) = h + a
    BY <1>2, <2>1
  <2>3. DOMAIN (hs \o bs \o ks) = 1..h + a + k
    BY <1>2, <2>1, <2>2
  <2>4. ASSUME NEW j \in 1..h PROVE (hs \o bs \o ks)[j] = hs[j]
    BY <1>2, <2>1, <2>2
  <2>5. ASSUME NEW j \in 1..a PROVE (hs \o bs \o ks)[h + j] = bs[j]
    <3>1. h + j \in 1..Len(hs \o bs) /\ h + j \in Len(hs) + 1..Len(hs) + Len(bs) /\ h + j - Len(hs) = j
      BY <1>2, <2>2
    <3>2. (hs \o bs)[h + j] = bs[j]
      BY <1>2, <2>1, <3>1
    <3> QED
      BY <2>1, <2>2, <3>1, <3>2
  <2>6. ASSUME NEW j \in 1..k PROVE (hs \o bs \o ks)[h + a + j] = ks[j]
    BY <1>2, <2>1, <2>2
  <2> QED
    BY <1>1, <2>3, <2>4, <2>5, <2>6
<1>4. /\ \A j \in 1..h : j \in 1..h + a + k
      /\ \A j \in 1..a : h + j \in 1..h + a + k
      /\ \A j \in 1..k : h + a + j \in 1..h + a + k
  BY <1>2
<1>5. /\ h = Len(Of(m).head) /\ a = Len(Of(m).arms) /\ k = Len(Of(m).kids)
      /\ \A j \in 1..h : j \in DOMAIN Parts(m) /\ Parts(m)[j] = Of(m).head[j]
      /\ \A j \in 1..a : h + j \in DOMAIN Parts(m) /\ Parts(m)[h + j] = Of(m).arms[j]
      /\ \A j \in 1..k : /\ h + a + j \in DOMAIN Parts(m)
                        /\ Parts(m)[h + a + j] = Of(m).kids[j]
  BY <1>1, <1>2, <1>3, <1>4
<1> QED
  BY <1>5

LEMMA HeadPlaced ==
    ASSUME program \in Program, NEW m \in Node, NEW j \in 1..Len(Of(m).head)
    PROVE  LET k == Of(m).head[j] IN
           /\ \E i \in DOMAIN Parts(m) : Parts(m)[i] = k
           /\ k \in Elements(Of(m).head) /\ k \notin Elements(Of(m).arms)
<1>1. PICK h \in Nat, a \in Nat, k \in Nat :
         /\ h = Len(Of(m).head) /\ a = Len(Of(m).arms)
         /\ \A x \in 1..h : x \in DOMAIN Parts(m) /\ Parts(m)[x] = Of(m).head[x]
         /\ \A x \in 1..a : h + x \in DOMAIN Parts(m) /\ Parts(m)[h + x] = Of(m).arms[x]
  BY PartIndices
<1>2. j \in DOMAIN Parts(m) /\ Parts(m)[j] = Of(m).head[j]
  BY <1>1
<1>3. ASSUME NEW x \in 1..a, Of(m).arms[x] = Of(m).head[j] PROVE FALSE
  <2>1. h + x \in DOMAIN Parts(m) /\ Parts(m)[h + x] = Parts(m)[j] /\ h + x # j
    BY <1>1, <1>2, <1>3
  <2> QED
    BY <1>2, <2>1, PartPlaced
<1> QED
  BY <1>1, <1>2, <1>3 DEF Elements

LEMMA ArmPlaced ==
    ASSUME program \in Program, NEW m \in Node, NEW j \in 1..Len(Of(m).arms)
    PROVE  LET k == Of(m).arms[j] IN
           /\ \E i \in DOMAIN Parts(m) : Parts(m)[i] = k
           /\ k \notin Elements(Of(m).head)
           /\ LevelsAt(m, k) = IF Of(m).kind = "case" THEN << <<m, 0>>, <<m, j>> >>
                               ELSE << <<m, j>> >>
<1>1. PICK h \in Nat, a \in Nat, k \in Nat :
         /\ h = Len(Of(m).head) /\ a = Len(Of(m).arms)
         /\ \A x \in 1..h : x \in DOMAIN Parts(m) /\ Parts(m)[x] = Of(m).head[x]
         /\ \A x \in 1..a : h + x \in DOMAIN Parts(m) /\ Parts(m)[h + x] = Of(m).arms[x]
  BY PartIndices
<1>2. h + j \in DOMAIN Parts(m) /\ Parts(m)[h + j] = Of(m).arms[j]
  BY <1>1
<1>3. ASSUME NEW x \in 1..h, Of(m).head[x] = Of(m).arms[j] PROVE FALSE
  <2>1. x \in DOMAIN Parts(m) /\ Parts(m)[x] = Parts(m)[h + j] /\ h + j # x
    BY <1>1, <1>2, <1>3
  <2> QED
    BY <1>2, <2>1, PartPlaced
<1>4. ASSUME NEW x \in 1..a, Of(m).arms[x] = Of(m).arms[j] PROVE x = j
  <2>1. h + x \in DOMAIN Parts(m) /\ Parts(m)[h + x] = Parts(m)[h + j]
    BY <1>1, <1>2, <1>4
  <2>2. h + x = h + j
    BY <1>2, <2>1, PartPlaced
  <2> QED
    BY <1>1, <2>2
<1>5. PICK n : n = Of(m).arms[j]
  OBVIOUS
<1>6. PICK c : c = CHOOSE i \in 1..Len(Of(m).arms) : Of(m).arms[i] = n
  OBVIOUS
<1>7. c = j
  BY <1>1, <1>4, <1>5, <1>6
<1>8. n \in Elements(Of(m).arms)
  BY <1>5 DEF Elements
<1>9. LevelsAt(m, n) = IF Of(m).kind = "case" THEN << <<m, 0>>, <<m, c>> >>
                       ELSE << <<m, c>> >>
  BY <1>6, <1>8 DEF LevelsAt
<1> QED
  BY <1>1, <1>2, <1>3, <1>5, <1>7, <1>9 DEF Elements

LEMMA KidPlaced ==
    ASSUME program \in Program, NEW m \in Node, NEW j \in 1..Len(Of(m).kids)
    PROVE  LET k == Of(m).kids[j] IN
           /\ \E i \in DOMAIN Parts(m) : Parts(m)[i] = k
           /\ k \notin Elements(Of(m).head) /\ k \notin Elements(Of(m).arms)
<1>1. PICK h \in Nat, a \in Nat, k \in Nat :
         /\ h = Len(Of(m).head) /\ a = Len(Of(m).arms) /\ k = Len(Of(m).kids)
         /\ \A x \in 1..h : x \in DOMAIN Parts(m) /\ Parts(m)[x] = Of(m).head[x]
         /\ \A x \in 1..a : h + x \in DOMAIN Parts(m) /\ Parts(m)[h + x] = Of(m).arms[x]
         /\ \A x \in 1..k : /\ h + a + x \in DOMAIN Parts(m)
                           /\ Parts(m)[h + a + x] = Of(m).kids[x]
  BY PartIndices
<1>2. h + a + j \in DOMAIN Parts(m) /\ Parts(m)[h + a + j] = Of(m).kids[j]
  BY <1>1
<1>3. ASSUME NEW x \in 1..h, Of(m).head[x] = Of(m).kids[j] PROVE FALSE
  <2>1. j \in 1..k /\ h + a + j # x
    <3>1. j \in 1..k /\ h \in Nat /\ a \in Nat /\ k \in Nat
      BY <1>1
    <3> QED
      BY <3>1
  <2>2. x \in DOMAIN Parts(m) /\ Parts(m)[x] = Parts(m)[h + a + j] /\ h + a + j # x
    BY <1>1, <1>2, <1>3, <2>1
  <2> QED
    BY <1>2, <2>2, PartPlaced
<1>4. ASSUME NEW x \in 1..a, Of(m).arms[x] = Of(m).kids[j] PROVE FALSE
  <2>1. j \in 1..k /\ h + a + j # h + x
    <3>1. j \in 1..k /\ h \in Nat /\ a \in Nat /\ k \in Nat
      BY <1>1
    <3> QED
      BY <3>1
  <2>2. h + x \in DOMAIN Parts(m) /\ Parts(m)[h + x] = Parts(m)[h + a + j] /\ h + a + j # h + x
    BY <1>1, <1>2, <1>4, <2>1
  <2> QED
    BY <1>2, <2>2, PartPlaced
<1> QED
  BY <1>1, <1>2, <1>3, <1>4 DEF Elements

LEMMA HoldersBefore ==
    ASSUME program \in Program, NEW n \in Node
    PROVE  \A h \in Holders(n) : h \in Node /\ h < n
<1>1. PICK P : P = {m \in Node : \A h \in Holders(m) : h < m}
  OBVIOUS
<1>2. ASSUME NEW m \in Node, HolderOf(m) # 0 => HolderOf(m) \in P PROVE m \in P
  <2>1. CASE HolderOf(m) = 0
    <3>1. Holders(m) = {}
      BY <2>1, HoldersUnfolds
    <3> QED
      BY <1>1, <3>1
  <2>2. CASE HolderOf(m) # 0
    <3>1. PICK h \in Node : h = HolderOf(m) /\ h < m
      BY <2>2, HolderBefore
    <3>2. Holders(m) = Holders(h) \cup {h} /\ Holders(h) \subseteq Node
      BY <2>2, <3>1, HoldersUnfolds
    <3>3. \A x \in Holders(h) : x < h /\ x \in Node
      BY <1>1, <1>2, <2>2, <3>1, <3>2
    <3>4. \A x \in Holders(m) : x < m
      <4>1. m \in Nat /\ h \in Nat /\ \A x \in Holders(h) : x \in Nat
        BY <3>3, NodesPositive
      <4>2. \A x \in Holders(h) : x < m
        BY <3>1, <3>3, <4>1
      <4> QED
        BY <3>1, <3>2, <4>2
    <3> QED
      BY <1>1, <3>4
  <2> QED
    BY <2>1, <2>2
<1>3. \A m \in Node : m \in P
  BY <1>2, ForestInduction
<1> QED
  BY <1>1, <1>3, HoldersUnfolds

\* Around a part is what is around the whole, and the whole.
LEMMA AroundPart ==
    ASSUME program \in Program, NEW m \in Node, NEW i \in DOMAIN Parts(m),
           NEW k, k = Parts(m)[i]
    PROVE  /\ k \in Node /\ Root(k) = Root(m) /\ Holders(k) = Holders(m) \cup {m}
           /\ DelayAround(k) = (IF Of(m).kind = "timed" /\ Of(m).delay # NoDelay
                                THEN Of(m).delay ELSE DelayAround(m))
           /\ IndicesAround(k) = IndicesAround(m)
                \cup (IF Of(m).kind \in {"for", "foreach"} THEN Of(m).vars ELSE {})
           /\ ForceAround(k) = ForceAround(m)
                \cup (IF Of(m).kind = "force" THEN {Of(m).word} ELSE {})
           /\ StatementOf(k) = (IF Of(m).kind \in Makers THEN m ELSE StatementOf(m))
           /\ Around(k) = Around(m) \o LevelsAt(m, k)
           /\ InHead(k) <=> InHead(m) \/ k \in Elements(Of(m).head)
<1>1. k \in Node /\ k > m /\ HolderOf(k) = m /\ m # 0
  BY PartPlaced, NodesPositive
<1>2. /\ Root(k) = Root(m) /\ Holders(k) = Holders(m) \cup {m}
      /\ DelayAround(k) = (IF Of(m).kind = "timed" /\ Of(m).delay # NoDelay
                           THEN Of(m).delay ELSE DelayAround(m))
      /\ StatementOf(k) = (IF Of(m).kind \in Makers THEN m ELSE StatementOf(m))
      /\ Around(k) = Around(m) \o LevelsAt(m, k)
  BY <1>1, RootUnfolds, HoldersUnfolds, DelayAroundUnfolds, StatementOfUnfolds, AroundUnfolds
<1>3. IndicesAround(k) = IndicesAround(m)
        \cup (IF Of(m).kind \in {"for", "foreach"} THEN Of(m).vars ELSE {})
  BY <1>2 DEF IndicesAround
<1>4. ForceAround(k) = ForceAround(m)
        \cup (IF Of(m).kind = "force" THEN {Of(m).word} ELSE {})
  BY <1>2 DEF ForceAround
<1>5. InHead(m) => InHead(k)
  <2>1. SUFFICES ASSUME NEW x \in Holders(m), NEW h \in Elements(Of(x).head),
                        m = h \/ h \in Holders(m)
                 PROVE  InHead(k)
    BY DEF InHead
  <2>2. x \in Holders(k) /\ h \in Holders(k)
    BY <1>2, <2>1
  <2> QED
    BY <2>2 DEF InHead
<1>6. k \in Elements(Of(m).head) => InHead(k)
  BY <1>2 DEF InHead
<1>7. InHead(k) => InHead(m) \/ k \in Elements(Of(m).head)
  <2>1. SUFFICES ASSUME NEW x \in Holders(k), NEW h \in Elements(Of(x).head),
                        k = h \/ h \in Holders(k), k \notin Elements(Of(m).head)
                 PROVE  InHead(m)
    BY DEF InHead
  <2>2. x \in Node /\ h \in Node /\ h > x /\ HolderOf(h) = x
    <3>1. x \in Node
      BY <2>1, <1>1, HoldersBefore
    <3>2. PICK j \in 1..Len(Of(x).head) : h = Of(x).head[j]
      BY <2>1 DEF Elements
    <3>3. \E p \in DOMAIN Parts(x) : Parts(x)[p] = h
      BY <3>1, <3>2, HeadPlaced
    <3> QED
      BY <3>1, <3>3, PartPlaced
  <2>3. CASE k = h
    BY <1>1, <2>1, <2>2, <2>3
  <2>4. CASE h \in Holders(k)
    <3>1. h = m \/ h \in Holders(m)
      BY <1>2, <2>4
    <3>2. x # m
      <4>1. h <= m /\ m \in Nat /\ h \in Nat
        BY <3>1, <2>2, HoldersBefore, NodesPositive
      <4> QED
        BY <2>2, <4>1
    <3>3. x \in Holders(m)
      BY <1>2, <2>1, <3>2
    <3> QED
      BY <2>1, <3>1, <3>3 DEF InHead
  <2> QED
    BY <2>1, <2>3, <2>4
<1> QED
  BY <1>1, <1>2, <1>3, <1>4, <1>5, <1>6, <1>7

LEMMA AroundBody ==
    ASSUME program \in Program, NEW n \in Node, n \in Bodies(program)
    PROVE  /\ Root(n) = n /\ DelayAround(n) = NoDelay /\ IndicesAround(n) = {}
           /\ ForceAround(n) = {} /\ StatementOf(n) = 0 /\ Around(n) = <<>> /\ ~InHead(n)
<1>1. HolderOf(n) = 0
  BY HolderBefore
<1>2. Holders(n) = {}
  BY <1>1, HoldersUnfolds
<1>3. IndicesAround(n) = {} /\ ForceAround(n) = {} /\ ~InHead(n)
  BY <1>2 DEF IndicesAround, ForceAround, InHead
<1> QED
  BY <1>1, <1>3, RootUnfolds, DelayAroundUnfolds, StatementOfUnfolds, AroundUnfolds

\* Rows that name a row before them, or none.
Grows(f, n, up, A, B) ==
    f[0] = A /\ \A s \in 1..n : f[s] = B[<<s, f[up[s]]>>]

LEMMA GrowsSolved ==
    ASSUME NEW n \in Nat, NEW up, \A s \in 1..n : up[s] \in 0..s - 1,
           NEW T, NEW A \in T, NEW B, \A s \in 1..n : \A t \in T : B[<<s, t>>] \in T
    PROVE  \E f : f \in [0..n -> T] /\ Grows(f, n, up, A, B)
<1>1. PICK S : S = 0..n
  OBVIOUS
<1>2. PICK R : R = {0}
  OBVIOUS
<1>3. PICK a : a = [s \in R |-> A]
  OBVIOUS
<1>4. /\ S \in SUBSET Nat /\ R \in SUBSET S
      /\ \A s : s \in S \ R <=> s \in 1..n
  BY <1>1, <1>2
<1>5. \A s \in S \ R : up[s] \in S /\ up[s] < s
  BY <1>1, <1>4
<1>6. \A s \in R : a[s] \in T
  BY <1>2, <1>3
<1>7. \A s \in S \ R : \A t \in T : B[<<s, t>>] \in T
  BY <1>4
<1>8. PICK f : f \in [S -> T] /\ Climbs(f, S, R, up, a, B)
  BY <1>4, <1>5, <1>6, <1>7, Descends
<1>9. f[0] = A
  <2>1. 0 \in S /\ 0 \in R /\ a[0] = A
    BY <1>1, <1>2, <1>3
  <2> QED
    BY <1>8, <2>1 DEF Climbs
<1>10. ASSUME NEW s \in 1..n PROVE f[s] = B[<<s, f[up[s]]>>]
  <2>1. s \in S /\ s \notin R
    BY <1>4
  <2> QED
    BY <1>8, <2>1 DEF Climbs
<1> QED
  BY <1>1, <1>8, <1>9, <1>10 DEF Grows

\* The delay and the levels around the calls that lead to a site.
DelayAbove(w, s) ==
    LET in[i \in 0..Len(sites)] ==
            IF i = 0 THEN program.walks[w].delay
            ELSE IF DelayAround(sites[i].node) # NoDelay
                 THEN DelayAround(sites[i].node) ELSE in[sites[i].parent]
    IN  in[s]
NestAbove(s) ==
    LET in[i \in 0..Len(sites)] ==
            IF i = 0 THEN <<>>
            ELSE in[sites[i].parent] \o Tagged(Around(sites[i].node), sites[i].parent)
    IN  in[s]
Tag == Node \X Nat \X Nat

LEMMA TaggedTyped ==
    ASSUME NEW ls \in Seq(Node \X Nat), NEW s \in Nat
    PROVE  Tagged(ls, s) \in Seq(Tag) /\ Len(Tagged(ls, s)) = Len(ls)
<1>1. PICK n \in Nat : n = Len(ls)
  OBVIOUS
<1>2. \A i \in 1..n : ls[i] \in Node \X Nat
  BY <1>1
<1>3. \A i \in 1..n : <<ls[i][1], ls[i][2], s>> \in Tag
  BY <1>2 DEF Tag
<1>4. PICK t : t = Tagged(ls, s)
  OBVIOUS
<1>5. t = [i \in 1..n |-> <<ls[i][1], ls[i][2], s>>]
  BY <1>1, <1>4 DEF Tagged
<1>6. t = [i \in 1..n |-> t[i]] /\ \A i \in 1..n : t[i] \in Tag
  BY <1>3, <1>5
<1>7. t \in Seq(Tag) /\ Len(t) = n
  <2>1. n \in Nat
    OBVIOUS
  <2> QED
    BY <1>6, <2>1
<1> QED
  BY <1>1, <1>4, <1>7

LEMMA SiteFacts ==
    ASSUME CallsOK
    PROVE  /\ Len(sites) \in Nat /\ sites \in Seq(Site) /\ DOMAIN sites = 1..Len(sites)
           /\ \A s \in 1..Len(sites) : /\ sites[s] \in Site
                                      /\ sites[s].parent \in 0..s - 1
                                      /\ sites[s].node \in Node
<1>1. sites \in Seq(Site) /\ SitesNested
  BY DEF CallsOK
<1>2. \A s \in 1..Len(sites) : sites[s] \in Site /\ s \in DOMAIN sites
  BY <1>1
<1>3. \A s \in 1..Len(sites) : sites[s].parent \in 0..s - 1
  BY <1>1, <1>2 DEF SitesNested
<1> QED
  BY <1>1, <1>2, <1>3 DEF Site

LEMMA CallersUnfolds ==
    ASSUME StartOK, CallsOK
    PROVE  /\ \A s \in 0..Len(sites) : Callers(s) \in SUBSET Nat
           /\ Callers(0) = {}
           /\ \A s \in 1..Len(sites) :
                Callers(s) = Callers(sites[s].parent) \cup {s}
<1>1. PICK n \in Nat : n = Len(sites)
  BY DEF CallsOK
<1>2. PICK up : up = [s \in 1..n |-> sites[s].parent]
  OBVIOUS
<1>3. \A s \in 1..n : up[s] \in 0..s - 1 /\ up[s] = sites[s].parent /\ sites[s] \in Site
  BY <1>1, <1>2, SiteFacts
<1>4. PICK T : T = SUBSET Nat
  OBVIOUS
<1>5. PICK B : B = [p \in (1..n) \X T |-> p[2] \cup {p[1]}]
  OBVIOUS
<1>6. \A s \in 1..n, t \in T : B[<<s, t>>] = t \cup {s}
  BY <1>5
<1>7. {} \in T
  BY <1>4
<1>8. \A s \in 1..n : \A t \in T : B[<<s, t>>] \in T
  <2>1. ASSUME NEW s \in 1..n, NEW t \in T PROVE (t \cup {s}) \in T
    BY <1>4
  <2> QED
    BY <1>6, <2>1
<1>9. PICK f : f \in [0..n -> T] /\ Grows(f, n, up, {}, B)
  BY <1>3, <1>7, <1>8, GrowsSolved
<1> DEFINE Step(g, i) == IF i = 0 THEN {} ELSE g[sites[i].parent] \cup {i}
<1>10. f[0] = {} /\ \A s \in 1..n : f[s] = f[sites[s].parent] \cup {s}
  <2>1. f[0] = {} /\ \A s \in 1..n : f[s] = B[<<s, f[up[s]]>>]
    BY <1>9 DEF Grows
  <2>2. ASSUME NEW s \in 1..n PROVE f[s] = f[sites[s].parent] \cup {s}
    <3>1. PICK t \in T : t = f[up[s]] /\ t = f[sites[s].parent]
      <4>1. up[s] \in 0..n /\ up[s] = sites[s].parent
        BY <1>3
      <4> QED
        BY <1>9, <4>1
    <3>2. f[s] = B[<<s, t>>]
      BY <2>1, <3>1
    <3> QED
      BY <1>6, <3>1, <3>2
  <2> QED
    BY <2>1, <2>2
<1>11. f = [i \in 0..Len(sites) |-> Step(f, i)]
  <2>1. \A i \in 0..n : i = 0 \/ i \in 1..n
    OBVIOUS
  <2>2. \A i \in 0..n : f[i] = Step(f, i)
    <3>1. f[0] = Step(f, 0)
      BY <1>10
    <3>2. \A i \in 1..n : f[i] = Step(f, i)
      BY <1>10
    <3> QED
      BY <2>1, <3>1, <3>2
  <2>3. f = [i \in 0..n |-> f[i]]
    BY <1>9
  <2> HIDE DEF Step
  <2>4. f = [i \in 0..n |-> Step(f, i)]
    BY <2>2, <2>3
  <2> QED
    BY <1>1, <2>4
<1>12. PICK g : g = CHOOSE h : h = [i \in 0..Len(sites) |-> Step(h, i)]
  OBVIOUS
<1>13. g = [i \in 0..Len(sites) |-> Step(g, i)]
  BY <1>11, <1>12
<1>14. \A s : Callers(s) = g[s]
  BY <1>12, Zenon DEF Callers
<1>15. g[0] = {} /\ \A s \in 1..n : g[s] = g[sites[s].parent] \cup {s}
  <2>1. \A i \in 0..n : g[i] = Step(g, i)
    BY <1>1, <1>13
  <2>2. 0 \in 0..n /\ \A s \in 1..n : s \in 0..n /\ s # 0
    OBVIOUS
  <2>3. g[0] = {}
    BY <2>1, <2>2
  <2>4. ASSUME NEW s \in 1..n PROVE g[s] = g[sites[s].parent] \cup {s}
    <3>1. s \in 0..n /\ s # 0
      OBVIOUS
    <3> QED
      BY <2>1, <3>1
  <2> QED
    BY <2>3, <2>4
<1>16. \A s \in 0..n : g[s] \in T
  <2>1. PICK P : P = {s \in 0..n : g[s] \notin T}
    OBVIOUS
  <2>2. CASE P # {}
    <3>1. PICK s \in P : \A r \in P : s <= r
      BY <2>1, <2>2, Least
    <3>2. s \in 1..n
      BY <1>7, <1>15, <2>1, <3>1
    <3>3. up[s] \in 0..n /\ up[s] < s /\ up[s] \notin P
      BY <1>3, <2>1, <3>1, <3>2
    <3>4. PICK t \in T : t = g[sites[s].parent]
      BY <1>3, <2>1, <3>2, <3>3
    <3>5. g[s] = B[<<s, t>>]
      BY <1>6, <1>15, <3>2, <3>4
    <3> QED
      BY <1>8, <2>1, <3>1, <3>2, <3>5
  <2>3. CASE P = {}
    BY <2>1, <2>3
  <2> QED
    BY <2>2, <2>3
<1> QED
  BY <1>1, <1>4, <1>14, <1>15, <1>16

LEMMA DelayAboveUnfolds ==
    ASSUME StartOK, CallsOK, NEW w, program.walks[w].delay \in Delay \cup {NoDelay}
    PROVE  /\ \A s \in 0..Len(sites) : DelayAbove(w, s) \in Delay \cup {NoDelay}
           /\ DelayAbove(w, 0) = program.walks[w].delay
           /\ \A s \in 1..Len(sites) :
                DelayAbove(w, s) = (IF DelayAround(sites[s].node) # NoDelay THEN DelayAround(sites[s].node) ELSE DelayAbove(w, sites[s].parent))
<1>1. PICK n \in Nat : n = Len(sites)
  BY DEF CallsOK
<1>2. PICK up : up = [s \in 1..n |-> sites[s].parent]
  OBVIOUS
<1>3. \A s \in 1..n : up[s] \in 0..s - 1 /\ up[s] = sites[s].parent /\ sites[s] \in Site
  BY <1>1, <1>2, SiteFacts
<1>4. PICK T : T = Delay \cup {NoDelay}
  OBVIOUS
<1>5. PICK B : B = [p \in (1..n) \X T |-> (IF DelayAround(sites[p[1]].node) # NoDelay THEN DelayAround(sites[p[1]].node) ELSE p[2])]
  OBVIOUS
<1>6. \A s \in 1..n, t \in T : B[<<s, t>>] = (IF DelayAround(sites[s].node) # NoDelay THEN DelayAround(sites[s].node) ELSE t)
  BY <1>5
<1>7. program.walks[w].delay \in T
  BY <1>4
<1>8. \A s \in 1..n : \A t \in T : B[<<s, t>>] \in T
  <2>1. ASSUME NEW s \in 1..n, NEW t \in T PROVE ((IF DelayAround(sites[s].node) # NoDelay THEN DelayAround(sites[s].node) ELSE t)) \in T
    <3>1. DelayAround(sites[s].node) \in T
      BY <1>3, <1>4, DelayAroundUnfolds DEF StartOK, Site
    <3> QED
      BY <3>1
  <2> QED
    BY <1>6, <2>1
<1>9. PICK f : f \in [0..n -> T] /\ Grows(f, n, up, program.walks[w].delay, B)
  BY <1>3, <1>7, <1>8, GrowsSolved
<1> DEFINE Step(g, i) == IF i = 0 THEN program.walks[w].delay ELSE IF DelayAround(sites[i].node) # NoDelay THEN DelayAround(sites[i].node) ELSE g[sites[i].parent]
<1>10. f[0] = program.walks[w].delay /\ \A s \in 1..n : f[s] = (IF DelayAround(sites[s].node) # NoDelay THEN DelayAround(sites[s].node) ELSE f[sites[s].parent])
  <2>1. f[0] = program.walks[w].delay /\ \A s \in 1..n : f[s] = B[<<s, f[up[s]]>>]
    BY <1>9 DEF Grows
  <2>2. ASSUME NEW s \in 1..n PROVE f[s] = (IF DelayAround(sites[s].node) # NoDelay THEN DelayAround(sites[s].node) ELSE f[sites[s].parent])
    <3>1. PICK t \in T : t = f[up[s]] /\ t = f[sites[s].parent]
      <4>1. up[s] \in 0..n /\ up[s] = sites[s].parent
        BY <1>3
      <4> QED
        BY <1>9, <4>1
    <3>2. f[s] = B[<<s, t>>]
      BY <2>1, <3>1
    <3> QED
      BY <1>6, <3>1, <3>2
  <2> QED
    BY <2>1, <2>2
<1>11. f = [i \in 0..Len(sites) |-> Step(f, i)]
  <2>1. \A i \in 0..n : i = 0 \/ i \in 1..n
    OBVIOUS
  <2>2. \A i \in 0..n : f[i] = Step(f, i)
    <3>1. f[0] = Step(f, 0)
      BY <1>10
    <3>2. \A i \in 1..n : f[i] = Step(f, i)
      BY <1>10
    <3> QED
      BY <2>1, <3>1, <3>2
  <2>3. f = [i \in 0..n |-> f[i]]
    BY <1>9
  <2> HIDE DEF Step
  <2>4. f = [i \in 0..n |-> Step(f, i)]
    BY <2>2, <2>3
  <2> QED
    BY <1>1, <2>4
<1>12. PICK g : g = CHOOSE h : h = [i \in 0..Len(sites) |-> Step(h, i)]
  OBVIOUS
<1>13. g = [i \in 0..Len(sites) |-> Step(g, i)]
  BY <1>11, <1>12
<1>14. \A s : DelayAbove(w, s) = g[s]
  BY <1>12, Zenon DEF DelayAbove
<1>15. g[0] = program.walks[w].delay /\ \A s \in 1..n : g[s] = (IF DelayAround(sites[s].node) # NoDelay THEN DelayAround(sites[s].node) ELSE g[sites[s].parent])
  <2>1. \A i \in 0..n : g[i] = Step(g, i)
    BY <1>1, <1>13
  <2>2. 0 \in 0..n /\ \A s \in 1..n : s \in 0..n /\ s # 0
    OBVIOUS
  <2>3. g[0] = program.walks[w].delay
    BY <2>1, <2>2
  <2>4. ASSUME NEW s \in 1..n PROVE g[s] = (IF DelayAround(sites[s].node) # NoDelay THEN DelayAround(sites[s].node) ELSE g[sites[s].parent])
    <3>1. s \in 0..n /\ s # 0
      OBVIOUS
    <3> QED
      BY <2>1, <3>1
  <2> QED
    BY <2>3, <2>4
<1>16. \A s \in 0..n : g[s] \in T
  <2>1. PICK P : P = {s \in 0..n : g[s] \notin T}
    OBVIOUS
  <2>2. CASE P # {}
    <3>1. PICK s \in P : \A r \in P : s <= r
      BY <2>1, <2>2, Least
    <3>2. s \in 1..n
      BY <1>7, <1>15, <2>1, <3>1
    <3>3. up[s] \in 0..n /\ up[s] < s /\ up[s] \notin P
      BY <1>3, <2>1, <3>1, <3>2
    <3>4. PICK t \in T : t = g[sites[s].parent]
      BY <1>3, <2>1, <3>2, <3>3
    <3>5. g[s] = B[<<s, t>>]
      BY <1>6, <1>15, <3>2, <3>4
    <3> QED
      BY <1>8, <2>1, <3>1, <3>2, <3>5
  <2>3. CASE P = {}
    BY <2>1, <2>3
  <2> QED
    BY <2>2, <2>3
<1> QED
  BY <1>1, <1>4, <1>14, <1>15, <1>16

LEMMA NestAboveUnfolds ==
    ASSUME StartOK, CallsOK
    PROVE  /\ \A s \in 0..Len(sites) : NestAbove(s) \in Seq(Tag)
           /\ NestAbove(0) = <<>>
           /\ \A s \in 1..Len(sites) :
                NestAbove(s) = NestAbove(sites[s].parent) \o Tagged(Around(sites[s].node), sites[s].parent)
<1>1. PICK n \in Nat : n = Len(sites)
  BY DEF CallsOK
<1>2. PICK up : up = [s \in 1..n |-> sites[s].parent]
  OBVIOUS
<1>3. \A s \in 1..n : up[s] \in 0..s - 1 /\ up[s] = sites[s].parent /\ sites[s] \in Site
  BY <1>1, <1>2, SiteFacts
<1>4. PICK T : T = Seq(Tag)
  OBVIOUS
<1>5. PICK B : B = [p \in (1..n) \X T |-> p[2] \o Tagged(Around(sites[p[1]].node), sites[p[1]].parent)]
  OBVIOUS
<1>6. \A s \in 1..n, t \in T : B[<<s, t>>] = t \o Tagged(Around(sites[s].node), sites[s].parent)
  BY <1>5
<1>7. <<>> \in T
  BY <1>4
<1>8. \A s \in 1..n : \A t \in T : B[<<s, t>>] \in T
  <2>1. ASSUME NEW s \in 1..n, NEW t \in T PROVE (t \o Tagged(Around(sites[s].node), sites[s].parent)) \in T
    <3>1. sites[s].parent \in Nat /\ sites[s].node \in Node
      BY <1>3 DEF Site
    <3>2. PICK m \in Node : m = sites[s].node
      BY <3>1
    <3>3. Around(m) \in Seq(Node \X Nat)
      BY AroundUnfolds DEF StartOK
    <3>4. Tagged(Around(m), sites[s].parent) \in Seq(Tag)
      BY <3>1, <3>3, TaggedTyped
    <3> QED
      BY <1>4, <3>2, <3>4
  <2> QED
    BY <1>6, <2>1
<1>9. PICK f : f \in [0..n -> T] /\ Grows(f, n, up, <<>>, B)
  BY <1>3, <1>7, <1>8, GrowsSolved
<1> DEFINE Step(g, i) == IF i = 0 THEN <<>> ELSE g[sites[i].parent] \o Tagged(Around(sites[i].node), sites[i].parent)
<1>10. f[0] = <<>> /\ \A s \in 1..n : f[s] = f[sites[s].parent] \o Tagged(Around(sites[s].node), sites[s].parent)
  <2>1. f[0] = <<>> /\ \A s \in 1..n : f[s] = B[<<s, f[up[s]]>>]
    BY <1>9 DEF Grows
  <2>2. ASSUME NEW s \in 1..n PROVE f[s] = f[sites[s].parent] \o Tagged(Around(sites[s].node), sites[s].parent)
    <3>1. PICK t \in T : t = f[up[s]] /\ t = f[sites[s].parent]
      <4>1. up[s] \in 0..n /\ up[s] = sites[s].parent
        BY <1>3
      <4> QED
        BY <1>9, <4>1
    <3>2. f[s] = B[<<s, t>>]
      BY <2>1, <3>1
    <3> QED
      BY <1>6, <3>1, <3>2
  <2> QED
    BY <2>1, <2>2
<1>11. f = [i \in 0..Len(sites) |-> Step(f, i)]
  <2>1. \A i \in 0..n : i = 0 \/ i \in 1..n
    OBVIOUS
  <2>2. \A i \in 0..n : f[i] = Step(f, i)
    <3>1. f[0] = Step(f, 0)
      BY <1>10
    <3>2. \A i \in 1..n : f[i] = Step(f, i)
      BY <1>10
    <3> QED
      BY <2>1, <3>1, <3>2
  <2>3. f = [i \in 0..n |-> f[i]]
    BY <1>9
  <2> HIDE DEF Step
  <2>4. f = [i \in 0..n |-> Step(f, i)]
    BY <2>2, <2>3
  <2> QED
    BY <1>1, <2>4
<1>12. PICK g : g = CHOOSE h : h = [i \in 0..Len(sites) |-> Step(h, i)]
  OBVIOUS
<1>13. g = [i \in 0..Len(sites) |-> Step(g, i)]
  BY <1>11, <1>12
<1>14. \A s : NestAbove(s) = g[s]
  BY <1>12, Zenon DEF NestAbove
<1>15. g[0] = <<>> /\ \A s \in 1..n : g[s] = g[sites[s].parent] \o Tagged(Around(sites[s].node), sites[s].parent)
  <2>1. \A i \in 0..n : g[i] = Step(g, i)
    BY <1>1, <1>13
  <2>2. 0 \in 0..n /\ \A s \in 1..n : s \in 0..n /\ s # 0
    OBVIOUS
  <2>3. g[0] = <<>>
    BY <2>1, <2>2
  <2>4. ASSUME NEW s \in 1..n PROVE g[s] = g[sites[s].parent] \o Tagged(Around(sites[s].node), sites[s].parent)
    <3>1. s \in 0..n /\ s # 0
      OBVIOUS
    <3> QED
      BY <2>1, <3>1
  <2> QED
    BY <2>3, <2>4
<1>16. \A s \in 0..n : g[s] \in T
  <2>1. PICK P : P = {s \in 0..n : g[s] \notin T}
    OBVIOUS
  <2>2. CASE P # {}
    <3>1. PICK s \in P : \A r \in P : s <= r
      BY <2>1, <2>2, Least
    <3>2. s \in 1..n
      BY <1>7, <1>15, <2>1, <3>1
    <3>3. up[s] \in 0..n /\ up[s] < s /\ up[s] \notin P
      BY <1>3, <2>1, <3>1, <3>2
    <3>4. PICK t \in T : t = g[sites[s].parent]
      BY <1>3, <2>1, <3>2, <3>3
    <3>5. g[s] = B[<<s, t>>]
      BY <1>6, <1>15, <3>2, <3>4
    <3> QED
      BY <1>8, <2>1, <3>1, <3>2, <3>5
  <2>3. CASE P = {}
    BY <2>1, <2>3
  <2> QED
    BY <2>2, <2>3
<1> QED
  BY <1>1, <1>4, <1>14, <1>15, <1>16

LEMMA SiteInduction ==
    ASSUME CallsOK, NEW P, 0 \in P,
           \A s \in 1..Len(sites) : sites[s].parent \in P => s \in P
    PROVE  \A s \in 0..Len(sites) : s \in P
<1>1. PICK n \in Nat : n = Len(sites)
  BY SiteFacts
<1>2. PICK B : B = {s \in 0..n : s \notin P}
  OBVIOUS
<1>3. CASE B # {}
  <2>1. PICK s \in B : \A r \in B : s <= r
    BY <1>2, <1>3, Least
  <2>2. s \in 1..n
    BY <1>2, <2>1
  <2>3. sites[s].parent \in 0..s - 1
    BY <1>1, <2>2, SiteFacts
  <2>4. sites[s].parent \in 0..n /\ sites[s].parent < s
    BY <2>2, <2>3
  <2>5. sites[s].parent \notin B
    BY <1>2, <2>1, <2>4
  <2> QED
    BY <1>1, <1>2, <2>1, <2>2, <2>4, <2>5
<1>4. CASE B = {}
  BY <1>1, <1>2, <1>4
<1> QED
  BY <1>3, <1>4

\* What the sites add up to, site by site.
SiteSums ==
    /\ Callers(0) = {} /\ NestAbove(0) = <<>>
    /\ \A s \in 1..Len(sites) : \A p, m : p = sites[s].parent /\ m = sites[s].node =>
         /\ Callers(s) = Callers(p) \cup {s}
         /\ NestAbove(s) = NestAbove(p) \o Tagged(Around(m), p)
    /\ \A s \in 0..Len(sites) : NestAbove(s) \in Seq(Tag)
    /\ \A w \in 1..Len(program.walks) :
         /\ DelayAbove(w, 0) = program.walks[w].delay
         /\ \A s \in 1..Len(sites) : \A p, m : p = sites[s].parent /\ m = sites[s].node =>
              DelayAbove(w, s) = IF DelayAround(m) # NoDelay
                                 THEN DelayAround(m) ELSE DelayAbove(w, p)

LEMMA WalkTyped ==
    ASSUME StartOK, NEW w \in 1..Len(program.walks)
    PROVE  /\ program.walks[w] \in Walk /\ program.walks[w].top \in Node
           /\ program.walks[w].delay \in Delay \cup {NoDelay}
           /\ program.walks[w].timing \in Node \cup {0}
           /\ program.walks[w].continuous \in BOOLEAN /\ program.walks[w].header \in BOOLEAN
<1>1. program.walks \in Seq(Walk)
  BY ProgramTyped DEF StartOK, Programs
<1>2. program.walks[w] \in Walk
  BY <1>1, ElementIn
<1> QED
  BY <1>2 DEF Walk

LEMMA SitesAddUp == StartOK /\ CallsOK => SiteSums
<1> SUFFICES ASSUME StartOK, CallsOK PROVE SiteSums
  OBVIOUS
<1>1. ASSUME NEW w \in 1..Len(program.walks)
      PROVE  /\ DelayAbove(w, 0) = program.walks[w].delay
             /\ \A s \in 1..Len(sites) :
                  DelayAbove(w, s) =
                    IF DelayAround(sites[s].node) # NoDelay
                    THEN DelayAround(sites[s].node) ELSE DelayAbove(w, sites[s].parent)
  BY WalkTyped, DelayAboveUnfolds
<1> QED
  BY <1>1, CallersUnfolds, NestAboveUnfolds DEF SiteSums

LEMMA SitesAddUpNext == StartOK' /\ CallsOK' => SiteSums'
  BY SitesAddUp, PTL

\* The source does not change.
LEMMA SourceStays ==
    ASSUME UNCHANGED program, NEW n
    PROVE  /\ Of(n)' = Of(n) /\ HolderOf(n)' = HolderOf(n)
           /\ Root(n)' = Root(n) /\ Around(n)' = Around(n)
           /\ DelayAround(n)' = DelayAround(n) /\ StatementOf(n)' = StatementOf(n)
           /\ Holders(n)' = Holders(n)
<1>1. \A m : Of(m)' = Of(m) /\ HolderOf(m)' = HolderOf(m)
  BY DEF Of, HolderOf, Mentions
<1>2. Root(n)' = Root(n)
  BY DEF Root, HolderOf, Of, Mentions
<1>3. Around(n)' = Around(n)
  BY DEF Around, LevelsAt, HolderOf, Of, Mentions
<1>4. DelayAround(n)' = DelayAround(n)
  BY DEF DelayAround, HolderOf, Of, Mentions
<1>5. StatementOf(n)' = StatementOf(n)
  BY DEF StatementOf, HolderOf, Of, Mentions
<1>6. Holders(n)' = Holders(n)
  BY DEF Holders, HolderOf, Of, Mentions
<1> QED
  BY <1>1, <1>2, <1>3, <1>4, <1>5, <1>6

LEMMA SurroundingsStay ==
    ASSUME UNCHANGED program, NEW n
    PROVE  /\ IndicesAround(n)' = IndicesAround(n) /\ ForceAround(n)' = ForceAround(n)
           /\ (InHead(n) <=> InHead(n)')
<1>1. \A m : Of(m)' = Of(m) /\ Holders(m)' = Holders(m)
  BY SourceStays
<1> QED
  BY <1>1 DEF IndicesAround, ForceAround, InHead

\* The calls around a site, and the first of them.
LEMMA CallersFacts ==
    ASSUME StartOK, CallsOK
    PROVE  /\ Callers(0) = {}
           /\ \A s \in 1..Len(sites) :
                /\ Callers(s) = Callers(sites[s].parent) \cup {s}
                /\ Callers(s) \subseteq 1..s
                /\ \A i \in Callers(s) : Callers(i) \subseteq Callers(s)
                /\ Outermost(s) \in Callers(s) /\ sites[Outermost(s)].parent = 0
                /\ Outermost(s) = IF sites[s].parent = 0 THEN s
                                  ELSE Outermost(sites[s].parent)
<1>1. PICK n \in Nat : n = Len(sites)
  BY SiteFacts
<1>2. /\ Callers(0) = {}
      /\ \A s \in 1..n : Callers(s) = Callers(sites[s].parent) \cup {s}
  BY <1>1, SitesAddUp DEF SiteSums
<1>3. \A s \in 1..n : sites[s].parent \in 0..s - 1
  BY <1>1, SiteFacts
<1>4. \A s \in 0..n : Callers(s) \subseteq 1..s
  <2>1. PICK P : P = {s \in 0..n : Callers(s) \subseteq 1..s}
    OBVIOUS
  <2>2. 0 \in P
    BY <1>2, <2>1
  <2>3. ASSUME NEW s \in 1..n, sites[s].parent \in P PROVE s \in P
    <3>1. PICK p \in 0..s - 1 : p = sites[s].parent
      BY <1>3
    <3>2. Callers(p) \subseteq 1..p /\ Callers(s) = Callers(p) \cup {s}
      BY <1>2, <2>1, <2>3, <3>1
    <3>3. 1..p \subseteq 1..s /\ s \in 1..s
      BY <3>1
    <3> QED
      BY <2>1, <3>2, <3>3
  <2>4. \A s \in 0..n : s \in P
    BY <1>1, <2>2, <2>3, SiteInduction
  <2> QED
    BY <2>1, <2>4
<1>5. \A s \in 0..n : \A i \in Callers(s) : Callers(i) \subseteq Callers(s)
  <2>1. PICK P : P = {s \in 0..n : \A i \in Callers(s) : Callers(i) \subseteq Callers(s)}
    OBVIOUS
  <2>2. 0 \in P
    BY <1>2, <2>1
  <2>3. ASSUME NEW s \in 1..n, sites[s].parent \in P PROVE s \in P
    BY <1>2, <2>1, <2>3
  <2>4. \A s \in 0..n : s \in P
    BY <1>1, <2>2, <2>3, SiteInduction
  <2> QED
    BY <2>1, <2>4
<1> DEFINE Tops(s) == {i \in Callers(s) : sites[i].parent = 0}
<1>6. \A s : Outermost(s) = CHOOSE i \in Callers(s) : sites[i].parent = 0
  BY DEF Outermost
<1>7. ASSUME NEW s \in 1..n, sites[s].parent = 0
      PROVE  Callers(s) = {s} /\ Outermost(s) = s
  <2>1. Callers(s) = {s}
    BY <1>2, <1>7
  <2> QED
    BY <1>6, <1>7, <2>1
<1>8. ASSUME NEW s \in 1..n, sites[s].parent # 0
      PROVE  Outermost(s) = Outermost(sites[s].parent)
  <2>1. PICK p : p = sites[s].parent
    OBVIOUS
  <2>2. Callers(s) = Callers(p) \cup {s} /\ p # 0
    BY <1>2, <1>8, <2>1
  <2>3. \A i : (i \in Callers(s) /\ sites[i].parent = 0) <=> (i \in Callers(p) /\ sites[i].parent = 0)
    BY <1>8, <2>2
  <2>4. Outermost(s) = (CHOOSE i : i \in Callers(s) /\ sites[i].parent = 0)
    BY <1>6
  <2>5. Outermost(p) = (CHOOSE i : i \in Callers(p) /\ sites[i].parent = 0)
    BY <1>6
  <2> QED
    BY <2>1, <2>3, <2>4, <2>5
<1>9. \A s \in 0..n : s # 0 => Outermost(s) \in Callers(s) /\ sites[Outermost(s)].parent = 0
  <2>1. PICK P : P = {s \in 0..n : s # 0 => Outermost(s) \in Callers(s)
                                            /\ sites[Outermost(s)].parent = 0}
    OBVIOUS
  <2>2. 0 \in P
    BY <2>1
  <2>3. ASSUME NEW s \in 1..n, sites[s].parent \in P PROVE s \in P
    <3>1. CASE sites[s].parent = 0
      BY <1>7, <2>1, <3>1
    <3>2. CASE sites[s].parent # 0
      BY <1>2, <1>8, <2>1, <2>3, <3>2
    <3> QED
      BY <3>1, <3>2
  <2>4. \A s \in 0..n : s \in P
    BY <1>1, <2>2, <2>3, SiteInduction
  <2> QED
    BY <2>1, <2>4
<1>10. \A s \in 1..n : s \in 0..n /\ s # 0
  OBVIOUS
<1> QED
  BY <1>1, <1>2, <1>4, <1>5, <1>7, <1>8, <1>9, <1>10

LEMMA CallersFactsNext ==
    StartOK' /\ CallsOK' =>
      (/\ Callers(0) = {}
       /\ \A s \in 1..Len(sites) :
            /\ Callers(s) = Callers(sites[s].parent) \cup {s}
            /\ Callers(s) \subseteq 1..s
            /\ \A i \in Callers(s) : Callers(i) \subseteq Callers(s)
            /\ Outermost(s) \in Callers(s) /\ sites[Outermost(s)].parent = 0
            /\ Outermost(s) = IF sites[s].parent = 0 THEN s
                              ELSE Outermost(sites[s].parent))'
<1>1. StartOK /\ CallsOK =>
      (/\ Callers(0) = {}
       /\ \A s \in 1..Len(sites) :
            /\ Callers(s) = Callers(sites[s].parent) \cup {s}
            /\ Callers(s) \subseteq 1..s
            /\ \A i \in Callers(s) : Callers(i) \subseteq Callers(s)
            /\ Outermost(s) \in Callers(s) /\ sites[Outermost(s)].parent = 0
            /\ Outermost(s) = IF sites[s].parent = 0 THEN s
                              ELSE Outermost(sites[s].parent))
  BY CallersFacts
<1> QED
  BY <1>1, PTL

\* A site that is there keeps what is around it.
LEMMA SitesStay ==
    ASSUME StartOK, CallsOK, StartOK', CallsOK', Grown, UNCHANGED program
    PROVE  /\ \A s \in 0..Len(sites) : Callers(s)' = Callers(s) /\ NestAbove(s)' = NestAbove(s)
           /\ \A s \in 1..Len(sites) : Outermost(s)' = Outermost(s)
           /\ \A w \in 1..Len(program.walks) : \A s \in 0..Len(sites) :
                 DelayAbove(w, s)' = DelayAbove(w, s)
<1>1. PICK n \in Nat, m \in Nat : n = Len(sites) /\ m = Len(sites')
  BY DEF Grown
<1>2. n <= m /\ \A s \in 1..n : s \in 1..m /\ sites'[s] = sites[s]
  BY <1>1 DEF Grown
<1>3. \A s \in 1..n : sites[s].parent \in 0..s - 1
  BY <1>1, SiteFacts
<1>4. /\ Callers(0) = {} /\ NestAbove(0) = <<>>
      /\ \A s \in 1..n : \A p, q : p = sites[s].parent /\ q = sites[s].node =>
           /\ Callers(s) = Callers(p) \cup {s}
           /\ NestAbove(s) = NestAbove(p) \o Tagged(Around(q), p)
  BY <1>1, SitesAddUp DEF SiteSums
<1>5. /\ Callers(0)' = {} /\ NestAbove(0)' = <<>>
      /\ \A s \in 1..n : \A p, q : p = sites[s].parent /\ q = sites[s].node =>
           /\ Callers(s)' = Callers(p)' \cup {s}
           /\ NestAbove(s)' = NestAbove(p)' \o Tagged(Around(q), p)
  <2>1. SiteSums'
    BY SitesAddUpNext
  <2>2. \A q : Around(q)' = Around(q)
    BY SourceStays
  <2>3. \A q, p : Tagged(Around(q), p)' = Tagged(Around(q), p)
    BY <2>2 DEF Tagged
  <2>4. /\ Callers(0)' = {} /\ NestAbove(0)' = <<>>
        /\ \A s \in 1..m : \A p, q : p = sites'[s].parent /\ q = sites'[s].node =>
             /\ Callers(s)' = Callers(p)' \cup {s}
             /\ NestAbove(s)' = NestAbove(p)' \o Tagged(Around(q), p)'
    BY <1>1, <2>1 DEF SiteSums
  <2>5. ASSUME NEW s \in 1..n, NEW p, NEW q, p = sites[s].parent, q = sites[s].node
        PROVE  /\ Callers(s)' = Callers(p)' \cup {s}
               /\ NestAbove(s)' = NestAbove(p)' \o Tagged(Around(q), p)
    <3>1. s \in 1..m /\ sites'[s] = sites[s]
      BY <1>2
    <3>2. p = sites'[s].parent /\ q = sites'[s].node
      BY <2>5, <3>1
    <3>3. /\ Callers(s)' = Callers(p)' \cup {s}
          /\ NestAbove(s)' = NestAbove(p)' \o Tagged(Around(q), p)'
      BY <2>4, <3>1, <3>2
    <3> QED
      BY <2>3, <3>3
  <2> QED
    BY <2>4, <2>5
<1>6. \A s \in 0..n : Callers(s)' = Callers(s) /\ NestAbove(s)' = NestAbove(s)
  <2>1. PICK P : P = {s \in 0..n : Callers(s)' = Callers(s) /\ NestAbove(s)' = NestAbove(s)}
    OBVIOUS
  <2>2. 0 \in P
    <3>1. 0 \in 0..n
      OBVIOUS
    <3>2. Callers(0)' = Callers(0) /\ NestAbove(0)' = NestAbove(0)
      BY <1>4, <1>5
    <3> QED
      BY <2>1, <3>1, <3>2
  <2>3. ASSUME NEW s \in 1..n, sites[s].parent \in P PROVE s \in P
    <3>1. s \in 0..n
      OBVIOUS
    <3>2. PICK p \in 0..n : p = sites[s].parent /\ p \in P
      BY <2>1, <2>3
    <3>3. Callers(p)' = Callers(p) /\ NestAbove(p)' = NestAbove(p)
      BY <2>1, <3>2
    <3>4. PICK q : q = sites[s].node
      OBVIOUS
    <3>5. Callers(s) = Callers(p) \cup {s} /\ NestAbove(s) = NestAbove(p) \o Tagged(Around(q), p)
      BY <1>4, <3>2, <3>4
    <3>6. Callers(s)' = Callers(p)' \cup {s} /\ NestAbove(s)' = NestAbove(p)' \o Tagged(Around(q), p)
      BY <1>5, <3>2, <3>4
    <3> QED
      BY <2>1, <3>1, <3>3, <3>5, <3>6
  <2>4. \A s \in 0..n : s \in P
    BY <1>1, <2>2, <2>3, SiteInduction
  <2> QED
    BY <2>1, <2>4
<1>7. \A s \in 1..n : Outermost(s)' = Outermost(s)
  <2>1. ASSUME NEW s \in 1..n PROVE Outermost(s)' = Outermost(s)
    <3>1. Callers(s)' = Callers(s)
      BY <1>6
    <3>2. Callers(s) \subseteq 1..s
      BY <1>1, CallersFacts
    <3>3. \A i \in Callers(s) : i \in 1..n
      BY <3>2
    <3>4. \A i : (i \in Callers(s) /\ sites[i].parent = 0)
                   <=> (i \in Callers(s)' /\ sites'[i].parent = 0)
      BY <1>2, <3>1, <3>3
    <3>5. Outermost(s) = CHOOSE i : i \in Callers(s) /\ sites[i].parent = 0
      BY DEF Outermost
    <3>6. Outermost(s)' = CHOOSE i : i \in Callers(s)' /\ sites'[i].parent = 0
      BY DEF Outermost
    <3> QED
      BY <3>4, <3>5, <3>6
  <2> QED
    BY <2>1
<1>8. ASSUME NEW w \in 1..Len(program.walks)
      PROVE  \A s \in 0..n : DelayAbove(w, s)' = DelayAbove(w, s)
  <2>1. /\ DelayAbove(w, 0) = program.walks[w].delay
        /\ \A s \in 1..n : \A p, q : p = sites[s].parent /\ q = sites[s].node =>
             DelayAbove(w, s) = IF DelayAround(q) # NoDelay
                                THEN DelayAround(q) ELSE DelayAbove(w, p)
    BY <1>1, SitesAddUp DEF SiteSums
  <2>2. /\ DelayAbove(w, 0)' = program'.walks[w].delay
        /\ \A s \in 1..m : \A p, q : p = sites'[s].parent /\ q = sites'[s].node =>
             DelayAbove(w, s)' = IF DelayAround(q)' # NoDelay
                                 THEN DelayAround(q)' ELSE DelayAbove(w, p)'
    <3>1. SiteSums' /\ program'.walks = program.walks
      BY SitesAddUpNext
    <3>2. w \in 1..Len(program'.walks)
      BY <3>1
    <3> QED
      BY <1>1, <3>1, <3>2 DEF SiteSums
  <2>3. \A p : DelayAround(p)' = DelayAround(p)
    BY SourceStays
  <2>4. PICK P : P = {s \in 0..n : DelayAbove(w, s)' = DelayAbove(w, s)}
    OBVIOUS
  <2>5. 0 \in P
    BY <2>1, <2>2, <2>4
  <2>6. ASSUME NEW s \in 1..n, sites[s].parent \in P PROVE s \in P
    <3>1. s \in 0..n /\ s \in 1..m /\ sites'[s] = sites[s]
      BY <1>2
    <3>2. PICK p \in 0..n : p = sites[s].parent /\ DelayAbove(w, p)' = DelayAbove(w, p)
      BY <2>4, <2>6
    <3>3. PICK q : q = sites[s].node /\ DelayAround(q)' = DelayAround(q)
      BY <2>3
    <3>4. DelayAbove(w, s)' = IF DelayAround(q)' # NoDelay THEN DelayAround(q)'
                              ELSE DelayAbove(w, p)'
      BY <2>2, <3>1, <3>2, <3>3
    <3>5. DelayAbove(w, s) = IF DelayAround(q) # NoDelay THEN DelayAround(q)
                              ELSE DelayAbove(w, p)
      BY <2>1, <3>2, <3>3
    <3>6. DelayAbove(w, s)' = DelayAbove(w, s)
      BY <3>2, <3>3, <3>4, <3>5
    <3> QED
      BY <2>4, <3>1, <3>6
  <2>7. \A s \in 0..n : s \in P
    BY <1>1, <2>5, <2>6, SiteInduction
  <2> QED
    BY <2>4, <2>7
<1> QED
  BY <1>1, <1>6, <1>7, <1>8

(***************************************************************************)
(* A list of items that leads from one state of affairs to another.        *)
(***************************************************************************)
Linked(R, items, x, y) ==
    \E b : /\ b[1] = x /\ b[Len(items) + 1] = y
           /\ \A i \in 1..Len(items) : <<items[i], b[i], b[i + 1]>> \in R

LEMMA LinkedNone == ASSUME NEW R, NEW x PROVE Linked(R, <<>>, x, x)
<1>1. PICK b : b = [i \in {1} |-> x]
  OBVIOUS
<1>2. b[1] = x /\ Len(<<>>) + 1 = 1
  BY <1>1
<1> QED
  BY <1>2 DEF Linked

LEMMA LinkedOne ==
    ASSUME NEW R, NEW x, NEW y, NEW it, <<it, x, y>> \in R
    PROVE  Linked(R, <<it>>, x, y)
<1>1. PICK b : b = [i \in 1..2 |-> IF i = 1 THEN x ELSE y]
  OBVIOUS
<1>2. b[1] = x /\ b[2] = y
  BY <1>1
<1>3. Len(<<it>>) = 1 /\ <<it>>[1] = it
  OBVIOUS
<1>4. \A i \in 1..1 : i = 1
  OBVIOUS
<1> QED
  BY <1>2, <1>3, <1>4 DEF Linked

LEMMA LinkedSame ==
    ASSUME NEW R, NEW x, NEW items \in Seq(Item),
           \A i \in 1..Len(items) : <<items[i], x, x>> \in R
    PROVE  Linked(R, items, x, x)
<1>1. PICK n \in Nat : n = Len(items)
  OBVIOUS
<1>2. PICK b : b = [i \in 1..n + 1 |-> x]
  OBVIOUS
<1>3. b[1] = x /\ b[n + 1] = x /\ \A i \in 1..n : b[i] = x /\ b[i + 1] = x
  BY <1>2
<1> QED
  BY <1>1, <1>3 DEF Linked

LEMMA LinkedJoin ==
    ASSUME NEW R, NEW x, NEW y, NEW z, NEW p \in Seq(Item), NEW q \in Seq(Item),
           Linked(R, p, x, y), Linked(R, q, y, z)
    PROVE  Linked(R, p \o q, x, z)
<1>1. PICK m \in Nat, n \in Nat : m = Len(p) /\ n = Len(q)
  OBVIOUS
<1>2. PICK b : /\ b[1] = x /\ b[m + 1] = y
               /\ \A i \in 1..m : <<p[i], b[i], b[i + 1]>> \in R
  BY <1>1 DEF Linked
<1>3. PICK c : /\ c[1] = y /\ c[n + 1] = z
               /\ \A i \in 1..n : <<q[i], c[i], c[i + 1]>> \in R
  BY <1>1 DEF Linked
<1>4. PICK d : d = [i \in 1..m + n + 1 |-> IF i <= m THEN b[i] ELSE c[i - m]]
  OBVIOUS
<1>5. /\ \A i \in 1..m + 1 : d[i] = b[i]
      /\ \A i \in 1..n + 1 : d[m + i] = c[i]
  <2>1. ASSUME NEW i \in 1..n + 1 PROVE d[m + i] = c[i]
    <3>1. m + i \in 1..m + n + 1 /\ ~(m + i <= m) /\ (m + i) - m = i
      OBVIOUS
    <3> QED
      BY <1>4, <3>1
  <2>2. ASSUME NEW i \in 1..m PROVE d[i] = b[i]
    <3>1. i \in 1..m + n + 1 /\ i <= m
      OBVIOUS
    <3> QED
      BY <1>4, <3>1
  <2>3. d[m + 1] = b[m + 1]
    BY <1>2, <1>3, <2>1
  <2> QED
    BY <2>1, <2>2, <2>3
<1>6. PICK s : s = p \o q
  OBVIOUS
<1>7. /\ Len(s) = m + n
      /\ \A i \in 1..m : s[i] = p[i]
      /\ \A i \in 1..n : s[m + i] = q[i]
  <2>1. Len(s) = m + n /\ \A i \in 1..m : s[i] = p[i]
    BY <1>1, <1>6
  <2>2. ASSUME NEW i \in 1..n PROVE s[m + i] = q[i]
    <3>1. m + i \in 1..m + n /\ ~(m + i <= m) /\ (m + i) - m = i
      OBVIOUS
    <3> QED
      BY <1>1, <1>6, <3>1
  <2> QED
    BY <2>1, <2>2
<1>8. d[1] = x
  BY <1>2, <1>5
<1>9. d[m + n + 1] = z
  <2>1. n + 1 \in 1..n + 1 /\ m + (n + 1) = m + n + 1
    OBVIOUS
  <2> QED
    BY <1>3, <1>5, <2>1
<1>10. ASSUME NEW i \in 1..m + n PROVE <<s[i], d[i], d[i + 1]>> \in R
  <2>1. CASE i \in 1..m
    <3>4. i \in 1..m + 1
      BY <2>1
    <3>5. d[i] = b[i]
      BY ONLY <1>5, <3>4
    <3>1. d[i] = b[i] /\ s[i] = p[i] /\ <<p[i], b[i], b[i + 1]>> \in R
      BY ONLY <1>2, <1>7, <2>1, <3>5
    <3>2. i + 1 \in 1..m + 1
      BY <2>1
    <3>3. d[i + 1] = b[i + 1]
      BY <1>5, <3>2
    <3> QED
      BY <3>1, <3>3
  <2>2. CASE i \notin 1..m
    <3>1. PICK j \in 1..n : i = m + j
      <4>1. i - m \in 1..n /\ i = m + (i - m)
        BY <2>2
      <4> QED
        BY <4>1
    <3>2. d[m + j] = c[j] /\ d[m + (j + 1)] = c[j + 1] /\ s[m + j] = q[j]
      BY <1>5, <1>7
    <3>3. i + 1 = m + (j + 1)
      BY <3>1
    <3>4. <<q[j], c[j], c[j + 1]>> \in R
      BY <1>3
    <3> QED
      BY <3>1, <3>2, <3>3, <3>4
  <2> QED
    BY <2>1, <2>2
<1>11. Linked(R, s, x, z)
  BY <1>7, <1>8, <1>9, <1>10 DEF Linked
<1> QED
  BY <1>6, <1>11

LEMMA LinkedHead ==
    ASSUME NEW R, NEW x, NEW z, NEW items \in Seq(Item), items # <<>>,
           Linked(R, items, x, z)
    PROVE  \E y : /\ <<Head(items), x, y>> \in R
                  /\ Linked(R, Tail(items), y, z)
<1>1. PICK n \in Nat \ {0} : n = Len(items)
  OBVIOUS
<1>2. PICK b : /\ b[1] = x /\ b[n + 1] = z
               /\ \A i \in 1..n : <<items[i], b[i], b[i + 1]>> \in R
  BY <1>1 DEF Linked
<1>3. Head(items) = items[1] /\ 1 \in 1..n
  BY <1>1
<1>4. <<Head(items), x, b[2]>> \in R
  <2>1. 1 + 1 = 2
    OBVIOUS
  <2> QED
    BY <1>2, <1>3, <2>1
<1>5. PICK c : c = [i \in 1..n |-> b[i + 1]]
  OBVIOUS
<1>6. PICK s : s = Tail(items)
  OBVIOUS
<1>7. Len(s) = n - 1 /\ \A i \in 1..n - 1 : s[i] = items[i + 1]
  BY <1>1, <1>6
<1>8. c[1] = b[2] /\ c[(n - 1) + 1] = z
  BY <1>2, <1>5
<1>9. ASSUME NEW i \in 1..n - 1 PROVE <<s[i], c[i], c[i + 1]>> \in R
  <2>1. PICK j \in 1..n : j = i + 1
    OBVIOUS
  <2>2. c[i] = b[j] /\ c[i + 1] = b[j + 1] /\ s[i] = items[j]
    BY <1>5, <1>7, <2>1
  <2> QED
    BY <1>2, <2>2
<1>10. Linked(R, s, b[2], z)
  BY <1>7, <1>8, <1>9 DEF Linked
<1> QED
  BY <1>4, <1>6, <1>10

LEMMA LinkedStill ==
    ASSUME NEW R, NEW Q, R \subseteq Q, NEW x, NEW y, NEW items \in Seq(Item),
           Linked(R, items, x, y)
    PROVE  Linked(Q, items, x, y)
  BY DEF Linked

(***************************************************************************)
(* What is in force, and where.                                            *)
(***************************************************************************)
Affairs == [c : Context, lv : Seq(Tag), new : BOOLEAN]

TopOf(s) == IF s = 0 THEN program.walks[at].top ELSE sites[s].callee
CalleesAround(s) == {sites[i].callee : i \in Callers(s)}
ForcedAbove(s) == UNION {ForceAround(sites[i].node) : i \in Callers(s)}
HeadAbove(s) == \E i \in Callers(s) : InHead(sites[i].node)

Sound(x) ==
    /\ x \in Affairs /\ x.c.site \in 0..Len(sites)
    /\ x.c.site # 0 => Root(sites[Outermost(x.c.site)].node) = program.walks[at].top
    /\ x.c.active = CalleesAround(x.c.site)
    /\ x.c.sub = IF x.c.site = 0 THEN 0 ELSE sites[x.c.site].callee

Placed(n, x) ==
    /\ Root(n) = TopOf(x.c.site)
    /\ x.c.delay = IF DelayAround(n) # NoDelay THEN DelayAround(n)
                   ELSE DelayAbove(at, x.c.site)
    /\ x.c.indices = IndicesIn(n, x.c.site)
    /\ ForceAround(n) # {} => x.c.word \in ForceAround(n)
    /\ ForceAround(n) \cup ForcedAbove(x.c.site) = {} => x.c.word = "own"
    /\ InHead(n) => ~x.c.bindable
    /\ ~InHead(n) /\ ~HeadAbove(x.c.site) => x.c.bindable
    /\ x.lv = NestAbove(x.c.site) \o Tagged(Around(n), x.c.site)

\* What each item of the agenda does to it.
Within(it, x) ==
    [c |-> x.c, lv |-> Append(x.lv, <<it.node, it.arm, x.c.site>>), new |-> it.op = "point"]
Restored(it, c) ==
    IF it.op = "unguard" THEN [c EXCEPT !.bindable = it.ctx.bindable]
    ELSE IF it.op = "unindex"
         THEN [c EXCEPT !.indices = @ \ (Of(it.node).vars \ it.ctx.indices)]
    ELSE IF it.op = "undelay" THEN [c EXCEPT !.delay = it.ctx.delay]
    ELSE IF it.op = "unforce" THEN [c EXCEPT !.word = it.ctx.word]
    ELSE [c EXCEPT !.site = it.ctx.site, !.sub = it.ctx.sub, !.depth = @ - 1,
                   !.active = @ \ {Of(it.node).callee}]
Undoing == {"unguard", "unindex", "undelay", "unforce", "leave"}

Good(it, x, y) ==
    /\ Sound(x) /\ Sound(y)
    /\ it.op \in {"visit", "enter"} =>
         y = x /\ ~x.new /\ Placed(it.node, x)
         /\ (it.op = "enter" => Of(it.node).kind = "call")
    /\ it.op = "arm" =>
         /\ y = [c |-> x.c, lv |-> x.lv, new |-> FALSE]
         /\ Sound(Within(it, x)) /\ Placed(Of(it.node).arms[it.arm], Within(it, x))
    /\ it.op = "point" => ~x.new /\ it.arm = 0 /\ y = Within(it, x)
    /\ it.op = "pop" =>
         /\ x.lv # <<>>
         /\ y = [c |-> x.c, lv |-> SubSeq(x.lv, 1, Len(x.lv) - 1), new |-> FALSE]
    /\ it.op \in Undoing => ~x.new /\ y = [c |-> Restored(it, x.c), lv |-> x.lv, new |-> FALSE]

Steps == {t \in Item \X Affairs \X Affairs : Good(t[1], t[2], t[3])}

LEMMA StepIs ==
    ASSUME NEW it, NEW x, NEW y
    PROVE  /\ it \in Item /\ Good(it, x, y) => <<it, x, y>> \in Steps
           /\ <<it, x, y>> \in Steps => it \in Item /\ Good(it, x, y)
<1>1. Good(it, x, y) => x \in Affairs /\ y \in Affairs
  BY DEF Good, Sound
<1>2. <<it, x, y>>[1] = it /\ <<it, x, y>>[2] = x /\ <<it, x, y>>[3] = y
  OBVIOUS
<1>3. <<it, x, y>> \in Item \X Affairs \X Affairs <=> it \in Item /\ x \in Affairs /\ y \in Affairs
  OBVIOUS
<1> QED
  BY <1>1, <1>2, <1>3 DEF Steps

LEMMA StepIsNext ==
    ASSUME NEW it, NEW x, NEW y
    PROVE  it \in Item /\ Good(it, x, y)' => <<it, x, y>> \in Steps'
<1>1. Good(it, x, y)' => x \in Affairs /\ y \in Affairs
  BY DEF Good, Sound
<1>2. <<it, x, y>>[1] = it /\ <<it, x, y>>[2] = x /\ <<it, x, y>>[3] = y
  OBVIOUS
<1>3. <<it, x, y>> \in Item \X Affairs \X Affairs <=> it \in Item /\ x \in Affairs /\ y \in Affairs
  OBVIOUS
<1> QED
  BY <1>1, <1>2, <1>3 DEF Steps

\* Sites that are there keep what is around them.
LEMMA AroundSitesStays ==
    ASSUME StartOK, CallsOK, StartOK', CallsOK', Grown, UNCHANGED program,
           NEW s \in 0..Len(sites)
    PROVE  /\ CalleesAround(s)' = CalleesAround(s) /\ ForcedAbove(s)' = ForcedAbove(s)
           /\ (HeadAbove(s) <=> HeadAbove(s)')
           /\ \A n : IndicesIn(n, s)' = IndicesIn(n, s)
<1>1. PICK C : C = Callers(s) /\ C = Callers(s)'
  BY SitesStay
<1>2. \A i \in C : sites'[i] = sites[i]
  <2>1. Callers(s) \subseteq 1..Len(sites)
    <3>1. CASE s = 0
      BY <3>1, CallersFacts
    <3>2. CASE s # 0
      <4>1. s \in 1..Len(sites) /\ Callers(s) \subseteq 1..s
        BY <3>2, CallersFacts
      <4>2. Len(sites) \in Nat
        BY SiteFacts
      <4> QED
        BY <4>1, <4>2
    <3> QED
      BY <3>1, <3>2
  <2> QED
    BY <1>1, <2>1 DEF Grown
<1>3. \A n : /\ IndicesAround(n)' = IndicesAround(n) /\ ForceAround(n)' = ForceAround(n)
             /\ (InHead(n) <=> InHead(n)')
  BY SurroundingsStay
<1>4. CalleesAround(s)' = CalleesAround(s)
  BY <1>1, <1>2 DEF CalleesAround
<1>5. \A i \in C : \A q : q = sites[i].node => q = sites'[i].node
  BY <1>2
<1>6. ForcedAbove(s)' = ForcedAbove(s)
  <2>1. ForcedAbove(s) = UNION {ForceAround(sites[i].node) : i \in C}
    BY <1>1 DEF ForcedAbove
  <2>2. ForcedAbove(s)' = UNION {ForceAround(sites[i].node)' : i \in C}
    BY <1>1 DEF ForcedAbove
  <2>3. \A i \in C : ForceAround(sites[i].node)' = ForceAround(sites[i].node)
    BY <1>2, <1>3
  <2> QED
    BY <2>1, <2>2, <2>3
<1> QED
  BY <1>1, <1>2, <1>3, <1>4, <1>6 DEF HeadAbove, IndicesIn

LEMMA TopStays ==
    ASSUME Grown, UNCHANGED <<program, at>>, NEW s \in 0..Len(sites)
    PROVE  TopOf(s)' = TopOf(s)
  BY DEF TopOf, Grown

LEMMA SoundStays ==
    ASSUME StartOK, CallsOK, StartOK', CallsOK', Grown, UNCHANGED <<program, at>>,
           NEW x, Sound(x)
    PROVE  Sound(x)'
<1>1. PICK s \in 0..Len(sites) : s = x.c.site
  BY DEF Sound
<1>2. s \in 0..Len(sites')
  BY DEF Grown
<1>3. CalleesAround(s)' = CalleesAround(s)
  BY AroundSitesStays
<1>4. s # 0 => sites'[s] = sites[s]
  BY DEF Grown
<1>5. s # 0 => Root(sites[Outermost(s)].node)' = program.walks[at].top
  <2>1. ASSUME s # 0 PROVE Root(sites[Outermost(s)].node)' = program.walks[at].top
    <3>1. PICK o : o = Outermost(s) /\ o = Outermost(s)'
      BY <2>1, SitesStay
    <3>2. o \in 1..Len(sites)
      <4>1. Len(sites) \in Nat /\ s \in 1..Len(sites)
        BY <2>1, SiteFacts
      <4>2. Outermost(s) \in Callers(s) /\ Callers(s) \subseteq 1..s
        BY <4>1, CallersFacts
      <4> QED
        BY <3>1, <4>1, <4>2
    <3>3. PICK q : q = sites[o].node /\ q = sites'[o].node
      BY <3>2 DEF Grown
    <3>4. Root(q)' = Root(q)
      BY SourceStays
    <3>5. Root(q) = program.walks[at].top
      BY <1>1, <2>1, <3>1, <3>3 DEF Sound
    <3> QED
      BY <3>1, <3>3, <3>4, <3>5
  <2> QED
    BY <2>1
<1>6. /\ x \in Affairs
      /\ x.c.active = CalleesAround(s)
      /\ x.c.sub = IF s = 0 THEN 0 ELSE sites[s].callee
  BY <1>1 DEF Sound
<1> QED
  BY <1>1, <1>2, <1>3, <1>4, <1>5, <1>6 DEF Sound

LEMMA PlacedStays ==
    ASSUME StartOK, CallsOK, StartOK', CallsOK', Grown, UNCHANGED <<program, at>>,
           at \in 1..Len(program.walks),
           NEW n, NEW x, x.c.site \in 0..Len(sites), Placed(n, x)
    PROVE  Placed(n, x)'
<1>1. PICK s \in 0..Len(sites) : s = x.c.site
  OBVIOUS
<1>2. /\ Root(n)' = Root(n) /\ DelayAround(n)' = DelayAround(n) /\ Around(n)' = Around(n)
      /\ ForceAround(n)' = ForceAround(n) /\ (InHead(n) <=> InHead(n)')
  BY SourceStays, SurroundingsStay
<1>3. /\ TopOf(s)' = TopOf(s) /\ IndicesIn(n, s)' = IndicesIn(n, s)
      /\ ForcedAbove(s)' = ForcedAbove(s) /\ (HeadAbove(s) <=> HeadAbove(s)')
  BY TopStays, AroundSitesStays
<1>4. NestAbove(s)' = NestAbove(s)
  BY SitesStay
<1>5. DelayAbove(at, s)' = DelayAbove(at, s)
  <2>1. PICK w \in 1..Len(program.walks) : w = at /\ w = at'
    OBVIOUS
  <2>2. DelayAbove(w, s)' = DelayAbove(w, s)
    BY SitesStay
  <2> QED
    BY <2>1, <2>2 DEF DelayAbove
<1>6. Tagged(Around(n), s)' = Tagged(Around(n), s)
  BY <1>2 DEF Tagged
<1>7. /\ Root(n) = TopOf(s)
      /\ x.c.delay = IF DelayAround(n) # NoDelay THEN DelayAround(n) ELSE DelayAbove(at, s)
      /\ x.c.indices = IndicesIn(n, s)
      /\ ForceAround(n) # {} => x.c.word \in ForceAround(n)
      /\ ForceAround(n) \cup ForcedAbove(s) = {} => x.c.word = "own"
      /\ InHead(n) => ~x.c.bindable
      /\ ~InHead(n) /\ ~HeadAbove(s) => x.c.bindable
      /\ x.lv = NestAbove(s) \o Tagged(Around(n), s)
  BY <1>1 DEF Placed
<1>8. /\ Root(n)' = TopOf(s)'
      /\ x.c.delay = IF DelayAround(n)' # NoDelay THEN DelayAround(n)' ELSE DelayAbove(at, s)'
      /\ x.c.indices = IndicesIn(n, s)'
      /\ ForceAround(n)' # {} => x.c.word \in ForceAround(n)'
      /\ ForceAround(n)' \cup ForcedAbove(s)' = {} => x.c.word = "own"
      /\ InHead(n)' => ~x.c.bindable
      /\ ~InHead(n)' /\ ~HeadAbove(s)' => x.c.bindable
      /\ x.lv = NestAbove(s)' \o Tagged(Around(n), s)'
  BY <1>2, <1>3, <1>4, <1>5, <1>6, <1>7
<1> QED
  BY <1>1, <1>8 DEF Placed

LEMMA GoodStays ==
    ASSUME StartOK, CallsOK, StartOK', CallsOK', Grown, UNCHANGED <<program, at>>,
           at \in 1..Len(program.walks), NEW it, NEW x, NEW y, Good(it, x, y)
    PROVE  Good(it, x, y)'
<1>1. Sound(x)' /\ Sound(y)'
  BY SoundStays DEF Good
<1>2. x.c.site \in 0..Len(sites)
  BY DEF Good, Sound
<1>3. PICK w : w = Within(it, x)
  OBVIOUS
<1>4. \A n : Of(n)' = Of(n)
  BY SourceStays
<1>5. w = Within(it, x)' /\ \A c : Restored(it, c)' = Restored(it, c)
  BY <1>3, <1>4 DEF Within, Restored
<1>6. it.op \in {"visit", "enter"} => Placed(it.node, x)'
  BY <1>2, PlacedStays DEF Good
<1>7. it.op = "arm" => Sound(w)' /\ w.c.site \in 0..Len(sites)
  BY <1>3, SoundStays DEF Good, Sound
<1>8. PICK k : k = Of(it.node).arms[it.arm] /\ k = Of(it.node)'.arms[it.arm]
  BY <1>4
<1>9. it.op = "arm" => Placed(k, w)'
  BY <1>3, <1>7, <1>8, PlacedStays DEF Good
<1>10. it.op \in {"visit", "enter"} =>
         y = x /\ ~x.new /\ (it.op = "enter" => Of(it.node)'.kind = "call")
  BY <1>4 DEF Good
<1>11. /\ it.op = "arm" => y = [c |-> x.c, lv |-> x.lv, new |-> FALSE]
       /\ it.op = "point" => ~x.new /\ it.arm = 0 /\ y = w
       /\ it.op = "pop" =>
            /\ x.lv # <<>>
            /\ y = [c |-> x.c, lv |-> SubSeq(x.lv, 1, Len(x.lv) - 1), new |-> FALSE]
       /\ it.op \in Undoing =>
            ~x.new /\ y = [c |-> Restored(it, x.c), lv |-> x.lv, new |-> FALSE]
  BY <1>3 DEF Good
<1> QED
  BY <1>1, <1>5, <1>6, <1>7, <1>8, <1>9, <1>10, <1>11 DEF Good

LEMMA StepsStay ==
    ASSUME StartOK, CallsOK, StartOK', CallsOK', Grown, UNCHANGED <<program, at>>,
           at \in 1..Len(program.walks)
    PROVE  Steps \subseteq Steps'
<1>1. ASSUME NEW t \in Steps PROVE t \in Steps'
  <2>1. PICK it \in Item, x \in Affairs, y \in Affairs : t = <<it, x, y>>
    BY DEF Steps
  <2>2. Good(it, x, y)
    BY <2>1, StepIs
  <2>3. Good(it, x, y)'
    BY <2>2, GoodStays
  <2> QED
    BY <2>1, <2>3, StepIsNext
<1> QED
  BY <1>1

LEMMA Associates ==
    ASSUME NEW a \in Seq(Tag), NEW b \in Seq(Tag), NEW c \in Seq(Tag)
    PROVE  (a \o b) \o c = a \o (b \o c)
<1>1. PICK l \in Nat, m \in Nat, n \in Nat : l = Len(a) /\ m = Len(b) /\ n = Len(c)
  OBVIOUS
<1>2. PICK p, q : p = (a \o b) \o c /\ q = a \o (b \o c)
  OBVIOUS
<1>3. PICK u, v : u = a \o b /\ v = b \o c
  OBVIOUS
<1>4. u \in Seq(Tag) /\ v \in Seq(Tag) /\ Len(u) = l + m /\ Len(v) = m + n
  BY <1>1, <1>3
<1>5. p \in Seq(Tag) /\ q \in Seq(Tag) /\ Len(p) = l + m + n /\ Len(q) = l + m + n
  BY <1>1, <1>2, <1>3, <1>4
<1>6. ASSUME NEW i \in 1..l + m + n PROVE p[i] = q[i]
  <2>1. CASE i <= l
    <3>1. u[i] = a[i] /\ p[i] = u[i] /\ q[i] = a[i]
      BY <1>1, <1>2, <1>3, <1>4, <2>1
    <3> QED
      BY <3>1
  <2>2. CASE l < i /\ i <= l + m
    <3>1. p[i] = u[i] /\ u[i] = b[i - l] /\ q[i] = v[i - l] /\ v[i - l] = b[i - l]
      BY <1>1, <1>2, <1>3, <1>4, <2>2
    <3> QED
      BY <3>1
  <2>3. CASE l + m < i
    <3>1. p[i] = c[i - (l + m)] /\ q[i] = v[i - l]
      BY <1>1, <1>2, <1>3, <1>4, <2>3
    <3>2. PICK j \in m + 1..m + n : j = i - l /\ j - m = i - (l + m)
      <4>1. i - l \in m + 1..m + n /\ (i - l) - m = i - (l + m)
        BY <2>3
      <4> QED
        BY <4>1
    <3>3. v[j] = c[j - m]
      BY <1>1, <1>3, <3>2
    <3> QED
      BY <3>1, <3>2, <3>3
  <2> QED
    BY <2>1, <2>2, <2>3
<1>7. p = q
  BY <1>5, <1>6
<1> QED
  BY <1>2, <1>7

LEMMA ItemsAssociate ==
    ASSUME NEW a \in Seq(Item), NEW b \in Seq(Item), NEW c \in Seq(Item)
    PROVE  (a \o b) \o c = a \o (b \o c)
<1>1. PICK l \in Nat, m \in Nat, n \in Nat : l = Len(a) /\ m = Len(b) /\ n = Len(c)
  OBVIOUS
<1>2. PICK p, q : p = (a \o b) \o c /\ q = a \o (b \o c)
  OBVIOUS
<1>3. PICK u, v : u = a \o b /\ v = b \o c
  OBVIOUS
<1>4. u \in Seq(Item) /\ v \in Seq(Item) /\ Len(u) = l + m /\ Len(v) = m + n
  BY <1>1, <1>3
<1>5. p \in Seq(Item) /\ q \in Seq(Item) /\ Len(p) = l + m + n /\ Len(q) = l + m + n
  BY <1>1, <1>2, <1>3, <1>4
<1>6. ASSUME NEW i \in 1..l + m + n PROVE p[i] = q[i]
  <2>1. CASE i <= l
    <3>1. u[i] = a[i] /\ p[i] = u[i] /\ q[i] = a[i]
      BY <1>1, <1>2, <1>3, <1>4, <2>1
    <3> QED
      BY <3>1
  <2>2. CASE l < i /\ i <= l + m
    <3>1. p[i] = u[i] /\ u[i] = b[i - l] /\ q[i] = v[i - l] /\ v[i - l] = b[i - l]
      BY <1>1, <1>2, <1>3, <1>4, <2>2
    <3> QED
      BY <3>1
  <2>3. CASE l + m < i
    <3>1. p[i] = c[i - (l + m)] /\ q[i] = v[i - l]
      BY <1>1, <1>2, <1>3, <1>4, <2>3
    <3>2. PICK j \in m + 1..m + n : j = i - l /\ j - m = i - (l + m)
      <4>1. i - l \in m + 1..m + n /\ (i - l) - m = i - (l + m)
        BY <2>3
      <4> QED
        BY <4>1
    <3>3. v[j] = c[j - m]
      BY <1>1, <1>3, <3>2
    <3> QED
      BY <3>1, <3>2, <3>3
  <2> QED
    BY <2>1, <2>2, <2>3
<1>7. p = q
  BY <1>5, <1>6
<1> QED
  BY <1>2, <1>7

LEMMA TaggedJoin ==
    ASSUME NEW a \in Seq(Node \X Nat), NEW b \in Seq(Node \X Nat), NEW s \in Nat
    PROVE  Tagged(a \o b, s) = Tagged(a, s) \o Tagged(b, s)
<1>1. PICK m \in Nat, n \in Nat : m = Len(a) /\ n = Len(b)
  OBVIOUS
<1>2. PICK c : c = a \o b
  OBVIOUS
<1>3. c \in Seq(Node \X Nat) /\ Len(c) = m + n
  BY <1>1, <1>2
<1>4. PICK p, q, r : p = Tagged(a, s) /\ q = Tagged(b, s) /\ r = Tagged(c, s)
  OBVIOUS
<1>5. /\ p \in Seq(Tag) /\ q \in Seq(Tag) /\ r \in Seq(Tag)
      /\ Len(p) = m /\ Len(q) = n /\ Len(r) = m + n
  BY <1>1, <1>3, <1>4, TaggedTyped
<1>6. /\ \A i \in 1..m : p[i] = <<a[i][1], a[i][2], s>>
      /\ \A i \in 1..n : q[i] = <<b[i][1], b[i][2], s>>
      /\ \A i \in 1..m + n : r[i] = <<c[i][1], c[i][2], s>>
  BY <1>1, <1>3, <1>4 DEF Tagged
<1>7. PICK t : t = p \o q
  OBVIOUS
<1>8. t \in Seq(Tag) /\ Len(t) = m + n
  <2>1. t \in Seq(Tag) /\ Len(t) = Len(p) + Len(q)
    BY <1>5, <1>7, Joined
  <2> QED
    BY <1>5, <2>1
<1>9. ASSUME NEW i \in 1..m + n PROVE t[i] = r[i]
  <2>1. CASE i <= m
    <3>1. t[i] = p[i] /\ c[i] = a[i]
      BY <1>1, <1>2, <1>5, <1>7, <2>1
    <3>2. i \in 1..m
      BY <2>1
    <3> QED
      BY <1>6, <3>1, <3>2
  <2>2. CASE ~(i <= m)
    <3>1. PICK j \in 1..n : j = i - m
      <4>1. i - m \in 1..n
        BY <2>2
      <4> QED
        BY <4>1
    <3>2. t[i] = q[j] /\ c[i] = b[j]
      BY <1>1, <1>2, <1>5, <1>7, <2>2, <3>1
    <3> QED
      BY <1>6, <3>2
  <2> QED
    BY <2>1, <2>2
<1>10. t = r
  BY <1>5, <1>8, <1>9
<1> QED
  BY <1>2, <1>4, <1>7, <1>10

LEMMA NestFurther ==
    ASSUME StartOK, CallsOK, NEW s \in 0..Len(sites), NEW n \in Node, NEW k, NEW lv,
           lv = NestAbove(s) \o Tagged(Around(n), s)
    PROVE  /\ lv \in Seq(Tag)
           /\ lv \o Tagged(LevelsAt(n, k), s)
                = NestAbove(s) \o Tagged(Around(n) \o LevelsAt(n, k), s)
<1>1. program \in Program /\ s \in Nat
  BY SiteFacts DEF StartOK
<1>2. Around(n) \in Seq(Node \X Nat) /\ LevelsAt(n, k) \in Seq(Node \X Nat)
  BY <1>1, AroundUnfolds, LevelsTyped
<1>3. PICK a, b, c : /\ a = NestAbove(s) /\ b = Tagged(Around(n), s)
                     /\ c = Tagged(LevelsAt(n, k), s)
  OBVIOUS
<1>4. a \in Seq(Tag)
  BY <1>3, SitesAddUp DEF SiteSums
<1>5. b \in Seq(Tag) /\ c \in Seq(Tag)
  BY <1>1, <1>2, <1>3, TaggedTyped
<1>6. Tagged(Around(n) \o LevelsAt(n, k), s) = b \o c
  BY <1>1, <1>2, <1>3, TaggedJoin
<1>7. (a \o b) \o c = a \o (b \o c)
  BY <1>4, <1>5, Associates
<1>8. a \o b \in Seq(Tag)
  BY <1>4, <1>5
<1> QED
  BY <1>3, <1>6, <1>7, <1>8

\* A part stands where its whole does, but for what the whole sets.
LEMMA PartPlacedIn ==
    ASSUME StartOK, CallsOK, NEW n \in Node, NEW i \in DOMAIN Parts(n), NEW k,
           k = Parts(n)[i], NEW x, Sound(x), Placed(n, x), NEW y,
           y.c.site = x.c.site,
           y.c.delay = IF Of(n).kind = "timed" /\ Of(n).delay # NoDelay
                       THEN Of(n).delay ELSE x.c.delay,
           y.c.indices = x.c.indices
                \cup (IF Of(n).kind \in {"for", "foreach"} THEN Of(n).vars ELSE {}),
           y.c.word = IF Of(n).kind = "force" THEN Of(n).word ELSE x.c.word,
           y.c.bindable <=> x.c.bindable /\ k \notin Elements(Of(n).head),
           y.lv = x.lv \o Tagged(LevelsAt(n, k), x.c.site)
    PROVE  Placed(k, y)
<1>1. program \in Program
  BY DEF StartOK
<1>2. PICK s \in 0..Len(sites) : s = x.c.site /\ s = y.c.site
  BY DEF Sound
<1>3. /\ Root(n) = TopOf(s)
      /\ x.c.delay = IF DelayAround(n) # NoDelay THEN DelayAround(n) ELSE DelayAbove(at, s)
      /\ x.c.indices = IndicesIn(n, s)
      /\ ForceAround(n) # {} => x.c.word \in ForceAround(n)
      /\ ForceAround(n) \cup ForcedAbove(s) = {} => x.c.word = "own"
      /\ InHead(n) => ~x.c.bindable
      /\ ~InHead(n) /\ ~HeadAbove(s) => x.c.bindable
      /\ x.lv = NestAbove(s) \o Tagged(Around(n), s)
  BY <1>2 DEF Placed
<1>4. /\ k \in Node /\ Root(k) = Root(n)
      /\ DelayAround(k) = (IF Of(n).kind = "timed" /\ Of(n).delay # NoDelay
                           THEN Of(n).delay ELSE DelayAround(n))
      /\ IndicesAround(k) = IndicesAround(n)
           \cup (IF Of(n).kind \in {"for", "foreach"} THEN Of(n).vars ELSE {})
      /\ ForceAround(k) = ForceAround(n)
           \cup (IF Of(n).kind = "force" THEN {Of(n).word} ELSE {})
      /\ Around(k) = Around(n) \o LevelsAt(n, k)
      /\ InHead(k) <=> InHead(n) \/ k \in Elements(Of(n).head)
  BY <1>1, AroundPart
<1>5. Root(k) = TopOf(s)
  BY <1>3, <1>4
<1>6. y.c.delay = IF DelayAround(k) # NoDelay THEN DelayAround(k) ELSE DelayAbove(at, s)
  BY <1>3, <1>4
<1>7. y.c.indices = IndicesIn(k, s)
  <2>1. PICK U : U = UNION {IndicesAround(sites[j].node) : j \in Callers(s)}
    OBVIOUS
  <2>2. IndicesIn(k, s) = IndicesAround(k) \cup U /\ IndicesIn(n, s) = IndicesAround(n) \cup U
    BY <2>1 DEF IndicesIn
  <2> QED
    BY <1>3, <1>4, <2>2
<1>8. /\ ForceAround(k) # {} => y.c.word \in ForceAround(k)
      /\ ForceAround(k) \cup ForcedAbove(s) = {} => y.c.word = "own"
  BY <1>3, <1>4
<1>9. /\ InHead(k) => ~y.c.bindable
      /\ ~InHead(k) /\ ~HeadAbove(s) => y.c.bindable
  BY <1>3, <1>4
<1>10. y.lv = NestAbove(s) \o Tagged(Around(k), s)
  <2>1. x.lv \o Tagged(LevelsAt(n, k), s)
          = NestAbove(s) \o Tagged(Around(n) \o LevelsAt(n, k), s)
    BY <1>3, NestFurther
  <2> QED
    BY <1>2, <1>4, <2>1
<1> QED
  BY <1>2, <1>5, <1>6, <1>7, <1>8, <1>9, <1>10 DEF Placed

LEMMA ContextTyped ==
    ASSUME NEW x \in Affairs
    PROVE  /\ x.c \in Context /\ x.lv \in Seq(Tag) /\ x.new \in BOOLEAN
           /\ x.c.site \in Nat /\ x.c.bindable \in BOOLEAN /\ x.c.indices \in SUBSET Var
           /\ x = [c |-> x.c, lv |-> x.lv, new |-> x.new]
  BY DEF Affairs, Context

LEMMA SoundVaried ==
    ASSUME NEW x, Sound(x), NEW y \in Affairs, y.c.site = x.c.site,
           y.c.active = x.c.active, y.c.sub = x.c.sub
    PROVE  Sound(y)
  BY DEF Sound

LEMMA DoItem ==
    ASSUME NEW n \in Node, NEW op \in {"visit", "point", "pop", "enter"}
    PROVE  /\ Do(op, n) \in Item /\ Do(op, n).op = op /\ Do(op, n).node = n
           /\ Do(op, n).arm = 0
  BY OuterIsContext DEF Do, Item

LEMMA UndoItem ==
    ASSUME CtxOK, NEW n \in Node, NEW op \in Undoing
    PROVE  /\ Undo(op, n) \in Item /\ Undo(op, n).op = op /\ Undo(op, n).node = n
           /\ Undo(op, n).ctx = ctx
  BY DEF Undo, Item, CtxOK, Undoing

LEMMA VisitStep ==
    ASSUME NEW n \in Node, NEW x, Sound(x), ~x.new, Placed(n, x),
           NEW op \in {"visit", "enter"}, op = "enter" => Of(n).kind = "call"
    PROVE  <<Do(op, n), x, x>> \in Steps
<1>1. PICK it \in Item : it = Do(op, n) /\ it.op = op /\ it.node = n
  BY DoItem
<1>2. Good(it, x, x)
  BY <1>1 DEF Good, Undoing
<1> QED
  BY <1>1, <1>2, StepIs

LEMMA VisitsTyped ==
    ASSUME NEW ns \in Seq(Node)
    PROVE  /\ Visits(ns) \in Seq(Item) /\ Len(Visits(ns)) = Len(ns)
           /\ \A j \in 1..Len(ns) : Visits(ns)[j] = Do("visit", ns[j])
<1>1. PICK m \in Nat : m = Len(ns)
  OBVIOUS
<1>2. PICK v : v = Visits(ns)
  OBVIOUS
<1>3. v = [j \in 1..m |-> v[j]] /\ \A j \in 1..m : v[j] = Do("visit", ns[j])
  BY <1>1, <1>2 DEF Visits
<1>4. \A j \in 1..m : v[j] \in Item
  BY <1>1, <1>3, DoItem
<1>5. v \in Seq(Item) /\ Len(v) = m
  BY <1>3, <1>4, Listed
<1> QED
  BY <1>1, <1>2, <1>3, <1>5

LEMMA VisitsLinked ==
    ASSUME NEW ns \in Seq(Node), NEW x, Sound(x), ~x.new,
           \A j \in 1..Len(ns) : Placed(ns[j], x)
    PROVE  Linked(Steps, Visits(ns), x, x)
<1>1. /\ Visits(ns) \in Seq(Item) /\ Len(Visits(ns)) = Len(ns)
      /\ \A j \in 1..Len(ns) : Visits(ns)[j] = Do("visit", ns[j])
  BY VisitsTyped
<1>2. ASSUME NEW j \in 1..Len(ns) PROVE <<Visits(ns)[j], x, x>> \in Steps
  <2>1. ns[j] \in Node
    OBVIOUS
  <2>2. <<Do("visit", ns[j]), x, x>> \in Steps
    BY <2>1, VisitStep
  <2> QED
    BY <1>1, <2>2
<1> QED
  BY <1>1, <1>2, LinkedSame

LEMMA NoTags == ASSUME NEW lv \in Seq(Tag), NEW s PROVE lv \o Tagged(<<>>, s) = lv
<1>1. Tagged(<<>>, s) = <<>>
  BY DEF Tagged
<1> QED
  BY <1>1

\* The parts visitDefault visits.
LEMMA KidsLinked ==
    ASSUME StartOK, CallsOK, NEW n \in Node, Of(n).kind \notin {"for", "foreach"},
           NEW x, Sound(x), Placed(n, x), ~x.new, NEW y, Sound(y), ~y.new,
           y.c.site = x.c.site,
           y.c.delay = IF Of(n).kind = "timed" /\ Of(n).delay # NoDelay
                       THEN Of(n).delay ELSE x.c.delay,
           y.c.indices = x.c.indices,
           y.c.word = IF Of(n).kind = "force" THEN Of(n).word ELSE x.c.word,
           y.c.bindable = x.c.bindable, y.lv = x.lv
    PROVE  /\ Linked(Steps, Visits(Of(n).kids), y, y)
           /\ Visits(Of(n).kids) \in Seq(Item)
<1>1. program \in Program /\ Of(n).kids \in Seq(Node)
  BY OfProgram DEF StartOK
<1>2. x \in Affairs /\ y \in Affairs
  BY DEF Sound
<1>3. ASSUME NEW j \in 1..Len(Of(n).kids) PROVE Placed(Of(n).kids[j], y)
  <2>1. PICK k : k = Of(n).kids[j]
    OBVIOUS
  <2>2. /\ \E i \in DOMAIN Parts(n) : Parts(n)[i] = k
        /\ k \notin Elements(Of(n).head) /\ k \notin Elements(Of(n).arms)
    BY <1>1, <2>1, KidPlaced
  <2>3. PICK i \in DOMAIN Parts(n) : k = Parts(n)[i]
    BY <2>2
  <2>4. LevelsAt(n, k) = <<>>
    BY <2>2 DEF LevelsAt
  <2>5. y.lv = x.lv \o Tagged(LevelsAt(n, k), x.c.site)
    BY <1>2, <2>4, NoTags, ContextTyped
  <2>6. y.c.bindable <=> x.c.bindable /\ k \notin Elements(Of(n).head)
    BY <2>2
  <2>7. y.c.indices = x.c.indices
                \cup (IF Of(n).kind \in {"for", "foreach"} THEN Of(n).vars ELSE {})
    OBVIOUS
  <2>8. Placed(k, y)
    BY <2>3, <2>5, <2>6, <2>7, PartPlacedIn
  <2> QED
    BY <2>1, <2>8
<1> QED
  BY <1>1, <1>3, VisitsLinked, VisitsTyped

LEMMA HeadPlacedIn ==
    ASSUME StartOK, CallsOK, NEW n \in Node, Of(n).kind \in {"if", "case", "loop", "for"},
           NEW x, Sound(x), Placed(n, x), NEW y,
           y.c.site = x.c.site, y.c.delay = x.c.delay, y.c.word = x.c.word,
           y.c.indices = x.c.indices
                \cup (IF Of(n).kind \in {"for", "foreach"} THEN Of(n).vars ELSE {}),
           y.c.bindable = FALSE, y.lv = x.lv, NEW j \in 1..Len(Of(n).head)
    PROVE  Placed(Of(n).head[j], y)
<1>1. program \in Program /\ x \in Affairs
  BY DEF StartOK, Sound
<1>2. PICK k : k = Of(n).head[j]
  OBVIOUS
<1>3. /\ \E i \in DOMAIN Parts(n) : Parts(n)[i] = k
      /\ k \in Elements(Of(n).head) /\ k \notin Elements(Of(n).arms)
  BY <1>1, <1>2, HeadPlaced
<1>4. PICK i \in DOMAIN Parts(n) : k = Parts(n)[i]
  BY <1>3
<1>5. LevelsAt(n, k) = <<>>
  BY <1>3 DEF LevelsAt
<1>6. y.lv = x.lv \o Tagged(LevelsAt(n, k), x.c.site)
  BY <1>1, <1>5, NoTags, ContextTyped
<1>7. y.c.bindable <=> x.c.bindable /\ k \notin Elements(Of(n).head)
  BY <1>3
<1>8. /\ y.c.delay = (IF Of(n).kind = "timed" /\ Of(n).delay # NoDelay
                      THEN Of(n).delay ELSE x.c.delay)
      /\ y.c.word = (IF Of(n).kind = "force" THEN Of(n).word ELSE x.c.word)
  OBVIOUS
<1>9. Placed(k, y)
  BY <1>4, <1>6, <1>7, <1>8, PartPlacedIn
<1> QED
  BY <1>2, <1>9

\* The control expressions, and what ends them.
LEMMA HeadLinked ==
    ASSUME StartOK, CallsOK, CtxOK, NEW n \in Node,
           Of(n).kind \in {"if", "case", "loop", "for"},
           NEW x, Sound(x), Placed(n, x), ~x.new, x.c = ctx,
           NEW z, Sound(z), ~z.new, z.c = [x.c EXCEPT !.indices =
               @ \cup (IF Of(n).kind \in {"for", "foreach"} THEN Of(n).vars ELSE {})],
           z.lv = x.lv,
           NEW y, Sound(y), ~y.new, y.lv = x.lv, y.c = [z.c EXCEPT !.bindable = FALSE]
    PROVE  Linked(Steps, GuardedHead(n), y, z) /\ GuardedHead(n) \in Seq(Item)
<1>1. program \in Program /\ Of(n).head \in Seq(Node)
  BY OfProgram DEF StartOK
<1>2. x \in Affairs /\ y \in Affairs /\ z \in Affairs /\ x.c \in Context
  BY ContextTyped DEF Sound
<1>3. /\ z.c.site = x.c.site /\ z.c.delay = x.c.delay /\ z.c.word = x.c.word
      /\ z.c.bindable = x.c.bindable
      /\ z.c.indices = x.c.indices
           \cup (IF Of(n).kind \in {"for", "foreach"} THEN Of(n).vars ELSE {})
  BY <1>2 DEF Context
<1>4. /\ y.c.site = x.c.site /\ y.c.delay = x.c.delay /\ y.c.word = x.c.word
      /\ y.c.bindable = FALSE /\ y.c.indices = z.c.indices
  <2>1. z.c \in Context
    BY <1>2, ContextTyped
  <2> QED
    BY <1>3, <2>1 DEF Context
<1>5. ASSUME NEW j \in 1..Len(Of(n).head) PROVE Placed(Of(n).head[j], y)
  <2>1. y.c.indices = x.c.indices
           \cup (IF Of(n).kind \in {"for", "foreach"} THEN Of(n).vars ELSE {})
    BY <1>3, <1>4
  <2>2. y.c.site = x.c.site /\ y.c.delay = x.c.delay /\ y.c.word = x.c.word /\ y.lv = x.lv
        /\ y.c.bindable = FALSE
    BY <1>4
  <2> QED
    BY <2>1, <2>2, HeadPlacedIn
<1>6. PICK v \in Seq(Item) : v = Visits(Of(n).head)
  BY <1>1, VisitsTyped
<1>7. Linked(Steps, v, y, y)
  BY <1>1, <1>5, <1>6, VisitsLinked
<1>8. PICK u \in Item : u = Undo("unguard", n) /\ u.op = "unguard" /\ u.node = n /\ u.ctx = ctx
  BY UndoItem DEF Undoing
<1>9. Good(u, y, z)
  <2>1. Restored(u, y.c) = [y.c EXCEPT !.bindable = x.c.bindable]
    BY <1>8 DEF Restored
  <2>2. z.c = [y.c EXCEPT !.bindable = x.c.bindable]
    <3>1. z.c \in Context
      BY <1>2, ContextTyped
    <3> QED
      BY <1>3, <3>1 DEF Context
  <2>3. z = [c |-> Restored(u, y.c), lv |-> y.lv, new |-> FALSE]
    BY <1>2, <2>1, <2>2, ContextTyped
  <2> QED
    BY <1>8, <2>3 DEF Good
<1>10. Linked(Steps, <<u>>, y, z)
  BY <1>8, <1>9, StepIs, LinkedOne
<1>11. <<u>> \in Seq(Item)
  OBVIOUS
<1>12. Linked(Steps, v \o <<u>>, y, z) /\ v \o <<u>> \in Seq(Item)
  <2>1. Linked(Steps, v \o <<u>>, y, z)
    BY <1>7, <1>10, <1>11, LinkedJoin
  <2>2. v \o <<u>> \in Seq(Item)
    BY <1>11
  <2> QED
    BY <2>1, <2>2
<1> QED
  BY <1>6, <1>8, <1>12 DEF GuardedHead

LEMMA LinkedAlmost ==
    ASSUME NEW R, NEW x, NEW y, NEW items \in Seq(Item),
           \A i \in 1..Len(items) : <<items[i], x, y>> \in R /\ <<items[i], y, y>> \in R
    PROVE  Linked(R, items, x, x) \/ Linked(R, items, x, y)
<1>1. PICK n \in Nat : n = Len(items)
  OBVIOUS
<1>2. PICK b : b = [i \in 1..n + 1 |-> IF i = 1 THEN x ELSE y]
  OBVIOUS
<1>3. /\ b[1] = x /\ b[n + 1] \in {x, y}
      /\ \A i \in 1..n : (b[i] = x \/ b[i] = y) /\ b[i + 1] = y
  BY <1>2
<1>4. \A i \in 1..n : <<items[i], b[i], b[i + 1]>> \in R
  BY <1>1, <1>3
<1>5. Linked(R, items, x, b[n + 1])
  BY <1>1, <1>3, <1>4 DEF Linked
<1> QED
  BY <1>3, <1>5

LEMMA ArmItems ==
    ASSUME StartOK, NEW n \in Node
    PROVE  /\ Arms(n) \in Seq(Item) /\ Len(Arms(n)) = Len(Of(n).arms)
           /\ \A j \in 1..Len(Of(n).arms) :
                /\ Arms(n)[j] \in Item /\ Arms(n)[j].op = "arm"
                /\ Arms(n)[j].node = n /\ Arms(n)[j].arm = j
<1>1. PICK m \in Nat : m = Len(Of(n).arms)
  <2>1. Of(n).arms \in Seq(Node)
    BY OfProgram DEF StartOK
  <2> QED
    BY <2>1
<1>2. PICK v : v = Arms(n)
  OBVIOUS
<1>3. v = [j \in 1..m |-> [Do("arm", n) EXCEPT !.arm = j]]
  BY <1>1, <1>2 DEF Arms
<1>4. ASSUME NEW j \in 1..m
      PROVE  /\ v[j] \in Item /\ v[j].op = "arm" /\ v[j].node = n /\ v[j].arm = j
  <2>1. v[j] = [op |-> "arm", node |-> n, arm |-> j, ctx |-> Outer]
    BY <1>3 DEF Do
  <2> QED
    BY <2>1, OuterIsContext DEF Item
<1>5. v = [j \in 1..m |-> v[j]]
  BY <1>3
<1>6. v \in Seq(Item) /\ Len(v) = m
  BY <1>4, <1>5, Listed
<1> QED
  BY <1>1, <1>2, <1>4, <1>6

LEMMA TwoTags ==
    ASSUME NEW lv \in Seq(Tag), NEW a \in Tag, NEW b \in Tag
    PROVE  /\ lv \o <<a>> = Append(lv, a) /\ lv \o <<a, b>> = Append(Append(lv, a), b)
           /\ Append(lv, a) \in Seq(Tag)
<1>1. lv \o <<a>> = Append(lv, a) /\ Append(lv, a) \in Seq(Tag)
  OBVIOUS
<1>2. PICK p, q : p = lv \o <<a, b>> /\ q = Append(Append(lv, a), b)
  OBVIOUS
<1>3. PICK m \in Nat : m = Len(lv)
  OBVIOUS
<1>4. <<a, b>> \in Seq(Tag) /\ Len(<<a, b>>) = 2 /\ <<a, b>>[1] = a /\ <<a, b>>[2] = b
  OBVIOUS
<1>5. p \in Seq(Tag) /\ q \in Seq(Tag) /\ Len(p) = m + 2 /\ Len(q) = m + 2
  BY <1>2, <1>3, <1>4
<1>6. /\ \A i \in 1..m : p[i] = lv[i] /\ q[i] = lv[i]
      /\ p[m + 1] = a /\ p[m + 2] = b /\ q[m + 1] = a /\ q[m + 2] = b
  <2>1. \A i \in 1..m : p[i] = lv[i]
    BY <1>2, <1>3, <1>4
  <2>2. p[m + 1] = a /\ p[m + 2] = b
    BY <1>2, <1>3, <1>4
  <2>3. \A i \in 1..m : q[i] = lv[i]
    BY <1>2, <1>3
  <2>4. q[m + 1] = a /\ q[m + 2] = b
    BY <1>2, <1>3
  <2> QED
    BY <2>1, <2>2, <2>3, <2>4
<1>7. \A i \in 1..m + 2 : i \in 1..m \/ i = m + 1 \/ i = m + 2
  OBVIOUS
<1>8. p = q
  BY <1>5, <1>6, <1>7
<1> QED
  BY <1>1, <1>2, <1>8

LEMMA TagIn == ASSUME NEW n \in Node, NEW k \in Nat, NEW s \in Nat PROVE <<n, k, s>> \in Tag
  BY DEF Tag

\* The gated parts.
Controls == {"if", "case", "loop", "for", "foreach"}

LEMMA ArmPlacedIn ==
    ASSUME StartOK, CallsOK, NEW n \in Node, Of(n).kind \in Controls,
           NEW x, Sound(x), Placed(n, x), NEW j \in 1..Len(Of(n).arms), NEW lv, NEW y,
           lv = (IF Of(n).kind = "case" THEN Append(x.lv, <<n, 0, x.c.site>>) ELSE x.lv),
           y.c.site = x.c.site, y.c.delay = x.c.delay, y.c.word = x.c.word,
           y.c.indices = x.c.indices
                \cup (IF Of(n).kind \in {"for", "foreach"} THEN Of(n).vars ELSE {}),
           y.c.bindable = x.c.bindable, y.lv = Append(lv, <<n, j, x.c.site>>)
    PROVE  Placed(Of(n).arms[j], y)
<1>1. program \in Program /\ x.lv \in Seq(Tag) /\ x.c.site \in Nat /\ j \in Nat
  BY OfProgram, ContextTyped DEF StartOK, Sound
<1>2. PICK k : k = Of(n).arms[j]
  OBVIOUS
<1>3. /\ \E i \in DOMAIN Parts(n) : Parts(n)[i] = k
      /\ k \notin Elements(Of(n).head)
      /\ LevelsAt(n, k) = IF Of(n).kind = "case" THEN << <<n, 0>>, <<n, j>> >>
                          ELSE << <<n, j>> >>
  BY <1>1, <1>2, ArmPlaced
<1>4. PICK i \in DOMAIN Parts(n) : k = Parts(n)[i]
  BY <1>3
<1>5. PICK s \in Nat : s = x.c.site
  BY <1>1
<1>6. Tagged(LevelsAt(n, k), s) = IF Of(n).kind = "case" THEN << <<n, 0, s>>, <<n, j, s>> >>
                                  ELSE << <<n, j, s>> >>
  <2>1. Tagged(<< <<n, j>> >>, s) = << <<n, j, s>> >>
    BY DEF Tagged
  <2>2. Tagged(<< <<n, 0>>, <<n, j>> >>, s) = << <<n, 0, s>>, <<n, j, s>> >>
    <3>1. PICK l : l = << <<n, 0>>, <<n, j>> >>
      OBVIOUS
    <3>2. Len(l) = 2 /\ l[1] = <<n, 0>> /\ l[2] = <<n, j>>
      BY <3>1
    <3>3. PICK t, u : t = Tagged(l, s) /\ u = << <<n, 0, s>>, <<n, j, s>> >>
      OBVIOUS
    <3>4. t[1] = <<n, 0, s>> /\ t[2] = <<n, j, s>>
      BY <3>2, <3>3 DEF Tagged
    <3>5. l \in Seq(Node \X Nat)
      <4>1. <<n, 0>> \in Node \X Nat /\ <<n, j>> \in Node \X Nat
        BY <1>1
      <4> QED
        BY <3>1, <4>1
    <3>6. t \in Seq(Tag) /\ Len(t) = 2
      BY <3>2, <3>3, <3>5, TaggedTyped
    <3>7. u \in Seq(Tag) /\ Len(u) = 2 /\ u[1] = <<n, 0, s>> /\ u[2] = <<n, j, s>>
      <4>1. <<n, 0, s>> \in Tag /\ <<n, j, s>> \in Tag
        BY <1>1, TagIn
      <4> QED
        BY <3>3, <4>1
    <3>8. \A q \in 1..2 : q = 1 \/ q = 2
      OBVIOUS
    <3>9. t = u
      <4>1. \A q \in 1..2 : t[q] = u[q]
        BY <3>4, <3>7, <3>8
      <4> QED
        BY <3>6, <3>7, <4>1
    <3> QED
      BY <3>1, <3>3, <3>9
  <2> QED
    BY <1>3, <2>1, <2>2
<1>7. y.lv = x.lv \o Tagged(LevelsAt(n, k), x.c.site)
  <2>1. <<n, 0, s>> \in Tag /\ <<n, j, s>> \in Tag
    BY <1>1, TagIn
  <2>2. CASE Of(n).kind = "case"
    <3>1. PICK a, b, l : a = <<n, 0, s>> /\ b = <<n, j, s>> /\ l = x.lv
      OBVIOUS
    <3>2. a \in Tag /\ b \in Tag /\ l \in Seq(Tag)
      BY <1>1, <2>1, <3>1
    <3>3. l \o <<a, b>> = Append(Append(l, a), b)
      BY <3>2, TwoTags
    <3>4. Tagged(LevelsAt(n, k), x.c.site) = <<a, b>>
      BY <1>5, <1>6, <2>2, <3>1
    <3>5. y.lv = Append(Append(l, a), b)
      BY <1>5, <2>2, <3>1
    <3> QED
      BY <3>1, <3>3, <3>4, <3>5
  <2>3. CASE Of(n).kind # "case"
    BY <1>1, <1>5, <1>6, <2>1, <2>3, TwoTags
  <2> QED
    BY <2>2, <2>3
<1>8. y.c.bindable <=> x.c.bindable /\ k \notin Elements(Of(n).head)
  BY <1>3
<1>9. /\ y.c.delay = (IF Of(n).kind = "timed" /\ Of(n).delay # NoDelay
                      THEN Of(n).delay ELSE x.c.delay)
      /\ y.c.word = (IF Of(n).kind = "force" THEN Of(n).word ELSE x.c.word)
  BY DEF Controls
<1>10. Placed(k, y)
  BY <1>4, <1>7, <1>8, <1>9, PartPlacedIn
<1> QED
  BY <1>2, <1>10

LEMMA ArmsLinked ==
    ASSUME StartOK, CallsOK, NEW n \in Node, Of(n).kind \in Controls,
           NEW x, Sound(x), Placed(n, x), NEW z, Sound(z),
           z.c.site = x.c.site, z.c.delay = x.c.delay, z.c.word = x.c.word,
           z.c.indices = x.c.indices
                \cup (IF Of(n).kind \in {"for", "foreach"} THEN Of(n).vars ELSE {}),
           z.c.bindable = x.c.bindable,
           z.lv = (IF Of(n).kind = "case" THEN Append(x.lv, <<n, 0, x.c.site>>) ELSE x.lv),
           NEW y, y = [c |-> z.c, lv |-> z.lv, new |-> FALSE]
    PROVE  Linked(Steps, Arms(n), z, z) \/ Linked(Steps, Arms(n), z, y)
<1>1. /\ z \in Affairs /\ z.c \in Context /\ z.lv \in Seq(Tag)
      /\ x \in Affairs /\ x.c.site \in Nat
  BY ContextTyped DEF Sound
<1>2. y \in Affairs /\ y.c = z.c /\ y.lv = z.lv /\ ~y.new
  BY <1>1 DEF Affairs
<1>3. Sound(y)
  BY <1>2, SoundVaried
<1>4. ASSUME NEW j \in 1..Len(Of(n).arms), NEW v \in {z, y}
      PROVE  <<Arms(n)[j], v, y>> \in Steps
  <2>1. PICK it \in Item : it = Arms(n)[j] /\ it.op = "arm" /\ it.node = n /\ it.arm = j
    BY ArmItems
  <2>2. v.c = z.c /\ v.lv = z.lv /\ Sound(v) /\ j \in Nat
    <3>1. Of(n).arms \in Seq(Node)
      BY OfProgram DEF StartOK
    <3>2. j \in Nat
      BY <3>1
    <3> QED
      BY <1>2, <1>3, <3>2
  <2>3. PICK u : u = Within(it, v)
    OBVIOUS
  <2>4. u = [c |-> z.c, lv |-> Append(z.lv, <<n, j, x.c.site>>), new |-> FALSE]
    BY <2>1, <2>2, <2>3 DEF Within
  <2>5. Append(z.lv, <<n, j, x.c.site>>) \in Seq(Tag)
    BY <1>1, <2>2, TagIn, TwoTags
  <2>6. u \in Affairs /\ u.c = z.c /\ u.lv = Append(z.lv, <<n, j, x.c.site>>)
    BY <1>1, <2>4, <2>5 DEF Affairs
  <2>7. Sound(u)
    BY <2>6, SoundVaried
  <2>8. Placed(Of(n).arms[j], u)
    <3>1. /\ u.c.site = x.c.site /\ u.c.delay = x.c.delay /\ u.c.word = x.c.word
          /\ u.c.indices = x.c.indices
                \cup (IF Of(n).kind \in {"for", "foreach"} THEN Of(n).vars ELSE {})
          /\ u.c.bindable = x.c.bindable
      BY <2>6
    <3>2. PICK lv : lv = z.lv
      OBVIOUS
    <3>3. lv = (IF Of(n).kind = "case" THEN Append(x.lv, <<n, 0, x.c.site>>) ELSE x.lv)
          /\ u.lv = Append(lv, <<n, j, x.c.site>>)
      BY <2>6, <3>2
    <3> QED
      BY <3>1, <3>3, ArmPlacedIn
  <2>9. Good(it, v, y)
    BY <1>2, <1>3, <2>1, <2>2, <2>3, <2>7, <2>8 DEF Good, Undoing
  <2> QED
    BY <2>1, <2>9, StepIs
<1>5. PICK a \in Seq(Item) : a = Arms(n) /\ Len(a) = Len(Of(n).arms)
  BY ArmItems
<1>6. \A j \in 1..Len(a) : <<a[j], z, y>> \in Steps /\ <<a[j], y, y>> \in Steps
  BY <1>4, <1>5
<1>7. Linked(Steps, a, z, z) \/ Linked(Steps, a, z, y)
  BY <1>6, LinkedAlmost
<1> QED
  BY <1>5, <1>7

With(c, lv, new) == [c |-> c, lv |-> lv, new |-> new]

LEMMA WithTyped ==
    ASSUME NEW c \in Context, NEW lv \in Seq(Tag), NEW new \in BOOLEAN
    PROVE  /\ With(c, lv, new) \in Affairs /\ With(c, lv, new).c = c
           /\ With(c, lv, new).lv = lv /\ With(c, lv, new).new = new
  BY DEF With, Affairs

LEMMA SameSeq ==
    ASSUME NEW S, NEW s \in Seq(S), NEW t \in Seq(S), Len(s) = Len(t),
           \A i \in 1..Len(s) : s[i] = t[i]
    PROVE  s = t
  OBVIOUS

LEMMA SameIndices ==
    ASSUME NEW c \in Context
    PROVE  [c EXCEPT !.indices = @ \cup {}] = c
<1>1. PICK d : d = [c EXCEPT !.indices = @ \cup {}]
  OBVIOUS
<1>2. c.indices \cup {} = c.indices
  OBVIOUS
<1>3. d = [c EXCEPT !.indices = c.indices]
  BY <1>1, <1>2
<1>4. d = c
  BY <1>3 DEF Context
<1> QED
  BY <1>1, <1>4

LEMMA BranchLinked ==
    ASSUME StartOK, CallsOK, CtxOK, NEW n \in Node, Of(n).kind \in {"if", "loop"},
           NEW x, Sound(x), Placed(n, x), ~x.new, x.c = ctx,
           NEW y, y = With([ctx EXCEPT !.bindable = FALSE], x.lv, FALSE)
    PROVE  /\ Linked(Steps, GuardedHead(n) \o Arms(n), y, x)
           /\ GuardedHead(n) \o Arms(n) \in Seq(Item)
<1>1. x \in Affairs /\ x.c \in Context /\ x.lv \in Seq(Tag)
  BY ContextTyped DEF Sound
<1>2. PICK d \in Context : /\ d = [ctx EXCEPT !.bindable = FALSE] /\ d.site = x.c.site
                           /\ d.active = x.c.active /\ d.sub = x.c.sub
  <2>1. PICK d : d = [ctx EXCEPT !.bindable = FALSE]
    OBVIOUS
  <2>2. d \in Context /\ d.site = ctx.site /\ d.active = ctx.active /\ d.sub = ctx.sub
    BY <1>1, <2>1 DEF Context
  <2> QED
    BY <2>1, <2>2
<1>3. y \in Affairs /\ y.c = d /\ y.lv = x.lv /\ ~y.new
  BY <1>1, <1>2, WithTyped
<1>4. Sound(y)
  BY <1>2, <1>3, SoundVaried
<1>5. x.c = [x.c EXCEPT !.indices =
               @ \cup (IF Of(n).kind \in {"for", "foreach"} THEN Of(n).vars ELSE {})]
      /\ x.c.indices = x.c.indices
               \cup (IF Of(n).kind \in {"for", "foreach"} THEN Of(n).vars ELSE {})
  <2>1. (IF Of(n).kind \in {"for", "foreach"} THEN Of(n).vars ELSE {}) = {}
    OBVIOUS
  <2>2. x.c = [x.c EXCEPT !.indices = @ \cup {}]
    BY <1>1, SameIndices
  <2> QED
    BY <2>1, <2>2
<1>6. Linked(Steps, GuardedHead(n), y, x) /\ GuardedHead(n) \in Seq(Item)
  BY <1>2, <1>3, <1>4, <1>5, HeadLinked
<1>7. Linked(Steps, Arms(n), x, x)
  <2>1. PICK z : z = [c |-> x.c, lv |-> x.lv, new |-> FALSE]
    OBVIOUS
  <2>2. z = x
    BY <1>1, <2>1, ContextTyped
  <2>3. x.lv = (IF Of(n).kind = "case" THEN Append(x.lv, <<n, 0, x.c.site>>) ELSE x.lv)
        /\ Of(n).kind \in Controls
    BY DEF Controls
  <2> QED
    BY <1>5, <2>1, <2>2, <2>3, ArmsLinked
<1>8. Arms(n) \in Seq(Item)
  BY ArmItems
<1>9. PICK p \in Seq(Item), q \in Seq(Item) : p = GuardedHead(n) /\ q = Arms(n)
  BY <1>6, <1>8
<1>10. Linked(Steps, p \o q, y, x)
  BY <1>6, <1>7, <1>9, LinkedJoin
<1>11. p \o q \in Seq(Item)
  OBVIOUS
<1> QED
  BY <1>9, <1>10, <1>11

LEMMA CaseLinked ==
    ASSUME StartOK, CallsOK, CtxOK, NEW n \in Node, Of(n).kind = "case",
           NEW x, Sound(x), Placed(n, x), ~x.new, x.c = ctx,
           NEW y, y = With([ctx EXCEPT !.bindable = FALSE], x.lv, FALSE), NEW items,
           items = GuardedHead(n) \o <<Do("point", n)>> \o Arms(n) \o <<Do("pop", n)>>
    PROVE  Linked(Steps, items, y, x) /\ items \in Seq(Item)
<1>1. x \in Affairs /\ x.c \in Context /\ x.lv \in Seq(Tag) /\ x.c.site \in Nat
  BY ContextTyped DEF Sound
<1>2. PICK d \in Context : /\ d = [ctx EXCEPT !.bindable = FALSE] /\ d.site = x.c.site
                           /\ d.active = x.c.active /\ d.sub = x.c.sub
  <2>1. PICK d : d = [ctx EXCEPT !.bindable = FALSE]
    OBVIOUS
  <2>2. d \in Context /\ d.site = ctx.site /\ d.active = ctx.active /\ d.sub = ctx.sub
    BY <1>1, <2>1 DEF Context
  <2> QED
    BY <2>1, <2>2
<1>3. y \in Affairs /\ y.c = d /\ y.lv = x.lv /\ ~y.new
  BY <1>1, <1>2, WithTyped
<1>4. Sound(y)
  BY <1>2, <1>3, SoundVaried
<1>5. x.c = [x.c EXCEPT !.indices =
               @ \cup (IF Of(n).kind \in {"for", "foreach"} THEN Of(n).vars ELSE {})]
      /\ x.c.indices = x.c.indices
               \cup (IF Of(n).kind \in {"for", "foreach"} THEN Of(n).vars ELSE {})
  <2>1. (IF Of(n).kind \in {"for", "foreach"} THEN Of(n).vars ELSE {}) = {}
    OBVIOUS
  <2>2. x.c = [x.c EXCEPT !.indices = @ \cup {}]
    BY <1>1, SameIndices
  <2> QED
    BY <2>1, <2>2
<1>6. Linked(Steps, GuardedHead(n), y, x) /\ GuardedHead(n) \in Seq(Item)
  BY <1>2, <1>3, <1>4, <1>5, HeadLinked
<1>7. PICK tag \in Tag : tag = <<n, 0, x.c.site>>
  BY <1>1, TagIn
<1>8. PICK lv \in Seq(Tag) : lv = Append(x.lv, tag)
  BY <1>1, TwoTags
<1>9. PICK z \in Affairs : /\ z = With(x.c, lv, TRUE) /\ z.c = x.c /\ z.lv = lv /\ z.new
  BY <1>1, WithTyped
<1>10. PICK v \in Affairs : /\ v = With(x.c, lv, FALSE) /\ v.c = x.c /\ v.lv = lv
  BY <1>1, WithTyped
<1>11. Sound(z) /\ Sound(v)
  BY <1>9, <1>10, SoundVaried
<1>12. PICK p \in Item : /\ p = Do("point", n) /\ p.op = "point" /\ p.node = n /\ p.arm = 0
  BY DoItem
<1>13. PICK o \in Item : /\ o = Do("pop", n) /\ o.op = "pop"
  BY DoItem
<1>14. Linked(Steps, <<p>>, x, z)
  <2>1. z = Within(p, x)
    BY <1>7, <1>8, <1>9, <1>12 DEF With, Within
  <2>2. Good(p, x, z)
    BY <1>11, <1>12, <2>1 DEF Good, Undoing
  <2> QED
    BY <2>2, StepIs, LinkedOne
<1>15. ASSUME NEW w \in {z, v} PROVE Linked(Steps, <<o>>, w, x)
  <2>1. w.lv = lv /\ w.c = x.c /\ Sound(w)
    BY <1>9, <1>10, <1>11
  <2>2. lv # <<>> /\ SubSeq(lv, 1, Len(lv) - 1) = x.lv
    <3>1. PICK l \in Seq(Tag), k \in Nat : l = x.lv /\ k = Len(l)
      <4>1. PICK l \in Seq(Tag) : l = x.lv
        BY <1>1
      <4>2. Len(l) \in Nat
        OBVIOUS
      <4> QED
        BY <4>1, <4>2
    <3>2. Len(lv) = k + 1 /\ \A i \in 1..k : lv[i] = l[i]
      BY <1>8, <3>1, WithLast
    <3>3. PICK t : t = SubSeq(lv, 1, k)
      OBVIOUS
    <3>4. t \in Seq(Tag) /\ Len(t) = k /\ \A i \in 1..k : t[i] = lv[i]
      BY <3>2, <3>3
    <3>5. t = l
      <4>1. \A i \in 1..k : t[i] = l[i]
        BY <3>2, <3>4
      <4> QED
        BY <3>1, <3>4, <4>1, SameSeq
    <3>6. Len(lv) - 1 = k /\ lv # <<>>
      BY <3>2
    <3> QED
      BY <3>1, <3>3, <3>5, <3>6
  <2>3. x = [c |-> x.c, lv |-> x.lv, new |-> FALSE]
    BY <1>1, ContextTyped
  <2>4. Good(o, w, x)
    BY <1>13, <2>1, <2>2, <2>3 DEF Good, Undoing
  <2> QED
    BY <2>4, StepIs, LinkedOne
<1>16. Linked(Steps, Arms(n), z, z) \/ Linked(Steps, Arms(n), z, v)
  <2>1. z.lv = (IF Of(n).kind = "case" THEN Append(x.lv, <<n, 0, x.c.site>>) ELSE x.lv)
    BY <1>7, <1>8, <1>9
  <2>2. v = [c |-> z.c, lv |-> z.lv, new |-> FALSE]
    BY <1>9, <1>10 DEF With
  <2>3. Of(n).kind \in Controls
    BY DEF Controls
  <2> QED
    BY <1>5, <1>9, <1>11, <2>1, <2>2, <2>3, ArmsLinked
<1>17. PICK h \in Seq(Item), a \in Seq(Item), ps \in Seq(Item), os \in Seq(Item) :
         h = GuardedHead(n) /\ a = Arms(n) /\ ps = <<p>> /\ os = <<o>>
  <2>1. <<p>> \in Seq(Item) /\ <<o>> \in Seq(Item)
    OBVIOUS
  <2>2. Arms(n) \in Seq(Item)
    BY ArmItems
  <2> QED
    BY <1>6, <2>1, <2>2
<1>18. h \o ps \in Seq(Item) /\ Linked(Steps, h \o ps, y, z)
  <2>1. Linked(Steps, h, y, x) /\ Linked(Steps, ps, x, z)
    BY <1>6, <1>14, <1>17
  <2>2. h \o ps \in Seq(Item)
    OBVIOUS
  <2> QED
    BY <2>1, <2>2, LinkedJoin
<1>19. PICK w \in {z, v} : Linked(Steps, a, z, w) /\ Linked(Steps, os, w, x)
  <2>1. Linked(Steps, os, z, x) /\ Linked(Steps, os, v, x)
    BY <1>15, <1>17
  <2> QED
    BY <1>16, <1>17, <2>1
<1>20. (h \o ps) \o a \in Seq(Item) /\ Linked(Steps, (h \o ps) \o a, y, w)
  <2>1. PICK g \in Seq(Item) : g = h \o ps
    BY <1>18
  <2>2. g \o a \in Seq(Item)
    OBVIOUS
  <2>3. Linked(Steps, g \o a, y, w)
    BY <1>18, <1>19, <2>1, LinkedJoin
  <2> QED
    BY <2>1, <2>2, <2>3
<1>21. ((h \o ps) \o a) \o os \in Seq(Item) /\ Linked(Steps, ((h \o ps) \o a) \o os, y, x)
  <2>1. PICK g \in Seq(Item) : g = (h \o ps) \o a
    BY <1>20
  <2>2. g \o os \in Seq(Item)
    OBVIOUS
  <2>3. Linked(Steps, g \o os, y, x)
    BY <1>19, <1>20, <2>1, LinkedJoin
  <2> QED
    BY <2>1, <2>2, <2>3
<1> QED
  BY <1>12, <1>13, <1>17, <1>21

\* An item that undoes, as the last of a construct.
LEMMA UndoLinked ==
    ASSUME CtxOK, NEW n \in Node, NEW op \in Undoing \ {"leave"},
           NEW x, Sound(x), ~x.new, x.c = ctx, NEW y, Sound(y), ~y.new, y.lv = x.lv,
           Restored(Undo(op, n), y.c) = x.c
    PROVE  Linked(Steps, <<Undo(op, n)>>, y, x) /\ <<Undo(op, n)>> \in Seq(Item)
<1>1. PICK u \in Item : u = Undo(op, n) /\ u.op = op
  BY UndoItem
<1>2. x \in Affairs /\ y \in Affairs
  BY DEF Sound
<1>3. x = [c |-> Restored(u, y.c), lv |-> y.lv, new |-> FALSE]
  BY <1>1, <1>2, ContextTyped
<1>4. Good(u, y, x)
  BY <1>1, <1>3 DEF Good, Undoing
<1>5. Linked(Steps, <<u>>, y, x)
  BY <1>4, StepIs, LinkedOne
<1>6. <<u>> \in Seq(Item)
  OBVIOUS
<1> QED
  BY <1>1, <1>5, <1>6

LEMMA ForeachLinked ==
    ASSUME StartOK, CallsOK, CtxOK, NEW n \in Node, Of(n).kind \in {"for", "foreach"},
           NEW x, Sound(x), Placed(n, x), ~x.new, x.c = ctx,
           NEW z, z = With([ctx EXCEPT !.indices = @ \cup Of(n).vars], x.lv, FALSE)
    PROVE  /\ Linked(Steps, Arms(n) \o <<Undo("unindex", n)>>, z, x)
           /\ Arms(n) \o <<Undo("unindex", n)>> \in Seq(Item)
           /\ Sound(z)
<1>1. x \in Affairs /\ x.c \in Context /\ x.lv \in Seq(Tag) /\ Of(n).vars \in SUBSET Var
  BY ContextTyped, OfProgram DEF Sound, StartOK
<1>2. PICK d \in Context : /\ d = [ctx EXCEPT !.indices = @ \cup Of(n).vars]
                           /\ d.site = x.c.site /\ d.active = x.c.active /\ d.sub = x.c.sub
                           /\ d.delay = x.c.delay /\ d.word = x.c.word
                           /\ d.bindable = x.c.bindable
                           /\ d.indices = x.c.indices \cup Of(n).vars
  <2>1. PICK d : d = [ctx EXCEPT !.indices = @ \cup Of(n).vars]
    OBVIOUS
  <2>2. ctx.indices \cup Of(n).vars \in SUBSET Var
    BY <1>1 DEF Context
  <2>3. /\ d \in Context /\ d.site = ctx.site /\ d.active = ctx.active /\ d.sub = ctx.sub
        /\ d.delay = ctx.delay /\ d.word = ctx.word /\ d.bindable = ctx.bindable
        /\ d.indices = ctx.indices \cup Of(n).vars
    BY <1>1, <2>1, <2>2 DEF Context
  <2> QED
    BY <2>1, <2>3
<1>3. z \in Affairs /\ z.c = d /\ z.lv = x.lv /\ ~z.new
  BY <1>1, <1>2, WithTyped
<1>4. Sound(z)
  BY <1>2, <1>3, SoundVaried
<1>5. Linked(Steps, Arms(n), z, z)
  <2>1. z = [c |-> z.c, lv |-> z.lv, new |-> FALSE]
    BY <1>3, ContextTyped
  <2>2. z.lv = (IF Of(n).kind = "case" THEN Append(x.lv, <<n, 0, x.c.site>>) ELSE x.lv)
        /\ Of(n).kind \in Controls
    BY <1>3 DEF Controls
  <2>3. z.c.indices = x.c.indices
                \cup (IF Of(n).kind \in {"for", "foreach"} THEN Of(n).vars ELSE {})
    BY <1>2, <1>3
  <2>4. z.c.site = x.c.site /\ z.c.delay = x.c.delay /\ z.c.word = x.c.word
        /\ z.c.bindable = x.c.bindable
    BY <1>2, <1>3
  <2> QED
    BY <1>4, <2>1, <2>2, <2>3, <2>4, ArmsLinked
<1>6. Restored(Undo("unindex", n), z.c) = x.c
  <2>1. PICK V, I : V = Of(n).vars /\ I = x.c.indices
    OBVIOUS
  <2>2. (I \cup V) \ (V \ I) = I
    OBVIOUS
  <2>3. Restored(Undo("unindex", n), z.c)
          = [z.c EXCEPT !.indices = @ \ (Of(n).vars \ ctx.indices)]
    BY DEF Restored, Undo
  <2>4. z.c.indices \ (Of(n).vars \ ctx.indices) = x.c.indices
    BY <1>2, <1>3, <2>1, <2>2
  <2>5. [d EXCEPT !.indices = @ \ (Of(n).vars \ ctx.indices)] = [d EXCEPT !.indices = x.c.indices]
    BY <1>3, <2>4
  <2>6. [d EXCEPT !.indices = x.c.indices] = x.c
    <3>1. PICK e : e = [d EXCEPT !.indices = x.c.indices]
      OBVIOUS
    <3>2. d = [ctx EXCEPT !.indices = @ \cup Of(n).vars] /\ ctx \in Context /\ x.c = ctx
      BY <1>1, <1>2
    <3>3. e = ctx
      BY <3>1, <3>2 DEF Context
    <3> QED
      BY <3>1, <3>2, <3>3
  <2> QED
    BY <1>3, <2>3, <2>5, <2>6
<1>7. /\ Linked(Steps, <<Undo("unindex", n)>>, z, x)
      /\ <<Undo("unindex", n)>> \in Seq(Item)
  BY <1>3, <1>4, <1>6, UndoLinked DEF Undoing
<1>8. PICK p \in Seq(Item), q \in Seq(Item) : p = Arms(n) /\ q = <<Undo("unindex", n)>>
  BY <1>7, ArmItems
<1>9. Linked(Steps, p \o q, z, x)
  BY <1>5, <1>7, <1>8, LinkedJoin
<1>10. p \o q \in Seq(Item)
  OBVIOUS
<1> QED
  BY <1>4, <1>8, <1>9, <1>10

LEMMA ForLinked ==
    ASSUME StartOK, CallsOK, CtxOK, NEW n \in Node, Of(n).kind = "for",
           NEW x, Sound(x), Placed(n, x), ~x.new, x.c = ctx, NEW y,
           y = With([ctx EXCEPT !.bindable = FALSE, !.indices = @ \cup Of(n).vars],
                    x.lv, FALSE)
    PROVE  /\ Linked(Steps, GuardedHead(n) \o Arms(n) \o <<Undo("unindex", n)>>, y, x)
           /\ GuardedHead(n) \o Arms(n) \o <<Undo("unindex", n)>> \in Seq(Item)
<1>1. x \in Affairs /\ x.c \in Context /\ x.lv \in Seq(Tag) /\ Of(n).vars \in SUBSET Var
  BY ContextTyped, OfProgram DEF Sound, StartOK
<1>2. PICK z : z = With([ctx EXCEPT !.indices = @ \cup Of(n).vars], x.lv, FALSE)
  OBVIOUS
<1>3. /\ Linked(Steps, Arms(n) \o <<Undo("unindex", n)>>, z, x)
      /\ Arms(n) \o <<Undo("unindex", n)>> \in Seq(Item)
      /\ Sound(z)
  BY <1>2, ForeachLinked
<1>4. PICK d : d = [ctx EXCEPT !.indices = @ \cup Of(n).vars]
  OBVIOUS
<1>5. PICK e : e = [ctx EXCEPT !.bindable = FALSE, !.indices = @ \cup Of(n).vars]
  OBVIOUS
<1>6. d \in Context /\ e \in Context /\ e = [d EXCEPT !.bindable = FALSE]
      /\ e.site = ctx.site /\ e.active = ctx.active /\ e.sub = ctx.sub
  <2>1. ctx \in Context /\ ctx.indices \cup Of(n).vars \in SUBSET Var
    BY <1>1 DEF Context
  <2>2. d \in Context
    BY <1>4, <2>1 DEF Context
  <2>3. e \in Context /\ e.site = ctx.site /\ e.active = ctx.active /\ e.sub = ctx.sub
    BY <1>5, <2>1 DEF Context
  <2>4. e = [d EXCEPT !.bindable = FALSE]
    BY <1>4, <1>5, <2>1 DEF Context
  <2> QED
    BY <2>2, <2>3, <2>4
<1>7. z.c = d /\ z.lv = x.lv /\ ~z.new
  <2>1. z = With(d, x.lv, FALSE)
    BY <1>2, <1>4
  <2>2. d \in Context /\ x.lv \in Seq(Tag) /\ FALSE \in BOOLEAN
    BY <1>1, <1>6
  <2> QED
    BY ONLY <2>1, <2>2, WithTyped
<1>8. y.c = e /\ y.lv = x.lv /\ ~y.new /\ y \in Affairs
  <2>1. y = With(e, x.lv, FALSE)
    BY <1>5
  <2>2. e \in Context /\ x.lv \in Seq(Tag) /\ FALSE \in BOOLEAN
    BY <1>1, <1>6
  <2> QED
    BY ONLY <2>1, <2>2, WithTyped
<1>9. Sound(y)
  BY <1>6, <1>8, SoundVaried
<1>10. z.c = [x.c EXCEPT !.indices =
               @ \cup (IF Of(n).kind \in {"for", "foreach"} THEN Of(n).vars ELSE {})]
  BY <1>4, <1>7
<1>11. y.c = [z.c EXCEPT !.bindable = FALSE]
  BY <1>6, <1>7, <1>8
<1>12. Linked(Steps, GuardedHead(n), y, z) /\ GuardedHead(n) \in Seq(Item)
  BY <1>3, <1>7, <1>8, <1>9, <1>10, <1>11, HeadLinked
<1>13. PICK p \in Seq(Item), q \in Seq(Item), r \in Seq(Item) :
          p = GuardedHead(n) /\ q = Arms(n) /\ r = <<Undo("unindex", n)>>
  <2>1. Undo("unindex", n) \in Item
    BY UndoItem DEF Undoing
  <2>2. <<Undo("unindex", n)>> \in Seq(Item) /\ Arms(n) \in Seq(Item)
    BY <2>1, ArmItems
  <2> QED
    BY <1>12, <2>2
<1>14. PICK s \in Seq(Item) : s = q \o r
  <2>1. q \o r \in Seq(Item)
    OBVIOUS
  <2> QED
    BY <2>1
<1>15. Linked(Steps, p \o s, y, x)
  BY <1>3, <1>12, <1>13, <1>14, LinkedJoin
<1>16. p \o s = p \o q \o r /\ p \o s \in Seq(Item)
  BY <1>14, ItemsAssociate
<1> QED
  BY <1>13, <1>15, <1>16

LEMMA TimedLinked ==
    ASSUME StartOK, CallsOK, CtxOK, NEW n \in Node, Of(n).kind = "timed", Of(n).delay # NoDelay,
           NEW x, Sound(x), Placed(n, x), ~x.new, x.c = ctx,
           NEW y, y = With([ctx EXCEPT !.delay = Of(n).delay], x.lv, FALSE)
    PROVE  /\ Linked(Steps, Visits(Of(n).kids) \o <<Undo("undelay", n)>>, y, x)
           /\ Visits(Of(n).kids) \o <<Undo("undelay", n)>> \in Seq(Item)
<1>1. x \in Affairs /\ x.c \in Context /\ x.lv \in Seq(Tag)
  BY ContextTyped DEF Sound
<1>2. PICK d : d = [ctx EXCEPT !.delay = Of(n).delay]
  OBVIOUS
<1>3. /\ d \in Context /\ d.site = x.c.site /\ d.active = x.c.active /\ d.sub = x.c.sub
      /\ d.indices = x.c.indices /\ d.bindable = x.c.bindable /\ d.delay = Of(n).delay
      /\ d.word = x.c.word
      /\ [d EXCEPT !.delay = ctx.delay] = ctx
  <2>1. Of(n).delay \in Delay \cup {NoDelay} /\ ctx \in Context
    BY <1>1, OfProgram DEF StartOK
  <2>2. d \in Context
    BY <1>2, <2>1 DEF Context
  <2>3. [d EXCEPT !.delay = ctx.delay] = ctx
    BY <1>2, <2>1 DEF Context
  <2> QED
    BY <1>1, <1>2, <2>1, <2>2, <2>3 DEF Context
<1>4. y.c = d /\ y.lv = x.lv /\ ~y.new /\ y \in Affairs
  <2>1. y = With(d, x.lv, FALSE)
    BY <1>2
  <2>2. d \in Context /\ x.lv \in Seq(Tag) /\ FALSE \in BOOLEAN
    BY <1>1, <1>3
  <2> QED
    BY ONLY <2>1, <2>2, WithTyped
<1>5. Sound(y)
  BY <1>3, <1>4, SoundVaried
<1>6. Linked(Steps, Visits(Of(n).kids), y, y) /\ Visits(Of(n).kids) \in Seq(Item)
  <2>1. y.c.site = x.c.site /\ y.c.indices = x.c.indices /\ y.c.bindable = x.c.bindable
    BY <1>3, <1>4
  <2>2. y.c.delay = IF Of(n).kind = "timed" /\ Of(n).delay # NoDelay
                    THEN Of(n).delay ELSE x.c.delay
    BY <1>3, <1>4
  <2>3. y.c.word = IF Of(n).kind = "force" THEN Of(n).word ELSE x.c.word
    BY <1>3, <1>4
  <2>4. Of(n).kind \notin {"for", "foreach"}
    OBVIOUS
  <2> QED
    BY <1>4, <1>5, <2>1, <2>2, <2>3, <2>4, KidsLinked
<1>7. Restored(Undo("undelay", n), y.c) = x.c
  <2>1. Restored(Undo("undelay", n), y.c) = [d EXCEPT !.delay = ctx.delay]
    BY <1>4 DEF Restored, Undo
  <2> QED
    BY <1>3, <2>1
<1>8. Linked(Steps, <<Undo("undelay", n)>>, y, x) /\ <<Undo("undelay", n)>> \in Seq(Item)
  BY <1>4, <1>5, <1>7, UndoLinked DEF Undoing
<1>9. PICK p \in Seq(Item), q \in Seq(Item) :
         p = Visits(Of(n).kids) /\ q = <<Undo("undelay", n)>>
  BY <1>6, <1>8
<1>10. Linked(Steps, p \o q, y, x)
  BY <1>6, <1>8, <1>9, LinkedJoin
<1>11. p \o q \in Seq(Item)
  OBVIOUS
<1> QED
  BY <1>9, <1>10, <1>11

LEMMA ForceLinked ==
    ASSUME StartOK, CallsOK, CtxOK, NEW n \in Node, Of(n).kind = "force",
           NEW x, Sound(x), Placed(n, x), ~x.new, x.c = ctx,
           NEW y, y = With([ctx EXCEPT !.word = Of(n).word], x.lv, FALSE)
    PROVE  /\ Linked(Steps, Visits(Of(n).kids) \o <<Undo("unforce", n)>>, y, x)
           /\ Visits(Of(n).kids) \o <<Undo("unforce", n)>> \in Seq(Item)
<1>1. x \in Affairs /\ x.c \in Context /\ x.lv \in Seq(Tag)
  BY ContextTyped DEF Sound
<1>2. PICK d : d = [ctx EXCEPT !.word = Of(n).word]
  OBVIOUS
<1>3. /\ d \in Context /\ d.site = x.c.site /\ d.active = x.c.active /\ d.sub = x.c.sub
      /\ d.indices = x.c.indices /\ d.bindable = x.c.bindable /\ d.word = Of(n).word
      /\ d.delay = x.c.delay
      /\ [d EXCEPT !.word = ctx.word] = ctx
  <2>1. Of(n).word \in Word /\ ctx \in Context
    BY <1>1, OfProgram DEF StartOK
  <2>2. d \in Context
    BY <1>2, <2>1 DEF Context
  <2>3. [d EXCEPT !.word = ctx.word] = ctx
    BY <1>2, <2>1 DEF Context
  <2> QED
    BY <1>1, <1>2, <2>1, <2>2, <2>3 DEF Context
<1>4. y.c = d /\ y.lv = x.lv /\ ~y.new /\ y \in Affairs
  <2>1. y = With(d, x.lv, FALSE)
    BY <1>2
  <2>2. d \in Context /\ x.lv \in Seq(Tag) /\ FALSE \in BOOLEAN
    BY <1>1, <1>3
  <2> QED
    BY ONLY <2>1, <2>2, WithTyped
<1>5. Sound(y)
  BY <1>3, <1>4, SoundVaried
<1>6. Linked(Steps, Visits(Of(n).kids), y, y) /\ Visits(Of(n).kids) \in Seq(Item)
  <2>1. y.c.site = x.c.site /\ y.c.indices = x.c.indices /\ y.c.bindable = x.c.bindable
    BY <1>3, <1>4
  <2>2. y.c.delay = IF Of(n).kind = "timed" /\ Of(n).delay # NoDelay
                    THEN Of(n).delay ELSE x.c.delay
    BY <1>3, <1>4
  <2>3. y.c.word = IF Of(n).kind = "force" THEN Of(n).word ELSE x.c.word
    BY <1>3, <1>4
  <2>4. Of(n).kind \notin {"for", "foreach"}
    OBVIOUS
  <2> QED
    BY <1>4, <1>5, <2>1, <2>2, <2>3, <2>4, KidsLinked
<1>7. Restored(Undo("unforce", n), y.c) = x.c
  <2>1. Restored(Undo("unforce", n), y.c) = [d EXCEPT !.word = ctx.word]
    BY <1>4 DEF Restored, Undo
  <2> QED
    BY <1>3, <2>1
<1>8. Linked(Steps, <<Undo("unforce", n)>>, y, x) /\ <<Undo("unforce", n)>> \in Seq(Item)
  BY <1>4, <1>5, <1>7, UndoLinked DEF Undoing
<1>9. PICK p \in Seq(Item), q \in Seq(Item) :
         p = Visits(Of(n).kids) /\ q = <<Undo("unforce", n)>>
  BY <1>6, <1>8
<1>10. Linked(Steps, p \o q, y, x)
  BY <1>6, <1>8, <1>9, LinkedJoin
<1>11. p \o q \in Seq(Item)
  OBVIOUS
<1> QED
  BY <1>9, <1>10, <1>11

LEMMA PlainLinked ==
    ASSUME StartOK, CallsOK, NEW n \in Node,
           Of(n).kind \notin {"for", "foreach", "force"},
           Of(n).kind = "timed" => Of(n).delay = NoDelay,
           NEW x, Sound(x), Placed(n, x), ~x.new
    PROVE  /\ Linked(Steps, Visits(Of(n).kids), x, x)
           /\ Visits(Of(n).kids) \in Seq(Item)
<1>1. x.c.delay = IF Of(n).kind = "timed" /\ Of(n).delay # NoDelay
                  THEN Of(n).delay ELSE x.c.delay
  OBVIOUS
<1>2. x.c.word = IF Of(n).kind = "force" THEN Of(n).word ELSE x.c.word
  OBVIOUS
<1> QED
  BY <1>1, <1>2, KidsLinked

LEMMA CallLinked ==
    ASSUME StartOK, CallsOK, NEW n \in Node, Of(n).kind = "call",
           NEW x, Sound(x), Placed(n, x), ~x.new
    PROVE  /\ Linked(Steps, Visits(Of(n).kids) \o <<Do("enter", n)>>, x, x)
           /\ Visits(Of(n).kids) \o <<Do("enter", n)>> \in Seq(Item)
<1>1. Linked(Steps, Visits(Of(n).kids), x, x) /\ Visits(Of(n).kids) \in Seq(Item)
  BY PlainLinked
<1>2. <<Do("enter", n), x, x>> \in Steps
  BY VisitStep
<1>3. Linked(Steps, <<Do("enter", n)>>, x, x)
  BY <1>2, LinkedOne
<1>4. <<Do("enter", n)>> \in Seq(Item)
  BY DoItem
<1>5. PICK p \in Seq(Item), q \in Seq(Item) :
         p = Visits(Of(n).kids) /\ q = <<Do("enter", n)>>
  BY <1>1, <1>4
<1>6. Linked(Steps, p \o q, x, x)
  BY <1>1, <1>3, <1>5, LinkedJoin
<1>7. p \o q \in Seq(Item)
  OBVIOUS
<1> QED
  BY <1>5, <1>6, <1>7
=============================================================================
