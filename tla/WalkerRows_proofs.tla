-------------------------- MODULE WalkerRows_proofs --------------------------
(***************************************************************************)
(* What the walk's rows say, for every program and every budget: what the  *)
(* budget was spent on, which delay and which word are in force, who made  *)
(* a call, and which levels a row is nested in.                            *)
(*                                                                         *)
(* The invariant is that the agenda is a chain of items that starts at     *)
(* what is in force now (Follows), so that whatever an item does, those    *)
(* behind it find what they were left with.                                *)
(***************************************************************************)
EXTENDS Walker_proofs

(***************************************************************************)
(* The walk follows its agenda: what is in force now leads through the     *)
(* items that are left.                                                    *)
(***************************************************************************)
LevelTag(i) == <<levels[i].node, levels[i].arm,
                 IF levels[i].id = 0 THEN ctx.site ELSE frames[levels[i].id].site>>
LevelTags == [i \in 1..Len(levels) |-> LevelTag(i)]
Unsettled == levels # <<>> /\ levels[Len(levels)].id = 0
Now == With(ctx, LevelTags, Unsettled)
OnlyLast == \A i \in 1..Len(levels) - 1 : levels[i].id # 0
Follows ==
    /\ OnlyLast
    /\ walking => at # 0 /\ \E z : Linked(Steps, agenda, Now, z)

LEMMA LevelsTagged ==
    ASSUME LevelsOK, CtxOK
    PROVE  /\ LevelTags \in Seq(Tag) /\ Len(LevelTags) = Len(levels)
           /\ \A i \in 1..Len(levels) : LevelTags[i] = LevelTag(i)
<1>1. PICK m \in Nat : m = Len(levels)
  BY DEF LevelsOK, Numbered
<1>2. ASSUME NEW i \in 1..m PROVE LevelTag(i) \in Tag
  <2>1. levels[i] \in Level /\ levels[i].id <= Len(frames)
    BY <1>1, ElementIn DEF LevelsOK, Numbered
  <2>2. levels[i].node \in Node /\ levels[i].arm \in Nat /\ levels[i].id \in Nat
    BY <2>1 DEF Level
  <2>3. ctx.site \in Nat
    BY DEF CtxOK, Context
  <2>4. CASE levels[i].id = 0
    BY <2>2, <2>3, <2>4 DEF LevelTag, Tag
  <2>5. CASE levels[i].id # 0
    <3>1. levels[i].id \in 1..Len(frames)
      <4>1. Len(frames) \in Nat
        BY DEF LevelsOK
      <4> QED
        BY <2>1, <2>2, <2>5, <4>1
    <3>2. frames[levels[i].id] \in Frame
      BY <3>1, ElementIn DEF LevelsOK
    <3>3. frames[levels[i].id].site \in Nat
      BY <3>2 DEF Frame
    <3> QED
      BY <2>2, <2>5, <3>3 DEF LevelTag, Tag
  <2> QED
    BY <2>4, <2>5
<1>3. PICK t : t = LevelTags
  OBVIOUS
<1>4. t = [i \in 1..m |-> t[i]] /\ \A i \in 1..m : t[i] = LevelTag(i)
  BY <1>1, <1>3 DEF LevelTags
<1>5. t \in Seq(Tag) /\ Len(t) = m
  <2>1. \A i \in 1..m : t[i] \in Tag
    BY <1>2, <1>4
  <2> QED
    BY <1>4, <2>1, Listed
<1> QED
  BY <1>1, <1>3, <1>4, <1>5

LEMMA NowTyped ==
    ASSUME LevelsOK, CtxOK
    PROVE  /\ Now \in Affairs /\ Now.c = ctx /\ Now.lv = LevelTags /\ Now.new = Unsettled
<1>1. ctx \in Context /\ LevelTags \in Seq(Tag) /\ Unsettled \in BOOLEAN
  BY LevelsTagged DEF CtxOK, Unsettled
<1> QED
  BY <1>1, WithTyped DEF Now

\* The item in hand, and where it leads.
LEMMA HeadFollows ==
    ASSUME WalkInv, Follows, walking, agenda # <<>>
    PROVE  \E y, z : /\ Good(Head(agenda), Now, y) /\ Head(agenda) \in Item
                     /\ Linked(Steps, Tail(agenda), y, z)
<1>1. PICK z : Linked(Steps, agenda, Now, z)
  BY DEF Follows
<1>2. agenda \in Seq(Item)
  BY Widened DEF WalkInv, AgendaOK, Fitting
<1>3. PICK y : <<Head(agenda), Now, y>> \in Steps /\ Linked(Steps, Tail(agenda), y, z)
  BY <1>1, <1>2, LinkedHead
<1> QED
  BY <1>3, StepIs

\* An item is replaced by items that lead where it led.
LEMMA KeepsFollowing ==
    ASSUME WalkInv, WalkInv', Grown, UNCHANGED <<program, at, walking>>, walking, at # 0,
           agenda # <<>>, OnlyLast', NEW items \in Seq(Item), Replace(items),
           NEW x, x = Now', NEW y, NEW z, Linked(Steps', items, x, y),
           Linked(Steps, Tail(agenda), y, z)
    PROVE  Follows'
<1>1. at \in 1..Len(program.walks) /\ StartOK /\ CallsOK /\ StartOK' /\ CallsOK'
  BY DEF WalkInv, StartOK
<1>2. PICK R, Q : R = Steps /\ Q = Steps'
  OBVIOUS
<1>3. R \subseteq Q
  BY <1>1, <1>2, StepsStay
<1>4. PICK t \in Seq(Item) : t = Tail(agenda)
  <2>1. Tail(agenda) \in Seq(Fitting)
    BY Rest DEF WalkInv
  <2>2. Tail(agenda) \in Seq(Item)
    BY <2>1, Widened DEF Fitting
  <2> QED
    BY <2>2
<1>5. Linked(Q, t, y, z)
  <2>1. Linked(R, t, y, z)
    BY <1>2, <1>4
  <2> QED
    BY <1>3, <2>1, LinkedStill
<1>6. Linked(Q, items, x, y)
  BY <1>2
<1>7. Linked(Q, items \o t, x, z)
  BY <1>5, <1>6, LinkedJoin
<1>8. agenda' = items \o t
  BY <1>4 DEF Replace
<1>9. Linked(Steps', agenda', Now', z)
  BY <1>2, <1>7, <1>8
<1> QED
  BY <1>9 DEF Follows

\* The levels as they were, at the site they were.
LEMMA LevelsStay ==
    ASSUME LevelsOK, OnlyLast, NoLevels, ctx'.site = ctx.site \/ ~Unsettled
    PROVE  LevelTags' = LevelTags /\ (Unsettled' <=> Unsettled) /\ OnlyLast'
<1>1. PICK m \in Nat : m = Len(levels)
  BY DEF LevelsOK, Numbered
<1>2. levels' = levels /\ frames' = frames
  BY DEF NoLevels
<1>3. ASSUME NEW i \in 1..m PROVE LevelTag(i)' = LevelTag(i)
  <2>1. CASE ctx'.site = ctx.site
    BY <1>2, <2>1 DEF LevelTag
  <2>2. CASE ~Unsettled
    <3>1. levels # <<>>
      <4>1. Len(levels) # 0
        BY <1>1
      <4> QED
        BY <4>1
    <3>2. levels[i].id # 0
      BY <1>1, <2>2, <3>1 DEF Unsettled, OnlyLast
    <3> QED
      BY <1>2, <3>2 DEF LevelTag
  <2> QED
    BY <2>1, <2>2
<1>4. LevelTags' = LevelTags
  <2>1. LevelTags = [i \in 1..m |-> LevelTag(i)]
    BY <1>1 DEF LevelTags
  <2>2. LevelTags' = [i \in 1..m |-> LevelTag(i)']
    BY <1>1, <1>2 DEF LevelTags
  <2> QED
    BY <1>3, <2>1, <2>2
<1> QED
  BY <1>2, <1>4 DEF Unsettled, OnlyLast

LEMMA NowStays ==
    ASSUME LevelsOK, OnlyLast, NoLevels, ctx'.site = ctx.site \/ ~Unsettled
    PROVE  Now' = With(ctx', LevelTags, Unsettled) /\ OnlyLast'
<1>1. Now' = With(ctx', LevelTags', Unsettled')
  BY DEF Now
<1>2. Unsettled' = Unsettled
  <2>1. Unsettled' \in BOOLEAN /\ Unsettled \in BOOLEAN /\ (Unsettled' <=> Unsettled)
    BY LevelsStay DEF Unsettled
  <2> QED
    BY <2>1
<1> QED
  BY <1>1, <1>2, LevelsStay

LEMMA SamePlace ==
    ASSUME LevelsOK, OnlyLast, NoLevels, UNCHANGED ctx
    PROVE  Now' = Now /\ OnlyLast'
  BY NowStays DEF Now

\* A construct that changes no site and no level.
LEMMA VisitFollows ==
    ASSUME WalkInv, WalkInv', Follows, walking, agenda # <<>>, Head(agenda).op # "arm",
           NoLevels, NoCalls, Quiet,
           ctx'.site = ctx.site, NEW items \in Seq(Item), Replace(items),
           ~Unsettled,
           \A y : Good(Head(agenda), Now, y)
                    => Linked(Steps, items, With(ctx', LevelTags, FALSE), y)
    PROVE  Follows'
<1>1. PICK y, z : Good(Head(agenda), Now, y) /\ Linked(Steps, Tail(agenda), y, z)
  BY HeadFollows
<1>2. Grown /\ UNCHANGED <<program, at, walking>> /\ at # 0
  BY DEF Grown, WalkInv, CallsOK, NoCalls, Quiet, Follows
<1>3. OnlyLast /\ LevelsOK
  BY DEF Follows, WalkInv
<1>4. Unsettled = FALSE
  BY DEF Unsettled
<1>5. PICK x : x = Now'
  OBVIOUS
<1>6. x = With(ctx', LevelTags, FALSE) /\ OnlyLast'
  BY <1>3, <1>4, <1>5, NowStays
<1>7. Linked(Steps, items, x, y)
  BY <1>1, <1>6
<1>8. PICK R, Q : R = Steps /\ Q = Steps'
  OBVIOUS
<1>9. R \subseteq Q
  <2>1. at \in 1..Len(program.walks) /\ StartOK /\ CallsOK /\ StartOK' /\ CallsOK'
    BY <1>2 DEF WalkInv, StartOK
  <2> QED
    BY <1>2, <1>8, <2>1, StepsStay
<1>10. Linked(Q, items, x, y)
  <2>1. Linked(R, items, x, y)
    BY <1>7, <1>8
  <2> QED
    BY <1>9, <2>1, LinkedStill
<1>11. Linked(Steps', items, x, y)
  BY <1>8, <1>10
<1> QED
  BY <1>1, <1>2, <1>5, <1>6, <1>11, KeepsFollowing

\* What the item in hand says of what is in force.
LEMMA AtHand ==
    ASSUME WalkInv, Follows, agenda # <<>>
    PROVE  /\ walking /\ Sound(Now) /\ Now.c = ctx /\ Now.lv = LevelTags /\ Now.new = Unsettled
           /\ Head(agenda).op \in {"visit", "enter"} => Placed(Head(agenda).node, Now)
           /\ Head(agenda).op \in {"visit", "enter"} \cup Undoing => ~Unsettled
<1>1. walking
  BY DEF WalkInv, IdleOK
<1>2. PICK y, z : Good(Head(agenda), Now, y) /\ Linked(Steps, Tail(agenda), y, z)
  BY <1>1, HeadFollows
<1>3. Now.c = ctx /\ Now.lv = LevelTags /\ Now.new = Unsettled
  BY NowTyped DEF WalkInv
<1> QED
  BY <1>1, <1>2, <1>3 DEF Good

LEMMA VisitKeeps ==
    ASSUME WalkInv, WalkInv', Follows, NEW n \in Node, Pending("visit"),
           Head(agenda).node = n, NoLevels, NoCalls, Quiet, ctx'.site = ctx.site,
           NEW items, Replace(items),
           Sound(Now) /\ Placed(n, Now) /\ ~Now.new /\ Now.c = ctx /\ Now.lv = LevelTags
             => /\ Linked(Steps, items, With(ctx', LevelTags, FALSE), Now)
                /\ items \in Seq(Item)
    PROVE  Follows'
<1>1. agenda # <<>> /\ Head(agenda).op = "visit"
  BY DEF Pending
<1>2. /\ walking /\ Sound(Now) /\ Placed(n, Now) /\ ~Unsettled /\ Now.new = Unsettled
      /\ Now.c = ctx /\ Now.lv = LevelTags
  BY <1>1, AtHand
<1>3. /\ Linked(Steps, items, With(ctx', LevelTags, FALSE), Now)
      /\ items \in Seq(Item)
  BY <1>2
<1>4. \A y : Good(Head(agenda), Now, y)
               => Linked(Steps, items, With(ctx', LevelTags, FALSE), y)
  <2>1. \A y : Good(Head(agenda), Now, y) => y = Now
    BY <1>1 DEF Good
  <2> QED
    BY <1>3, <2>1
<1> QED
  BY <1>1, <1>2, <1>3, <1>4, VisitFollows

\* Where nothing is entered.
LEMMA DefaultFollows ==
    ASSUME WalkInv, WalkInv', Follows, NEW n \in Node, Pending("visit"),
           Head(agenda).node = n, NoLevels, NoCalls, Quiet, UNCHANGED ctx,
           Of(n).kind \notin {"for", "foreach", "force"},
           Of(n).kind = "timed" => Of(n).delay = NoDelay, Replace(Visits(Of(n).kids))
    PROVE  Follows'
<1>1. PICK items : items = Visits(Of(n).kids)
  OBVIOUS
<1>2. ASSUME Sound(Now), Placed(n, Now), ~Now.new, Now.c = ctx, Now.lv = LevelTags
      PROVE  /\ Linked(Steps, items, With(ctx', LevelTags, FALSE), Now)
             /\ items \in Seq(Item)
  <2>1. Linked(Steps, items, Now, Now) /\ items \in Seq(Item)
    BY <1>1, <1>2, PlainLinked DEF WalkInv
  <2>2. With(ctx', LevelTags, FALSE) = Now
    <3>1. Now.new = Unsettled /\ Unsettled \in BOOLEAN
      BY NowTyped DEF WalkInv, Unsettled
    <3> QED
      BY <1>2, <3>1 DEF Now
  <2> QED
    BY <2>1, <2>2
<1>3. Replace(items) /\ ctx'.site = ctx.site
  BY <1>1
<1> QED
  BY <1>2, <1>3, VisitKeeps

LEMMA StatementsFollow ==
    ASSUME WalkInv, WalkInv', Follows, NEW n \in Node,
           \/ HandlePlain(n) \/ HandleAssignment(n) \/ HandleStep(n)
           \/ HandleReturn(n) \/ HandleRow(n)
    PROVE  Follows'
<1>1. /\ Pending("visit") /\ Head(agenda).node = n /\ VisitDefault(n) /\ UNCHANGED ctx
      /\ Of(n).kind \in {"plain", "assign", "step", "return", "row"}
  BY DEF HandlePlain, HandleAssignment, HandleStep, HandleReturn, HandleRow, Visiting
<1>2. Replace(Visits(Of(n).kids)) /\ NoLevels /\ NoCalls /\ Quiet
  BY <1>1 DEF VisitDefault
<1> QED
  BY <1>1, <1>2, DefaultFollows

LEMMA ConstructsFollow ==
    ASSUME WalkInv, WalkInv', Follows, NEW n \in Node,
           \/ HandleTimed(n) \/ HandleForce(n) \/ HandleConditional(n) \/ HandleCase(n)
           \/ HandleLoop(n) \/ HandleFor(n) \/ HandleForeach(n) \/ HandleCall(n)
    PROVE  Follows'
<1>1. /\ Pending("visit") /\ Head(agenda).node = n /\ NoLevels /\ NoCalls /\ Quiet
      /\ agenda # <<>> /\ Head(agenda).op = "visit"
  BY DEF HandleTimed, HandleForce, HandleConditional, HandleCase, HandleLoop,
         HandleFor, HandleForeach, HandleCall, Visiting, Pending
<1>2. ctx \in Context /\ StartOK /\ CallsOK /\ CtxOK
  BY DEF WalkInv, CtxOK
<1>3. PICK x : x = Now
  OBVIOUS
<1>4. /\ Sound(x) /\ Placed(n, x) /\ ~x.new /\ x.c = ctx /\ x.lv = LevelTags
  BY <1>1, <1>3, AtHand
<1>5. ASSUME NEW items, Replace(items), ctx'.site = ctx.site, items \in Seq(Item),
             Linked(Steps, items, With(ctx', x.lv, FALSE), x)
      PROVE  Follows'
  BY <1>1, <1>3, <1>4, <1>5, VisitKeeps
<1>6. CASE HandleTimed(n)
  <2>1. Of(n).kind = "timed"
    BY <1>6 DEF HandleTimed, Visiting
  <2>2. CASE Of(n).delay = NoDelay
    BY <1>1, <1>6, <2>1, <2>2, DefaultFollows DEF HandleTimed
  <2>3. CASE Of(n).delay # NoDelay
    <3>1. PICK items : items = Visits(Of(n).kids) \o <<Undo("undelay", n)>>
      OBVIOUS
    <3>2. Replace(items) /\ ctx' = [ctx EXCEPT !.delay = Of(n).delay]
      BY <1>6, <2>3, <3>1 DEF HandleTimed
    <3>3. ctx'.site = ctx.site
      BY <1>2, <3>2 DEF Context
    <3>4. Linked(Steps, items, With(ctx', x.lv, FALSE), x) /\ items \in Seq(Item)
      BY <1>2, <1>4, <2>1, <2>3, <3>1, <3>2, TimedLinked
    <3> QED
      BY <1>5, <3>2, <3>3, <3>4
  <2> QED
    BY <2>2, <2>3
<1>7. CASE HandleForce(n)
  <3>1. PICK items : items = Visits(Of(n).kids) \o <<Undo("unforce", n)>>
    OBVIOUS
  <3>2. /\ Replace(items) /\ ctx' = [ctx EXCEPT !.word = Of(n).word]
        /\ Of(n).kind = "force"
    BY <1>7, <3>1 DEF HandleForce, Visiting
  <3>3. ctx'.site = ctx.site
    BY <1>2, <3>2 DEF Context
  <3>4. Linked(Steps, items, With(ctx', x.lv, FALSE), x) /\ items \in Seq(Item)
    BY <1>2, <1>4, <3>1, <3>2, ForceLinked
  <3> QED
    BY <1>5, <3>2, <3>3, <3>4
<1>8. CASE HandleConditional(n) \/ HandleLoop(n)
  <3>1. PICK items : items = GuardedHead(n) \o Arms(n)
    OBVIOUS
  <3>2. /\ Replace(items) /\ ctx' = [ctx EXCEPT !.bindable = FALSE]
        /\ Of(n).kind \in {"if", "loop"}
    BY <1>8, <3>1 DEF HandleConditional, HandleLoop, Visiting
  <3>3. ctx'.site = ctx.site
    BY <1>2, <3>2 DEF Context
  <3>4. Linked(Steps, items, With(ctx', x.lv, FALSE), x) /\ items \in Seq(Item)
    BY <1>2, <1>4, <3>1, <3>2, BranchLinked
  <3> QED
    BY <1>5, <3>2, <3>3, <3>4
<1>9. CASE HandleCase(n)
  <3>1. PICK items : items = GuardedHead(n) \o <<Do("point", n)>> \o Arms(n) \o <<Do("pop", n)>>
    OBVIOUS
  <3>2. /\ Replace(items) /\ ctx' = [ctx EXCEPT !.bindable = FALSE]
        /\ Of(n).kind = "case"
    BY <1>9, <3>1 DEF HandleCase, Visiting
  <3>3. ctx'.site = ctx.site
    BY <1>2, <3>2 DEF Context
  <3>4. Linked(Steps, items, With(ctx', x.lv, FALSE), x) /\ items \in Seq(Item)
    BY <1>2, <1>4, <3>1, <3>2, CaseLinked
  <3> QED
    BY <1>5, <3>2, <3>3, <3>4
<1>10. CASE HandleFor(n)
  <3>1. PICK items : items = GuardedHead(n) \o Arms(n) \o <<Undo("unindex", n)>>
    OBVIOUS
  <3>2. /\ Replace(items)
        /\ ctx' = [ctx EXCEPT !.bindable = FALSE, !.indices = @ \cup Of(n).vars]
        /\ Of(n).kind = "for"
    BY <1>10, <3>1 DEF HandleFor, Visiting
  <3>3. ctx'.site = ctx.site
    BY <1>2, <3>2 DEF Context
  <3>4. Linked(Steps, items, With(ctx', x.lv, FALSE), x) /\ items \in Seq(Item)
    BY <1>2, <1>4, <3>1, <3>2, ForLinked
  <3> QED
    BY <1>5, <3>2, <3>3, <3>4
<1>11. CASE HandleForeach(n)
  <3>1. PICK items : items = Arms(n) \o <<Undo("unindex", n)>>
    OBVIOUS
  <3>2. /\ Replace(items) /\ ctx' = [ctx EXCEPT !.indices = @ \cup Of(n).vars]
        /\ Of(n).kind = "foreach"
    BY <1>11, <3>1 DEF HandleForeach, Visiting
  <3>3. ctx'.site = ctx.site
    BY <1>2, <3>2 DEF Context
  <3>4. Linked(Steps, items, With(ctx', x.lv, FALSE), x) /\ items \in Seq(Item)
    BY <1>2, <1>4, <3>1, <3>2, ForeachLinked
  <3> QED
    BY <1>5, <3>2, <3>3, <3>4
<1>12. CASE HandleCall(n)
  <3>1. PICK items : items = Visits(Of(n).kids) \o <<Do("enter", n)>>
    OBVIOUS
  <3>2. Replace(items) /\ ctx' = ctx /\ Of(n).kind = "call"
    BY <1>12, <3>1 DEF HandleCall, Visiting
  <3>3. Linked(Steps, items, x, x) /\ items \in Seq(Item)
    BY <1>2, <1>4, <3>1, <3>2, CallLinked
  <3>4. With(ctx', x.lv, FALSE) = x
    <4>1. x.new = Unsettled /\ Unsettled \in BOOLEAN
      BY <1>3, NowTyped DEF WalkInv, Unsettled
    <4> QED
      BY <1>3, <1>4, <3>2, <4>1 DEF Now
  <3> QED
    BY <1>5, <3>2, <3>3, <3>4
<1> QED
  BY <1>6, <1>7, <1>8, <1>9, <1>10, <1>11, <1>12

LEMMA NoItems == \E items \in Seq(Item) : items = <<>>
<1>1. <<>> \in Seq(Item)
  OBVIOUS
<1> QED
  BY <1>1

LEMMA UndoFollows ==
    ASSUME WalkInv, WalkInv', Follows, Unguard \/ Unindex \/ Undelay \/ Unforce
    PROVE  Follows'
<1>1. /\ agenda # <<>> /\ Replace(<<>>) /\ NoLevels /\ NoCalls /\ Quiet
      /\ Head(agenda).op \in Undoing \ {"leave"}
  BY DEF Unguard, Unindex, Undelay, Unforce, Pending, Undoing
<1>2. ctx' = Restored(Head(agenda), ctx)
  <2>1. CASE Unguard
    <3>1. Head(agenda).op = "unguard"
      BY <2>1 DEF Unguard, Pending
    <3> QED
      BY <2>1, <3>1 DEF Unguard, Restored
  <2>2. CASE Unindex
    <3>1. Head(agenda).op = "unindex"
      BY <2>2 DEF Unindex, Pending
    <3> QED
      BY <2>2, <3>1 DEF Unindex, Restored
  <2>3. CASE Undelay
    <3>1. Head(agenda).op = "undelay"
      BY <2>3 DEF Undelay, Pending
    <3> QED
      BY <2>3, <3>1 DEF Undelay, Restored
  <2>4. CASE Unforce
    <3>1. Head(agenda).op = "unforce"
      BY <2>4 DEF Unforce, Pending
    <3> QED
      BY <2>4, <3>1 DEF Unforce, Restored
  <2> QED
    BY <2>1, <2>2, <2>3, <2>4
<1>3. ctx'.site = ctx.site
  <2>1. ctx \in Context
    BY DEF WalkInv, CtxOK
  <2> QED
    BY <2>1 DEF Unguard, Unindex, Undelay, Unforce, Context
<1>4. ~Unsettled /\ Now.c = ctx /\ Now.lv = LevelTags /\ walking
  BY <1>1, AtHand
<1>5. \A y : Good(Head(agenda), Now, y)
               => Linked(Steps, <<>>, With(ctx', LevelTags, FALSE), y)
  <2>1. ASSUME NEW y, Good(Head(agenda), Now, y)
        PROVE  Linked(Steps, <<>>, With(ctx', LevelTags, FALSE), y)
    <3>1. y = With(ctx', LevelTags, FALSE)
      BY <1>1, <1>2, <1>4, <2>1 DEF Good, With
    <3>2. PICK R : R = Steps
      OBVIOUS
    <3>3. Linked(R, <<>>, y, y)
      BY LinkedNone
    <3> QED
      BY <3>1, <3>2, <3>3
  <2> QED
    BY <2>1
<1>6. PICK items \in Seq(Item) : items = <<>>
  BY NoItems
<1>7. Head(agenda).op # "arm"
  BY <1>1 DEF Undoing
<1> QED
  BY <1>1, <1>3, <1>4, <1>5, <1>6, <1>7, VisitFollows

\* A level more.
LEMMA LevelsTaggedNext ==
    LevelsOK' /\ CtxOK' =>
      (/\ LevelTags \in Seq(Tag) /\ Len(LevelTags) = Len(levels)
       /\ \A i \in 1..Len(levels) : LevelTags[i] = LevelTag(i))'
<1>1. LevelsOK /\ CtxOK =>
      (/\ LevelTags \in Seq(Tag) /\ Len(LevelTags) = Len(levels)
       /\ \A i \in 1..Len(levels) : LevelTags[i] = LevelTag(i))
  BY LevelsTagged
<1> QED
  BY <1>1, PTL

LEMMA PointFollows ==
    ASSUME WalkInv, WalkInv', Follows, PushPoint
    PROVE  Follows'
<1>1. /\ agenda # <<>> /\ Head(agenda).op = "point" /\ Replace(<<>>)
      /\ NoCalls /\ Quiet /\ UNCHANGED <<ctx, frames>>
  BY DEF PushPoint, Pending
<1>2. PICK n \in Node : n = Head(agenda).node
  BY <1>1, HeadIsItem DEF WalkInv
<1>3. PICK l \in Level : l = [node |-> n, arm |-> 0, id |-> 0]
  <2>1. [node |-> n, arm |-> 0, id |-> 0] \in Level
    BY DEF Level
  <2> QED
    BY <2>1
<1>4. levels' = Append(levels, l) /\ levels \in Seq(Level)
  BY <1>2, <1>3 DEF PushPoint, WalkInv, LevelsOK, Numbered
<1>5. PICK m \in Nat : m = Len(levels)
  BY <1>4
<1>6. /\ Len(levels') = m + 1 /\ levels'[m + 1] = l
      /\ \A i \in 1..m : levels'[i] = levels[i]
  BY <1>4, <1>5, WithLast
<1>7. PICK y, z : Good(Head(agenda), Now, y) /\ Linked(Steps, Tail(agenda), y, z)
  BY <1>1, HeadFollows, AtHand
<1>8. Now.c = ctx /\ Now.lv = LevelTags /\ Now.new = Unsettled /\ walking
  BY <1>1, AtHand
<1>9. /\ ~Unsettled
      /\ y = With(ctx, Append(LevelTags, <<n, 0, ctx.site>>), TRUE)
  BY <1>1, <1>2, <1>7, <1>8 DEF Good, Within, With
<1>10. \A i \in 1..m : levels[i].id # 0
  <2>1. m # 0 => levels # <<>>
    BY <1>5
  <2>2. OnlyLast
    BY DEF Follows
  <2> QED
    BY <1>5, <1>9, <2>1, <2>2 DEF Unsettled, OnlyLast
<1>11. OnlyLast' /\ Unsettled'
  <2>1. OnlyLast'
    BY <1>5, <1>6, <1>10 DEF OnlyLast
  <2>2. levels' # <<>>
    BY <1>4
  <2>3. levels'[Len(levels')].id = 0
    BY <1>3, <1>6
  <2> QED
    BY <2>1, <2>2, <2>3 DEF Unsettled
<1>12. LevelTags' = Append(LevelTags, <<n, 0, ctx.site>>)
  <2>1. PICK p : p = LevelTags
    OBVIOUS
  <2>2. PICK q : q = LevelTags'
    OBVIOUS
  <2>3. /\ p \in Seq(Tag) /\ Len(p) = m /\ \A i \in 1..m : p[i] = LevelTag(i)
    BY <1>5, <2>1, LevelsTagged DEF WalkInv
  <2>4. /\ q \in Seq(Tag) /\ Len(q) = m + 1 /\ \A i \in 1..m + 1 : q[i] = LevelTag(i)'
    BY <1>6, <2>2, LevelsTaggedNext DEF WalkInv
  <2>5. PICK tag \in Tag : tag = <<n, 0, ctx.site>>
    <3>1. ctx.site \in Nat
      BY DEF WalkInv, CtxOK, Context
    <3> QED
      BY <3>1, TagIn
  <2>6. \A i \in 1..m : LevelTag(i)' = LevelTag(i)
    BY <1>1, <1>6, <1>10 DEF LevelTag
  <2>7. LevelTag(m + 1)' = tag
    <3>1. \A i : i = m + 1 => levels'[i] = l
      BY <1>6
    <3> QED
      BY <1>1, <1>3, <1>6, <2>5, <3>1 DEF LevelTag
  <2>8. PICK r \in Seq(Tag) : r = Append(p, tag)
    <3>1. Append(p, tag) \in Seq(Tag)
      BY <2>3, <2>5, WithLast
    <3> QED
      BY <3>1
  <2>9. Len(r) = m + 1 /\ \A i \in 1..m : r[i] = p[i]
    BY <2>3, <2>5, <2>8, WithLast
  <2>10. r[m + 1] = tag
    BY <2>3, <2>5, <2>8, WithLast
  <2>11. \A i \in 1..m + 1 : q[i] = r[i]
    BY <2>3, <2>4, <2>6, <2>7, <2>9, <2>10
  <2>12. q = r
    BY <2>4, <2>9, <2>11, SameSeq
  <2> QED
    BY <2>1, <2>2, <2>5, <2>8, <2>12
<1>13. Now' = y
  <2>1. Unsettled' = TRUE
    <3>1. Unsettled' \in BOOLEAN
      BY DEF Unsettled
    <3> QED
      BY <1>11, <3>1
  <2>2. Now' = With(ctx', LevelTags', Unsettled')
    BY DEF Now
  <2> QED
    BY <1>1, <1>9, <1>12, <2>1, <2>2
<1>14. Grown /\ UNCHANGED <<program, at, walking>> /\ at # 0
  BY <1>1, <1>8 DEF Grown, WalkInv, CallsOK, NoCalls, Quiet, Follows
<1>15. PICK items \in Seq(Item) : items = <<>>
  BY NoItems
<1>16. Linked(Steps', items, y, y)
  BY <1>15, LinkedNone
<1> QED
  BY <1>1, <1>7, <1>8, <1>11, <1>13, <1>14, <1>15, <1>16, KeepsFollowing

LEMMA AllButLast ==
    ASSUME NEW S, NEW s \in Seq(S), s # <<>>
    PROVE  /\ SubSeq(s, 1, Len(s) - 1) \in Seq(S)
           /\ Len(SubSeq(s, 1, Len(s) - 1)) = Len(s) - 1 /\ Len(s) - 1 \in Nat
           /\ \A i \in 1..Len(s) - 1 : SubSeq(s, 1, Len(s) - 1)[i] = s[i]
<1>1. PICK m \in Nat : m = Len(s) - 1 /\ Len(s) = m + 1
  <2>1. Len(s) \in Nat /\ Len(s) # 0
    OBVIOUS
  <2>2. Len(s) - 1 \in Nat /\ Len(s) = (Len(s) - 1) + 1
    BY <2>1
  <2> QED
    BY <2>2
<1>2. \A i \in 1..m : s[i] \in S
  BY <1>1
<1>3. PICK t : t = SubSeq(s, 1, m)
  OBVIOUS
<1>4. t \in Seq(S) /\ Len(t) = m /\ \A i \in 1..m : t[i] = s[i]
  BY <1>1, <1>2, <1>3
<1> QED
  BY <1>1, <1>3, <1>4

LEMMA PopFollows ==
    ASSUME WalkInv, WalkInv', Follows, PopLevel
    PROVE  Follows'
<1>1. /\ agenda # <<>> /\ Head(agenda).op = "pop" /\ Replace(<<>>)
      /\ levels' = SubSeq(levels, 1, Len(levels) - 1)
      /\ NoCalls /\ Quiet /\ UNCHANGED <<ctx, frames>>
  BY DEF PopLevel, Pending
<1>2. PICK y, z : Good(Head(agenda), Now, y) /\ Linked(Steps, Tail(agenda), y, z)
  BY <1>1, HeadFollows, AtHand
<1>3. Now.c = ctx /\ Now.lv = LevelTags /\ walking
  BY <1>1, AtHand
<1>4. PICK p \in Seq(Tag) : p = LevelTags
  BY LevelsTagged DEF WalkInv
<1>5. /\ p # <<>> /\ y = With(ctx, SubSeq(p, 1, Len(p) - 1), FALSE)
  BY <1>1, <1>2, <1>3, <1>4 DEF Good, With
<1>6. levels \in Seq(Level) /\ Len(p) = Len(levels) /\ \A i \in 1..Len(levels) : p[i] = LevelTag(i)
  BY <1>4, LevelsTagged DEF WalkInv, LevelsOK, Numbered
<1>7. levels # <<>>
  <2>1. Len(p) # 0
    BY <1>5
  <2>2. Len(levels) # 0
    BY <1>6, <2>1
  <2> QED
    BY <2>2
<1>8. PICK m \in Nat : m = Len(levels) - 1 /\ Len(levels) = m + 1
  <2>1. Len(levels) \in Nat /\ Len(levels) # 0
    BY <1>6, <1>7
  <2>2. Len(levels) - 1 \in Nat /\ Len(levels) = (Len(levels) - 1) + 1
    BY <2>1
  <2> QED
    BY <2>2
<1>9. Len(levels') = m /\ \A i \in 1..m : levels'[i] = levels[i]
  BY <1>1, <1>6, <1>7, <1>8, AllButLast
<1>10. PICK r \in Seq(Tag) : r = SubSeq(p, 1, Len(p) - 1)
  BY <1>5, AllButLast
<1>11. Len(r) = m /\ \A i \in 1..m : r[i] = p[i]
  BY <1>5, <1>6, <1>8, <1>10, AllButLast
<1>12. \A i \in 1..m : levels[i].id # 0
  BY <1>8 DEF Follows, OnlyLast
<1>13. LevelTags' = r
  <2>1. PICK q : q = LevelTags'
    OBVIOUS
  <2>2. /\ q \in Seq(Tag) /\ Len(q) = m /\ \A i \in 1..m : q[i] = LevelTag(i)'
    BY <1>9, <2>1, LevelsTaggedNext DEF WalkInv
  <2>3. \A i \in 1..m : LevelTag(i)' = LevelTag(i)
    BY <1>1, <1>9 DEF LevelTag
  <2>4. \A i \in 1..m : q[i] = r[i]
    <3>1. \A i \in 1..m : i \in 1..Len(levels)
      BY <1>8
    <3> QED
      BY <1>6, <1>11, <2>2, <2>3, <3>1
  <2>5. q = r
    BY <1>11, <2>2, <2>4, SameSeq
  <2> QED
    BY <2>1, <2>5
<1>14. OnlyLast' /\ Unsettled' = FALSE
  <2>1. OnlyLast'
    <3>1. \A i \in 1..m - 1 : i \in 1..m
      BY <1>8
    <3> QED
      BY <1>9, <1>12, <3>1 DEF OnlyLast
  <2>2. Unsettled' => levels'[m].id = 0 /\ m \in 1..m
    <3>1. CASE m = 0
      <4>1. levels' = <<>>
        <5>1. levels' \in Seq(Level)
          BY DEF WalkInv, LevelsOK, Numbered
        <5> QED
          BY <1>9, <3>1, <5>1
      <4> QED
        BY <4>1 DEF Unsettled
    <3>2. CASE m # 0
      BY <1>9, <3>2 DEF Unsettled
    <3> QED
      BY <3>1, <3>2
  <2>3. ~Unsettled'
    BY <1>9, <1>12, <2>2
  <2> QED
    BY <2>1, <2>3 DEF Unsettled
<1>15. Now' = y
  <2>1. Now' = With(ctx', LevelTags', Unsettled')
    BY DEF Now
  <2> QED
    BY <1>1, <1>5, <1>10, <1>13, <1>14, <2>1
<1>16. Grown /\ UNCHANGED <<program, at, walking>> /\ at # 0
  BY <1>1, <1>3 DEF Grown, WalkInv, CallsOK, NoCalls, Quiet, Follows
<1>17. PICK items \in Seq(Item) : items = <<>>
  BY NoItems
<1>18. Linked(Steps', items, y, y)
  BY <1>17, LinkedNone
<1> QED
  BY <1>1, <1>2, <1>3, <1>14, <1>15, <1>16, <1>17, <1>18, KeepsFollowing

\* Entering an arm gives it, and a case point above it, the row of the site in
\* force.
LEMMA ArmTags ==
    ASSUME WalkInv, WalkInv', OnlyLast, UNCHANGED ctx, NEW l \in Level, l.id = 0,
           Settle(Append(levels, l))
    PROVE  /\ LevelTags' = Append(LevelTags, <<l.node, l.arm, ctx.site>>)
           /\ OnlyLast' /\ Unsettled' = FALSE
<1>1. levels \in Seq(Level) /\ frames \in Seq(Frame) /\ frames' \in Seq(Frame)
      /\ levels' \in Seq(Level)
  BY DEF WalkInv, LevelsOK, Numbered
<1>2. PICK m \in Nat, f \in Nat : m = Len(levels) /\ f = Len(frames)
  <2>1. Len(levels) \in Nat /\ Len(frames) \in Nat
    BY <1>1
  <2> QED
    BY <2>1
<1>3. PICK lv \in Seq(Level) : lv = Append(levels, l)
  <2>1. Append(levels, l) \in Seq(Level)
    BY <1>1, WithLast
  <2> QED
    BY <2>1
<1>4. /\ Len(lv) = m + 1 /\ lv[m + 1] = l /\ \A i \in 1..m : lv[i] = levels[i]
  BY <1>1, <1>2, <1>3, WithLast
<1>5. Numbered(lv, f) /\ Settled(lv) = Settled(levels)
  <2>1. l.node \in Node /\ l.arm \in Nat /\ l = [node |-> l.node, arm |-> l.arm, id |-> 0]
    BY DEF Level
  <2> QED
    BY <1>2, <1>3, <2>1, LevelAdded DEF WalkInv
<1>6. PICK p \in Nat : p = Settled(lv) /\ p <= m + 1
  BY <1>4, SettledCounts
<1>7. \A i \in 1..m + 1 : /\ lv[i] \in Level /\ lv[i].id \in Nat /\ lv[i].id <= f
                          /\ (lv[i].id # 0 <=> i <= p)
  <2>1. \A i \in 1..m + 1 : lv[i] \in Level
    BY <1>4, ElementIn
  <2> QED
    BY <1>4, <1>5, <1>6, <2>1 DEF Numbered, Level
<1>8. /\ Len(levels') = m + 1
      /\ \A i \in 1..m + 1 : levels'[i] = [lv[i] EXCEPT !.id = IdOf(lv, i)]
  <2>1. levels' = [i \in 1..m + 1 |-> [lv[i] EXCEPT !.id = IdOf(lv, i)]]
    BY <1>3, <1>4 DEF Settle
  <2>2. m + 1 \in Nat
    OBVIOUS
  <2> QED
    BY <2>1, <2>2
<1>9. PICK d \in Nat : d = m + 1 - p
  BY <1>6
<1> DEFINE new == [k \in 1..(Len(lv) - Settled(lv)) |->
            LET i == Settled(lv) + k
            IN  [node |-> lv[i].node, arm |-> lv[i].arm, depth |-> i,
                 parent |-> IF i = 1 THEN 0 ELSE IdOf(lv, i - 1),
                 site |-> ctx.site]]
<1>10. new = [k \in 1..d |-> new[k]] /\ \A k \in 1..d : new[k].site = ctx.site
  <2>1. Len(lv) - Settled(lv) = d
    BY <1>4, <1>6, <1>9
  <2> QED
    BY <2>1
<1>11. frames' = frames \o new
  <2>1. Settle(lv)
    BY <1>3
  <2> QED
    BY <2>1 DEF Settle
<1> HIDE DEF new
<1>12. Len(new) = d /\ \A k \in 1..d : new[k].site = ctx.site
  BY <1>9, <1>10
<1>13. /\ \A k \in 1..f : frames'[k] = frames[k]
       /\ \A k \in f + 1..f + d : frames'[k] = new[k - f]
  <2>1. PICK S : S = {new[k] : k \in 1..d} \cup Frame
    OBVIOUS
  <2>2. new \in Seq(S)
    <3>1. \A k \in 1..d : new[k] \in S
      BY <2>1
    <3> QED
      BY <1>9, <1>10, <3>1, Listed
  <2>3. frames \in Seq(S)
    BY <1>1, <2>1, Widened
  <2> QED
    BY <1>2, <1>11, <1>12, <2>2, <2>3, Joined
<1>14. ASSUME NEW i \in 1..m + 1
       PROVE  /\ levels'[i].node = lv[i].node /\ levels'[i].arm = lv[i].arm
              /\ levels'[i].id = IdOf(lv, i)
  BY <1>7, <1>8 DEF Level
<1>15. ASSUME NEW i \in 1..m + 1
       PROVE  /\ IdOf(lv, i) # 0
              /\ frames'[IdOf(lv, i)].site = IF lv[i].id = 0 THEN ctx.site
                                             ELSE frames[lv[i].id].site
  <2>1. CASE lv[i].id # 0
    <3>1. IdOf(lv, i) = lv[i].id /\ lv[i].id \in 1..f
      BY <1>7, <2>1 DEF IdOf
    <3> QED
      BY <1>13, <2>1, <3>1
  <2>2. CASE lv[i].id = 0
    <3>1. ~(i <= p) /\ i \in Nat
      BY <1>7, <2>2
    <3>2. PICK k \in 1..d : i = p + k
      <4>1. i - p \in 1..d /\ i = p + (i - p)
        BY <1>9, <3>1
      <4> QED
        BY <4>1
    <3>3. IdOf(lv, i) = f + i - p
      BY <1>2, <1>6, <2>2 DEF IdOf
    <3>4. IdOf(lv, i) = f + k /\ f + k \in f + 1..f + d /\ (f + k) - f = k
      BY <1>9, <3>2, <3>3
    <3>5. frames'[f + k] = new[k]
      BY <1>13, <3>4
    <3>6. new[k].site = ctx.site
      BY <1>12
    <3>7. frames'[f + k].site = ctx.site
      BY <3>5, <3>6
    <3>8. f + k # 0
      BY <3>4
    <3> QED
      BY <2>2, <3>4, <3>7, <3>8
  <2> QED
    BY <2>1, <2>2
<1>16. \A i \in 1..m + 1 : levels'[i].id # 0
  BY <1>14, <1>15
<1>17. OnlyLast' /\ Unsettled' = FALSE
  <2>1. OnlyLast'
    <3>1. \A i \in 1..(m + 1) - 1 : i \in 1..m + 1
      OBVIOUS
    <3> QED
      BY <1>8, <1>16, <3>1 DEF OnlyLast
  <2>2. levels'[m + 1].id # 0
    BY <1>16
  <2> QED
    BY <1>8, <2>1, <2>2 DEF Unsettled
<1>18. ASSUME NEW i \in 1..m + 1
       PROVE  LevelTag(i)' = <<lv[i].node, lv[i].arm,
                               IF lv[i].id = 0 THEN ctx.site ELSE frames[lv[i].id].site>>
  <2>1. LevelTag(i)' = <<levels'[i].node, levels'[i].arm,
                         IF levels'[i].id = 0 THEN ctx'.site ELSE frames'[levels'[i].id].site>>
    BY DEF LevelTag
  <2>2. levels'[i].id = IdOf(lv, i) /\ levels'[i].id # 0
    BY <1>14, <1>16
  <2>3. PICK j : j = IdOf(lv, i)
    OBVIOUS
  <2>4. frames'[j].site = IF lv[i].id = 0 THEN ctx.site ELSE frames[lv[i].id].site
    BY <1>15, <2>3
  <2>5. levels'[i].id = j /\ j # 0
    BY <2>2, <2>3
  <2> QED
    BY <1>14, <2>1, <2>4, <2>5
<1>19. PICK a \in Seq(Tag), q \in Seq(Tag), tag \in Tag :
         a = LevelTags /\ q = LevelTags' /\ tag = <<l.node, l.arm, ctx.site>>
  <2>1. LevelTags \in Seq(Tag) /\ LevelTags' \in Seq(Tag)
    BY LevelsTagged, LevelsTaggedNext DEF WalkInv
  <2>2. ctx.site \in Nat /\ l.node \in Node /\ l.arm \in Nat
    BY DEF WalkInv, CtxOK, Context, Level
  <2>3. <<l.node, l.arm, ctx.site>> \in Tag
    BY <2>2 DEF Tag
  <2> QED
    BY <2>1, <2>3
<1>20. /\ Len(a) = m /\ \A i \in 1..m : a[i] = LevelTag(i)
       /\ Len(q) = m + 1 /\ \A i \in 1..m + 1 : q[i] = LevelTag(i)'
  BY <1>2, <1>8, <1>19, LevelsTagged, LevelsTaggedNext DEF WalkInv
<1>21. PICK r \in Seq(Tag) : r = Append(a, tag)
  <2>1. Append(a, tag) \in Seq(Tag)
    BY WithLast
  <2> QED
    BY <2>1
<1>22. Len(r) = m + 1 /\ r[m + 1] = tag /\ \A i \in 1..m : r[i] = a[i]
  BY <1>20, <1>21, WithLast
<1>23. ASSUME NEW i \in 1..m + 1 PROVE q[i] = r[i]
  <2>1. CASE i = m + 1
    <3>1. lv[i] = l
      BY <1>4, <2>1
    <3>2. q[i] = tag
      BY <1>18, <1>19, <1>20, <3>1
    <3> QED
      BY <1>22, <2>1, <3>2
  <2>2. CASE i # m + 1
    <3>1. i \in 1..m
      BY <2>2
    <3>2. lv[i] = levels[i]
      BY <1>4, <3>1
    <3>3. q[i] = LevelTag(i)
      BY <1>18, <1>20, <3>2 DEF LevelTag
    <3> QED
      BY <1>20, <1>22, <3>1, <3>3
  <2> QED
    BY <2>1, <2>2
<1>24. q = r
  BY <1>20, <1>22, <1>23, SameSeq
<1> QED
  BY <1>17, <1>19, <1>21, <1>24

LEMMA TwoItems ==
    ASSUME NEW R, NEW a \in Item, NEW b \in Item, NEW x, NEW y, NEW z,
           <<a, x, y>> \in R, <<b, y, z>> \in R
    PROVE  Linked(R, <<a, b>>, x, z) /\ <<a, b>> \in Seq(Item)
<1>1. Linked(R, <<a>>, x, y) /\ Linked(R, <<b>>, y, z)
  BY LinkedOne
<1>2. PICK p \in Seq(Item), q \in Seq(Item) : p = <<a>> /\ q = <<b>>
  <2>1. <<a>> \in Seq(Item) /\ <<b>> \in Seq(Item)
    OBVIOUS
  <2> QED
    BY <2>1
<1>3. Linked(R, p \o q, x, z)
  BY <1>1, <1>2, LinkedJoin
<1>4. p \o q = <<a, b>>
  <2>1. PICK r \in Seq(Item) : r = <<a, b>> /\ Len(r) = 2 /\ r[1] = a /\ r[2] = b
    <3>1. <<a, b>> \in Seq(Item)
      OBVIOUS
    <3> QED
      BY <3>1
  <2>2. PICK t \in Seq(Item) : t = p \o q
    <3>1. p \o q \in Seq(Item)
      OBVIOUS
    <3> QED
      BY <3>1
  <2>3. Len(p) = 1 /\ Len(q) = 1 /\ p[1] = a /\ q[1] = b
    BY <1>2
  <2>4. Len(t) = 2 /\ t[1] = p[1] /\ t[2] = q[1]
    <3>1. /\ Len(p \o q) = Len(p) + Len(q) /\ \A i \in 1..Len(p) : (p \o q)[i] = p[i]
          /\ \A i \in Len(p) + 1..Len(p) + Len(q) : (p \o q)[i] = q[i - Len(p)]
      BY Joined
    <3>2. 1 \in 1..1 /\ 2 \in 1 + 1..1 + 1 /\ 2 - 1 = 1 /\ 1 + 1 = 2
      OBVIOUS
    <3> QED
      BY <2>2, <2>3, <3>1, <3>2
  <2>5. \A i \in 1..Len(t) : t[i] = r[i]
    BY <2>1, <2>3, <2>4
  <2>6. t = r
    BY <2>1, <2>4, <2>5, SameSeq
  <2> QED
    BY <2>1, <2>2, <2>6
<1>5. <<a, b>> \in Seq(Item)
  OBVIOUS
<1> QED
  BY <1>3, <1>4, <1>5

LEMMA ArmFollows ==
    ASSUME WalkInv, WalkInv', Follows, EnterArm
    PROVE  Follows'
<1>1. /\ agenda # <<>> /\ Head(agenda).op = "arm" /\ NoCalls /\ Quiet /\ UNCHANGED ctx
  BY DEF EnterArm, Pending
<1>2. PICK n \in Node, k \in Nat :
        /\ n = Head(agenda).node /\ k = Head(agenda).arm /\ k \in 1..Len(Of(n).arms)
  <2>1. Head(agenda).node \in Node /\ Head(agenda).arm \in 1..Len(Of(Head(agenda).node).arms)
    BY <1>1, HeadIsItem DEF WalkInv, Fits
  <2> QED
    BY <2>1
<1>3. PICK l \in Level : l = [node |-> n, arm |-> k, id |-> 0]
  <2>1. [node |-> n, arm |-> k, id |-> 0] \in Level
    BY DEF Level
  <2> QED
    BY <2>1
<1>4. PICK v \in Node : v = Of(n).arms[k]
  BY <1>2, SyntaxOf, ElementIn DEF Syntax, WalkInv
<1>5. PICK a \in Item, o \in Item :
        /\ a = Do("visit", v) /\ o = Do("pop", n) /\ o.op = "pop" /\ o.node = n
  BY DoItem
<1>6. Settle(Append(levels, l)) /\ Replace(<<a, o>>)
  BY <1>2, <1>3, <1>4, <1>5 DEF EnterArm
<1>7. PICK y, z : Good(Head(agenda), Now, y) /\ Linked(Steps, Tail(agenda), y, z)
  BY <1>1, HeadFollows, AtHand
<1>8. Now.c = ctx /\ Now.lv = LevelTags /\ walking
  BY <1>1, AtHand
<1>9. PICK w : w = Within(Head(agenda), Now)
  OBVIOUS
<1>10. Sound(w) /\ Placed(v, w) /\ Sound(y) /\ y = With(ctx, LevelTags, FALSE)
  BY <1>1, <1>2, <1>4, <1>7, <1>8, <1>9 DEF Good, With
<1>11. PICK p \in Seq(Tag), q \in Seq(Tag), tag \in Tag :
         p = LevelTags /\ tag = <<n, k, ctx.site>> /\ q = Append(p, tag)
  <2>1. LevelTags \in Seq(Tag) /\ <<n, k, ctx.site>> \in Tag
    <3>1. ctx.site \in Nat
      BY DEF WalkInv, CtxOK, Context
    <3> QED
      BY <3>1, LevelsTagged DEF WalkInv, Tag
  <2>2. Append(LevelTags, <<n, k, ctx.site>>) \in Seq(Tag)
    BY <2>1, WithLast
  <2> QED
    BY <2>1, <2>2
<1>12. w = With(ctx, q, FALSE)
  BY <1>1, <1>2, <1>8, <1>9, <1>11 DEF Within, With
<1>13. OnlyLast' /\ Now' = w
  <2>1. /\ LevelTags' = Append(LevelTags, <<l.node, l.arm, ctx.site>>)
        /\ OnlyLast' /\ Unsettled' = FALSE
    BY <1>1, <1>3, <1>6, ArmTags DEF Follows
  <2>2. Now' = With(ctx', LevelTags', Unsettled')
    BY DEF Now
  <2> QED
    BY <1>1, <1>3, <1>11, <1>12, <2>1, <2>2
<1>14. w.c = ctx /\ w.lv = q /\ ~w.new
  BY <1>12 DEF With
<1>15. <<a, w, w>> \in Steps
  BY <1>5, <1>10, <1>14, VisitStep
<1>16. <<o, w, y>> \in Steps
  <2>1. q # <<>> /\ SubSeq(q, 1, Len(q) - 1) = p
    <3>1. PICK m \in Nat : m = Len(p)
      OBVIOUS
    <3>2. Len(q) = m + 1 /\ \A i \in 1..m : q[i] = p[i]
      BY <1>11, <3>1, WithLast
    <3>3. q # <<>> /\ Len(q) - 1 = m
      BY <3>2
    <3>4. PICK r \in Seq(Tag) : r = SubSeq(q, 1, Len(q) - 1)
      BY <3>3, AllButLast
    <3>5. Len(r) = m /\ \A i \in 1..m : r[i] = q[i]
      BY <3>3, <3>4, AllButLast
    <3>6. r = p
      <4>1. \A i \in 1..m : r[i] = p[i]
        BY <3>2, <3>5
      <4> QED
        BY <3>1, <3>5, <4>1, SameSeq
    <3> QED
      BY <3>3, <3>4, <3>6
  <2>2. y = [c |-> w.c, lv |-> SubSeq(w.lv, 1, Len(w.lv) - 1), new |-> FALSE]
    BY <1>10, <1>11, <1>14, <2>1 DEF With
  <2>3. Good(o, w, y)
    BY <1>5, <1>10, <1>14, <2>1, <2>2 DEF Good, Undoing
  <2> QED
    BY <2>3, StepIs
<1>17. Grown /\ UNCHANGED <<program, at, walking>> /\ at # 0
  BY <1>1, <1>8 DEF Grown, WalkInv, CallsOK, NoCalls, Quiet, Follows
<1>18. PICK R, Q : R = Steps /\ Q = Steps'
  OBVIOUS
<1>19. R \subseteq Q
  <2>1. at \in 1..Len(program.walks) /\ StartOK /\ CallsOK /\ StartOK' /\ CallsOK'
    BY <1>17 DEF WalkInv, StartOK
  <2> QED
    BY <1>17, <1>18, <2>1, StepsStay
<1>20. PICK items \in Seq(Item) : items = <<a, o>>
  <2>1. <<a, o>> \in Seq(Item)
    OBVIOUS
  <2> QED
    BY <2>1
<1>21. Linked(Q, items, w, y)
  <2>1. <<a, w, w>> \in Q /\ <<o, w, y>> \in Q
    BY <1>15, <1>16, <1>18, <1>19
  <2> QED
    BY <1>20, <2>1, TwoItems
<1>22. Linked(Steps', items, w, y)
  BY <1>18, <1>21
<1>23. Replace(items)
  BY <1>6, <1>20
<1> QED
  BY <1>1, <1>7, <1>8, <1>13, <1>17, <1>22, <1>23, KeepsFollowing

\* A call that is not expanded.
LEMMA GivenUpFollows ==
    ASSUME WalkInv, WalkInv', Follows, NEW n \in Node, Recursive(n) \/ OverBudget(n)
    PROVE  Follows'
<1>1. /\ Entering(n) /\ Allocate(n) /\ agenda # <<>> /\ Head(agenda).op = "enter"
      /\ Replace(<<>>) /\ NoLevels /\ Quiet /\ UNCHANGED ctx
  BY DEF Recursive, OverBudget, Entering, Pending
<1>2. Grown
  BY <1>1, Allocated
<1>3. PICK y, z : Good(Head(agenda), Now, y) /\ Linked(Steps, Tail(agenda), y, z)
  BY <1>1, HeadFollows, AtHand
<1>4. y = Now
  BY <1>1, <1>3 DEF Good
<1>5. OnlyLast' /\ Now' = Now
  BY <1>1, SamePlace DEF Follows, WalkInv
<1>6. UNCHANGED <<program, at, walking>> /\ at # 0 /\ walking
  BY <1>1, AtHand DEF Quiet, Follows
<1>7. PICK items \in Seq(Item) : items = <<>>
  BY NoItems
<1>8. Linked(Steps', items, y, y)
  BY <1>7, LinkedNone
<1>9. Replace(items)
  BY <1>1, <1>7
<1>10. PICK x : x = Now' /\ x = y
  BY <1>4, <1>5
<1>11. Linked(Steps', items, x, y)
  BY <1>8, <1>10
<1> QED
  BY <1>1, <1>2, <1>3, <1>5, <1>6, <1>9, <1>10, <1>11, KeepsFollowing

LEMMA SiteAdded ==
    ASSUME StartOK, CallsOK, StartOK', CallsOK', Grown, UNCHANGED <<program, at>>,
           at \in 1..Len(program.walks),
           NEW k, k = Len(sites) + 1, Len(sites') = k,
           NEW p \in 0..Len(sites), NEW n \in Node, NEW c,
           sites'[k].node = n, sites'[k].parent = p, sites'[k].callee = c
    PROVE  /\ k \in 1..Len(sites') /\ Callers(k)' = Callers(p) \cup {k}
           /\ NestAbove(k)' = NestAbove(p) \o Tagged(Around(n), p)
           /\ DelayAbove(at, k)' = IF DelayAround(n) # NoDelay THEN DelayAround(n)
                                   ELSE DelayAbove(at, p)
           /\ Outermost(k)' = (IF p = 0 THEN k ELSE Outermost(p))
           /\ CalleesAround(k)' = CalleesAround(p) \cup {c}
           /\ ForcedAbove(k)' = ForcedAbove(p) \cup ForceAround(n)
           /\ (HeadAbove(k)' <=> HeadAbove(p) \/ InHead(n))
           /\ \A m : IndicesIn(m, k)' = IndicesAround(m) \cup IndicesIn(n, p)
<1>1. k \in 1..Len(sites')
  BY SiteFacts
<1>2. PICK C : C = Callers(p) /\ C = Callers(p)'
  BY SitesStay
<1>3. Callers(k)' = C \cup {k}
  <2>1. SiteSums'
    BY SitesAddUpNext
  <2>2. \A q, m : q = sites'[k].parent /\ m = sites'[k].node
            => Callers(k)' = Callers(q)' \cup {k}
    BY <1>1, <2>1 DEF SiteSums
  <2> QED
    BY <1>2, <2>2
<1>4. \A i \in C : sites'[i] = sites[i] /\ i # k
  <2>1. Callers(p) \subseteq 1..Len(sites)
    <3>1. CASE p = 0
      BY <3>1, CallersFacts
    <3>2. CASE p # 0
      <4>1. p \in 1..Len(sites) /\ Callers(p) \subseteq 1..p
        BY <3>2, CallersFacts
      <4>2. Len(sites) \in Nat
        BY SiteFacts
      <4> QED
        BY <4>1, <4>2
    <3> QED
      BY <3>1, <3>2
  <2>2. Len(sites) \in Nat
    BY SiteFacts
  <2> QED
    BY <1>2, <2>1, <2>2 DEF Grown
<1>5. NestAbove(k)' = NestAbove(p) \o Tagged(Around(n), p)
  <2>1. SiteSums'
    BY SitesAddUpNext
  <2>2. \A q, m : q = sites'[k].parent /\ m = sites'[k].node
            => NestAbove(k)' = NestAbove(q)' \o Tagged(Around(m), q)'
    BY <1>1, <2>1 DEF SiteSums
  <2>3. NestAbove(k)' = NestAbove(p)' \o Tagged(Around(n), p)'
    BY <2>2
  <2>4. NestAbove(p)' = NestAbove(p) /\ Around(n)' = Around(n)
    BY SitesStay, SourceStays
  <2>5. Tagged(Around(n), p)' = Tagged(Around(n), p)
    BY <2>4 DEF Tagged
  <2> QED
    BY <2>3, <2>4, <2>5
<1>6. DelayAbove(at, k)' = IF DelayAround(n) # NoDelay THEN DelayAround(n)
                           ELSE DelayAbove(at, p)
  <2>1. SiteSums'
    BY SitesAddUpNext
  <2>2. PICK w \in 1..Len(program.walks) : w = at /\ w = at'
    OBVIOUS
  <2>3. \A q, m : q = sites'[k].parent /\ m = sites'[k].node
            => DelayAbove(w, k)' = IF DelayAround(m)' # NoDelay
                                   THEN DelayAround(m)' ELSE DelayAbove(w, q)'
    BY <1>1, <2>1 DEF SiteSums
  <2>4. DelayAbove(w, k)' = IF DelayAround(n)' # NoDelay
                            THEN DelayAround(n)' ELSE DelayAbove(w, p)'
    BY <2>3
  <2>5. DelayAround(n)' = DelayAround(n) /\ DelayAbove(w, p)' = DelayAbove(w, p)
    BY SitesStay, SourceStays
  <2>6. DelayAbove(at, k)' = DelayAbove(w, k)'
    BY <2>2
  <2> QED
    BY <2>2, <2>4, <2>5, <2>6
<1>7. Outermost(k)' = IF p = 0 THEN k ELSE Outermost(p)
  <2>1. \A q : q = sites'[k].parent
            => Outermost(k)' = IF q = 0 THEN k ELSE Outermost(q)'
    BY <1>1, CallersFactsNext
  <2>2. Outermost(k)' = IF p = 0 THEN k ELSE Outermost(p)'
    BY <2>1
  <2>3. p # 0 => Outermost(p)' = Outermost(p)
    BY SitesStay
  <2> QED
    BY <2>2, <2>3
<1>8. CalleesAround(k)' = CalleesAround(p) \cup {c}
  <2>1. CalleesAround(k)' = {sites'[i].callee : i \in C \cup {k}}
    BY <1>3 DEF CalleesAround
  <2>2. CalleesAround(p) = {sites[i].callee : i \in C}
    BY <1>2 DEF CalleesAround
  <2> QED
    BY <1>4, <2>1, <2>2
<1>9. \A m : /\ IndicesAround(m)' = IndicesAround(m) /\ ForceAround(m)' = ForceAround(m)
             /\ (InHead(m) <=> InHead(m)')
  BY SurroundingsStay
<1>10. ForcedAbove(k)' = ForcedAbove(p) \cup ForceAround(n)
  <2>1. ForcedAbove(p) = UNION {ForceAround(sites[i].node) : i \in C}
    BY <1>2 DEF ForcedAbove
  <2>2. ForcedAbove(k)' = UNION {ForceAround(sites[i].node)' : i \in C \cup {k}}
    BY <1>3 DEF ForcedAbove
  <2>3. \A i \in C : ForceAround(sites[i].node)' = ForceAround(sites[i].node)
    BY <1>4, <1>9
  <2>4. ForceAround(sites[k].node)' = ForceAround(n)
    BY <1>9
  <2> QED
    BY <2>1, <2>2, <2>3, <2>4
<1>11. HeadAbove(k)' <=> HeadAbove(p) \/ InHead(n)
  <2>1. HeadAbove(p) <=> \E i \in C : InHead(sites[i].node)
    BY <1>2 DEF HeadAbove
  <2>2. HeadAbove(k)' <=> \E i \in C \cup {k} : InHead(sites[i].node)'
    BY <1>3 DEF HeadAbove
  <2>3. \A i \in C : InHead(sites[i].node)' <=> InHead(sites[i].node)
    BY <1>4, <1>9
  <2>4. InHead(sites[k].node)' <=> InHead(n)
    BY <1>9
  <2> QED
    BY <2>1, <2>2, <2>3, <2>4
<1>12. ASSUME NEW m PROVE IndicesIn(m, k)' = IndicesAround(m) \cup IndicesIn(n, p)
  <2>1. IndicesIn(n, p) = IndicesAround(n) \cup UNION {IndicesAround(sites[i].node) : i \in C}
    BY <1>2 DEF IndicesIn
  <2>2. IndicesIn(m, k)' = IndicesAround(m)'
                   \cup UNION {IndicesAround(sites[i].node)' : i \in C \cup {k}}
    BY <1>3 DEF IndicesIn
  <2>3. \A i \in C : IndicesAround(sites[i].node)' = IndicesAround(sites[i].node)
    BY <1>4, <1>9
  <2>4. IndicesAround(sites[k].node)' = IndicesAround(n)
    BY <1>9
  <2>5. IndicesAround(m)' = IndicesAround(m)
    BY <1>9
  <2> QED
    BY <2>1, <2>2, <2>3, <2>4, <2>5
<1> QED
  BY <1>1, <1>2, <1>3, <1>5, <1>6, <1>7, <1>8, <1>10, <1>11, <1>12

LEMMA SoundNext ==
    ASSUME NEW x, x \in Affairs, x.c.site \in 0..Len(sites'),
           x.c.site # 0 => Root(sites[Outermost(x.c.site)].node)' = program.walks[at].top',
           x.c.active = CalleesAround(x.c.site)',
           x.c.sub = IF x.c.site = 0 THEN 0 ELSE sites'[x.c.site].callee
    PROVE  Sound(x)'
  BY DEF Sound

LEMMA ExpandFollows ==
    ASSUME WalkInv, WalkInv', Follows, NEW n \in Node, Expand(n)
    PROVE  Follows'
<1>1. /\ Entering(n) /\ Allocate(n) /\ agenda # <<>> /\ Head(agenda).op = "enter"
      /\ Head(agenda).node = n /\ NoLevels /\ Quiet
      /\ Of(n).callee \notin ctx.active
      /\ Replace(<<Do("visit", Of(n).callee), Undo("leave", n)>>)
      /\ ctx' = [ctx EXCEPT !.site = Len(sites) + 1, !.depth = @ + 1,
                            !.active = @ \cup {Of(n).callee}, !.sub = Of(n).callee]
  BY DEF Expand, Entering, Pending
<1>2. /\ Grown /\ Len(sites') = Len(sites) + 1
      /\ sites'[Len(sites) + 1].parent = ctx.site
  BY <1>1, Allocated
<1>3. /\ StartOK /\ CallsOK /\ CtxOK /\ StartOK' /\ CallsOK' /\ UNCHANGED <<program, at>>
      /\ LevelsOK /\ OnlyLast /\ CtxOK'
  BY <1>1 DEF WalkInv, Quiet, Follows
<1>4. PICK k \in Nat : k = Len(sites) + 1 /\ Len(sites') = k /\ k # 0
  <2>1. Len(sites) \in Nat
    BY <1>3, SiteFacts
  <2>2. Len(sites) + 1 \in Nat /\ Len(sites) + 1 # 0
    BY <2>1
  <2> QED
    BY <1>2, <2>2
<1>5. PICK c \in Node : c = Of(n).callee
  BY <1>1, <1>3, HeadIsItem DEF Fits, WalkInv
<1>6. PICK p \in 0..Len(sites) : p = ctx.site
  BY <1>3 DEF CtxOK
<1>7. sites'[k].node = n /\ sites'[k].parent = p /\ sites'[k].callee = c
  <2>1. PICK o : sites' = Append(sites, Opened(n, o))
    BY <1>1 DEF Allocate
  <2>2. sites'[k] = Opened(n, o)
    BY <1>3, <1>4, <2>1, SiteFacts
  <2> QED
    BY <1>5, <1>6, <2>2 DEF Opened
<1>8. PICK y, z : Good(Head(agenda), Now, y) /\ Linked(Steps, Tail(agenda), y, z)
  BY <1>1, HeadFollows, AtHand
<1>9. /\ walking /\ at # 0 /\ ~Unsettled /\ Sound(Now) /\ Placed(n, Now)
      /\ Now.c = ctx /\ Now.lv = LevelTags /\ y = Now /\ Of(n).kind = "call"
  BY <1>1, <1>8, AtHand DEF Good, Follows
<1>10. PICK x : x = Now
  OBVIOUS
<1>11. /\ Sound(x) /\ Placed(n, x) /\ x.c = ctx /\ x.lv = LevelTags /\ y = x
       /\ x = With(ctx, LevelTags, FALSE)
  BY <1>9, <1>10 DEF Now, Unsettled
<1>12. at \in 1..Len(program.walks)
  BY <1>3, <1>9 DEF StartOK
<1>13. /\ k \in 1..Len(sites')
       /\ NestAbove(k)' = NestAbove(p) \o Tagged(Around(n), p)
       /\ DelayAbove(at, k)' = IF DelayAround(n) # NoDelay THEN DelayAround(n)
                               ELSE DelayAbove(at, p)
       /\ Outermost(k)' = (IF p = 0 THEN k ELSE Outermost(p))
       /\ CalleesAround(k)' = CalleesAround(p) \cup {c}
       /\ ForcedAbove(k)' = ForcedAbove(p) \cup ForceAround(n)
       /\ (HeadAbove(k)' <=> HeadAbove(p) \/ InHead(n))
       /\ \A m : IndicesIn(m, k)' = IndicesAround(m) \cup IndicesIn(n, p)
  <2>1. StartOK /\ CallsOK /\ StartOK' /\ CallsOK' /\ Grown /\ UNCHANGED <<program, at>>
    BY <1>2, <1>3
  <2>2. k = Len(sites) + 1 /\ Len(sites') = k
    BY <1>4
  <2> QED
    BY <1>7, <1>12, <2>1, <2>2, SiteAdded, SMTT(60)
<1>14. PICK d : d = ctx'
  OBVIOUS
<1>15. /\ d \in Context /\ d.site = k /\ d.active = ctx.active \cup {c} /\ d.sub = c
       /\ d.delay = ctx.delay /\ d.indices = ctx.indices /\ d.word = ctx.word
       /\ d.bindable = ctx.bindable /\ d.depth = ctx.depth + 1
  <2>1. d \in Context
    BY <1>3, <1>14 DEF CtxOK
  <2>2. d = [ctx EXCEPT !.site = k, !.depth = @ + 1, !.active = @ \cup {c}, !.sub = c]
    BY <1>1, <1>4, <1>5, <1>14
  <2>3. ctx \in Context
    BY <1>3 DEF CtxOK
  <2> QED
    BY <2>1, <2>2, <2>3 DEF Context
<1>16. PICK lv \in Seq(Tag) : lv = LevelTags
  BY <1>3, LevelsTagged
<1>17. PICK w \in Affairs : /\ w = With(d, lv, FALSE) /\ w.c = d /\ w.lv = lv /\ ~w.new
  <2>1. With(d, lv, FALSE) \in Affairs
    BY <1>15, WithTyped
  <2> QED
    BY <1>15, <2>1, WithTyped
<1>18. Now' = w /\ OnlyLast'
  <2>1. Now' = With(ctx', LevelTags, Unsettled) /\ OnlyLast'
    BY <1>1, <1>3, <1>9, NowStays
  <2>2. Unsettled = FALSE
    BY <1>9 DEF Unsettled
  <2> QED
    BY <1>14, <1>16, <1>17, <2>1, <2>2
<1>19. Sound(w)'
  <2>1. w.c.site = k /\ w.c.site # 0 /\ w.c.site \in 0..Len(sites')
    <3>1. k \in 0..Len(sites')
      BY <1>4
    <3> QED
      BY <1>4, <1>15, <1>17, <3>1
  <2>2. w.c.active = CalleesAround(k)'
    BY <1>6, <1>11, <1>13, <1>15, <1>17 DEF Sound
  <2>3. w.c.sub = sites'[k].callee
    BY <1>7, <1>15, <1>17
  <2>4. Root(sites[Outermost(k)].node)' = program.walks[at].top
    <3>1. CASE p = 0
      <4>1. Outermost(k)' = k
        BY <1>13, <3>1
      <4>2. Root(n)' = Root(n)
        BY <1>3, SourceStays
      <4>3. Root(n) = program.walks[at].top
        BY <1>6, <1>11, <3>1 DEF Placed, TopOf
      <4> QED
        BY <1>7, <4>1, <4>2, <4>3
    <3>2. CASE p # 0
      <4>1. PICK o : o = Outermost(p) /\ o = Outermost(k)'
        BY <1>13, <3>2
      <4>2. o \in 1..Len(sites)
        <5>1. p \in 1..Len(sites) /\ Len(sites) \in Nat
          BY <1>3, <3>2, SiteFacts
        <5>2. Outermost(p) \in Callers(p) /\ Callers(p) \subseteq 1..p
          BY <1>3, <5>1, CallersFacts
        <5> QED
          BY <4>1, <5>1, <5>2
      <4>3. PICK q : q = sites[o].node /\ q = sites'[o].node
        BY <1>2, <4>2 DEF Grown
      <4>4. Root(q)' = Root(q)
        BY <1>3, SourceStays
      <4>5. Root(q) = program.walks[at].top
        BY <1>6, <1>11, <3>2, <4>1, <4>3 DEF Sound
      <4> QED
        BY <4>1, <4>3, <4>4, <4>5
    <3> QED
      BY <3>1, <3>2
  <2>5. program.walks[at].top' = program.walks[at].top
    BY <1>3
  <2>6. Root(sites[Outermost(w.c.site)].node)' = program.walks[at].top'
    BY <2>1, <2>4, <2>5
  <2> QED
    BY <2>1, <2>2, <2>3, <2>6, SoundNext
<1>20. Placed(c, w)'
  <2>1. c \in Bodies(program)
    <3>1. n \in {m \in Node : program.syntax[m].kind = "call"}
      BY <1>9 DEF Of
    <3> QED
      BY <1>5, <3>1 DEF Bodies, Of
  <2>2. /\ Root(c) = c /\ DelayAround(c) = NoDelay /\ IndicesAround(c) = {}
        /\ ForceAround(c) = {} /\ Around(c) = <<>> /\ ~InHead(c)
    BY <1>3, <2>1, AroundBody DEF StartOK
  <2>3. /\ Root(c)' = c /\ DelayAround(c)' = NoDelay /\ Around(c)' = <<>>
        /\ ForceAround(c)' = {} /\ ~InHead(c)'
    BY <1>3, <2>2, SourceStays, SurroundingsStay
  <2>4. w.c.site = k /\ k # 0
    BY <1>4, <1>15, <1>17
  <2>5. Root(c)' = TopOf(k)'
    BY <1>7, <2>3, <2>4 DEF TopOf
  <2>6. w.c.delay = DelayAbove(at, k)'
    BY <1>6, <1>11, <1>13, <1>15, <1>17 DEF Placed
  <2>7. w.c.indices = IndicesIn(c, k)'
    <3>1. IndicesIn(c, k)' = IndicesAround(c) \cup IndicesIn(n, p)
      BY <1>13
    <3>2. w.c.indices = IndicesIn(n, p)
      BY <1>6, <1>11, <1>15, <1>17 DEF Placed
    <3> QED
      BY <2>2, <3>1, <3>2
  <2>8. ForceAround(c)' \cup ForcedAbove(k)' = {} => w.c.word = "own"
    BY <1>6, <1>11, <1>13, <1>15, <1>17, <2>3 DEF Placed
  <2>9. ~InHead(c)' /\ ~HeadAbove(k)' => w.c.bindable
    BY <1>6, <1>11, <1>13, <1>15, <1>17, <2>3 DEF Placed
  <2>10. w.lv = NestAbove(k)' \o Tagged(Around(c), k)'
    <3>1. PICK ab : ab = NestAbove(k)'
      OBVIOUS
    <3>2. ab = lv
      BY <1>6, <1>11, <1>13, <1>16, <3>1 DEF Placed
    <3>3. Tagged(Around(c), k)' = <<>>
      BY <2>3 DEF Tagged
    <3>4. lv \o <<>> = lv
      OBVIOUS
    <3> QED
      BY <1>17, <3>1, <3>2, <3>3, <3>4
  <2>11. \A s : s = k => s = w.c.site
    BY <2>4
  <2> QED
    BY <2>3, <2>4, <2>5, <2>6, <2>7, <2>8, <2>9, <2>10 DEF Placed
<1>21. PICK a \in Item, o \in Item :
         /\ a = Do("visit", c) /\ o = Undo("leave", n) /\ a.op = "visit" /\ a.node = c
         /\ o.op = "leave" /\ o.node = n /\ o.ctx = ctx
  BY <1>3, DoItem, UndoItem DEF Undoing
<1>22. <<a, w, w>> \in Steps'
  <2>1. Good(a, w, w)'
    BY <1>17, <1>19, <1>20, <1>21 DEF Good, Undoing
  <2> QED
    BY <2>1, StepIsNext
<1>23. Sound(x)'
  BY <1>2, <1>3, <1>11, SoundStays
<1>24. x = [c |-> Restored(o, w.c), lv |-> w.lv, new |-> FALSE]'
  <2>1. Of(n)' = Of(n)
    BY <1>3 DEF Of
  <2>2. Restored(o, w.c)' = [d EXCEPT !.site = ctx.site, !.sub = ctx.sub, !.depth = @ - 1,
                                      !.active = @ \ {c}]
    BY <1>5, <1>17, <1>21, <2>1 DEF Restored
  <2>3. PICK e : e = Restored(o, w.c)'
    OBVIOUS
  <2>4. PICK g : g = ctx /\ g \in Context
    BY <1>3 DEF CtxOK
  <2>5. (d.active) \ {c} = g.active
    BY <1>1, <1>5, <1>15, <2>4
  <2>6. d.depth - 1 = g.depth
    BY <1>15, <2>4 DEF Context
  <2>7. e = [d EXCEPT !.site = g.site, !.sub = g.sub, !.depth = g.depth, !.active = g.active]
    BY <2>2, <2>3, <2>4, <2>5, <2>6
  <2>8. e = g
    BY <1>15, <2>4, <2>7 DEF Context
  <2> QED
    BY <1>11, <1>16, <1>17, <2>3, <2>4, <2>8 DEF With
<1>25. <<o, w, x>> \in Steps'
  <2>1. Good(o, w, x)'
    BY <1>17, <1>19, <1>21, <1>23, <1>24 DEF Good, Undoing
  <2> QED
    BY <2>1, StepIsNext
<1>26. PICK items \in Seq(Item) : items = <<a, o>>
  <2>1. <<a, o>> \in Seq(Item)
    OBVIOUS
  <2> QED
    BY <2>1
<1>27. Linked(Steps', items, w, x)
  BY <1>22, <1>25, <1>26, TwoItems
<1>28. Replace(items) /\ UNCHANGED <<program, at, walking>>
  BY <1>1, <1>5, <1>21, <1>26 DEF Quiet
<1>29. Linked(Steps, Tail(agenda), x, z)
  BY <1>8, <1>11
<1>30. PICK v : v = Now' /\ v = w
  BY <1>18
<1>31. Linked(Steps', items, v, x)
  BY <1>27, <1>30
<1> QED
  BY <1>1, <1>2, <1>9, <1>18, <1>28, <1>29, <1>30, <1>31, KeepsFollowing

LEMMA LeaveFollows ==
    ASSUME WalkInv, WalkInv', Follows, LeaveCall
    PROVE  Follows'
<1>1. /\ agenda # <<>> /\ Head(agenda).op = "leave" /\ Replace(<<>>)
      /\ NoLevels /\ NoCalls /\ Quiet /\ ctx' = Restored(Head(agenda), ctx)
  BY DEF LeaveCall, Pending, Restored
<1>2. PICK y, z : Good(Head(agenda), Now, y) /\ Linked(Steps, Tail(agenda), y, z)
  BY <1>1, HeadFollows, AtHand
<1>3. Now.c = ctx /\ Now.lv = LevelTags /\ walking /\ ~Unsettled
  BY <1>1, AtHand DEF Undoing
<1>4. y = With(ctx', LevelTags, FALSE)
  BY <1>1, <1>2, <1>3 DEF Good, With, Undoing
<1>5. Now' = y /\ OnlyLast'
  <2>1. Now' = With(ctx', LevelTags, Unsettled) /\ OnlyLast'
    BY <1>1, <1>3, NowStays DEF WalkInv, Follows
  <2>2. Unsettled = FALSE
    BY <1>3 DEF Unsettled
  <2> QED
    BY <1>4, <2>1, <2>2
<1>6. Grown /\ UNCHANGED <<program, at, walking>> /\ at # 0
  BY <1>1, <1>3 DEF Grown, WalkInv, CallsOK, NoCalls, Quiet, Follows
<1>7. PICK items \in Seq(Item) : items = <<>>
  BY NoItems
<1>8. Linked(Steps', items, y, y)
  BY <1>7, LinkedNone
<1> QED
  BY <1>1, <1>2, <1>3, <1>5, <1>6, <1>7, <1>8, KeepsFollowing

LEMMA StartFollows ==
    ASSUME WalkInv, WalkInv', Follows, StartWalk
    PROVE  Follows'
<1>1. /\ ~walking /\ agenda = <<>> /\ at' = at + 1 /\ at' \in 1..Len(program.walks)
      /\ levels' = <<>> /\ sites' = sites /\ UNCHANGED program
  <2>1. ~walking /\ at < Len(program.walks) /\ at' = at + 1 /\ levels' = <<>>
        /\ sites' = sites /\ UNCHANGED program
    BY DEF StartWalk, NoCalls
  <2>2. at \in Nat /\ Len(program.walks) \in Nat
    BY SyntaxOf, ProgramTyped DEF WalkInv, StartOK, Programs
  <2> QED
    BY <2>1, <2>2 DEF WalkInv, IdleOK
<1>2. StartOK /\ CallsOK /\ StartOK' /\ CallsOK' /\ LevelsOK' /\ CtxOK'
  BY DEF WalkInv
<1>3. ctx.site = 0
  BY <1>1, NoSiteBetween
<1>4. PICK v \in 1..Len(program.walks) : v = at'
  BY <1>1
<1>5. PICK t \in Node, d \in Delay \cup {NoDelay} :
        t = program.walks[v].top /\ d = program.walks[v].delay
  BY <1>2, WalkTyped
<1>6. /\ ctx' = [Outer EXCEPT !.site = 0, !.delay = d]
      /\ agenda' = <<Do("visit", t)>>
  BY <1>1, <1>3, <1>4, <1>5 DEF StartWalk
<1>7. PICK c : c = ctx'
  OBVIOUS
<1>8. /\ c \in Context /\ c.site = 0 /\ c.active = {} /\ c.sub = 0 /\ c.delay = d
      /\ c.indices = {} /\ c.word = "own" /\ c.bindable
  <2>1. c \in Context
    BY <1>2, <1>7 DEF CtxOK
  <2> QED
    BY <1>6, <1>7, <2>1 DEF Outer, Context
<1>9. PICK lv \in Seq(Tag) : lv = LevelTags' /\ lv = <<>>
  <2>1. LevelTags' \in Seq(Tag) /\ Len(LevelTags') = Len(levels')
    BY <1>2, LevelsTaggedNext
  <2>2. Len(levels') = 0
    BY <1>1
  <2>3. PICK q \in Seq(Tag) : q = LevelTags'
    BY <2>1
  <2>4. q = <<>>
    <3>1. Len(q) = 0
      BY <2>1, <2>2, <2>3
    <3> QED
      BY <3>1
  <2> QED
    BY <2>3, <2>4
<1>10. PICK x \in Affairs : /\ x = With(c, lv, FALSE) /\ x.c = c /\ x.lv = lv /\ ~x.new
  <2>1. With(c, lv, FALSE) \in Affairs
    BY <1>8, WithTyped
  <2> QED
    BY <1>8, <2>1, WithTyped
<1>11. Now' = x /\ OnlyLast'
  <2>1. Unsettled' = FALSE
    BY <1>1 DEF Unsettled
  <2>2. Now' = With(ctx', LevelTags', Unsettled')
    BY DEF Now
  <2>3. OnlyLast'
    <3>1. Len(levels') = 0 /\ 1..0 - 1 = {}
      BY <1>1
    <3> QED
      BY <3>1 DEF OnlyLast
  <2> QED
    BY <1>7, <1>9, <1>10, <2>1, <2>2, <2>3
<1>12. SiteSums'
  BY <1>2, SitesAddUpNext
<1>13. /\ Callers(0)' = {} /\ NestAbove(0)' = <<>>
       /\ DelayAbove(v, 0)' = program.walks[v].delay
  <2>1. Callers(0)' = {} /\ NestAbove(0)' = <<>>
    BY <1>12 DEF SiteSums
  <2>2. \A w \in 1..Len(program'.walks) : DelayAbove(w, 0)' = program'.walks[w].delay
    BY <1>12 DEF SiteSums
  <2> QED
    BY <1>1, <2>1, <2>2
<1>14. Sound(x)'
  <2>1. x.c.active = CalleesAround(0)'
    BY <1>8, <1>10, <1>13 DEF CalleesAround
  <2>2. x.c.site = 0 /\ 0 \in 0..Len(sites')
    <3>1. Len(sites) \in Nat
      BY <1>2, SiteFacts
    <3>2. Len(sites') \in Nat
      BY <1>1, <3>1
    <3>3. 0 \in 0..Len(sites')
      BY <3>2
    <3> QED
      BY <1>8, <1>10, <3>3
  <2> QED
    BY <1>8, <1>10, <2>1, <2>2, SoundNext
<1>15. Placed(t, x)'
  <2>1. t \in Bodies(program)
    <3>1. v \in DOMAIN program.walks
      <4>1. program.walks \in Seq(Walk)
        BY <1>2, SyntaxOf, ProgramTyped DEF StartOK, Programs
      <4> QED
        BY <4>1
    <3> QED
      BY <1>5, <3>1 DEF Bodies
  <2>2. /\ Root(t) = t /\ DelayAround(t) = NoDelay /\ IndicesAround(t) = {}
        /\ ForceAround(t) = {} /\ Around(t) = <<>> /\ ~InHead(t)
    BY <1>2, <2>1, AroundBody DEF StartOK
  <2>3. /\ Root(t)' = t /\ DelayAround(t)' = NoDelay /\ Around(t)' = <<>>
        /\ ForceAround(t)' = {} /\ ~InHead(t)' /\ IndicesAround(t)' = {}
    BY <1>1, <2>2, SourceStays, SurroundingsStay
  <2>4. x.c.site = 0
    BY <1>8, <1>10
  <2>5. Root(t)' = TopOf(0)'
    BY <1>1, <1>4, <1>5, <2>3 DEF TopOf
  <2>6. x.c.delay = DelayAbove(at, 0)'
    BY <1>4, <1>5, <1>8, <1>10, <1>13
  <2>7. x.c.indices = IndicesIn(t, 0)'
    BY <1>8, <1>10, <1>13, <2>3 DEF IndicesIn
  <2>8. x.lv = NestAbove(0)' \o Tagged(Around(t), 0)'
    <3>1. Tagged(Around(t), 0)' = <<>>
      BY <2>3 DEF Tagged
    <3>2. <<>> \o <<>> = <<>>
      OBVIOUS
    <3> QED
      BY <1>9, <1>10, <1>13, <3>1, <3>2
  <2> QED
    BY <1>8, <1>10, <2>3, <2>4, <2>5, <2>6, <2>7, <2>8 DEF Placed
<1>16. PICK a \in Item : a = Do("visit", t) /\ a.op = "visit" /\ a.node = t
  BY DoItem
<1>17. <<a, x, x>> \in Steps'
  <2>1. Good(a, x, x)'
    BY <1>10, <1>14, <1>15, <1>16 DEF Good, Undoing
  <2> QED
    BY <2>1, StepIsNext
<1>18. Linked(Steps', agenda', x, x)
  BY <1>6, <1>16, <1>17, LinkedOne
<1>19. at' # 0
  BY <1>1
<1> QED
  BY <1>11, <1>18, <1>19 DEF Follows

LEMMA IdleFollows ==
    ASSUME WalkInv, WalkInv', Follows, EndWalk \/ UNCHANGED vars
    PROVE  Follows'
<1>1. CASE EndWalk
  <2>1. ~walking' /\ UNCHANGED <<levels, frames>>
    BY <1>1 DEF EndWalk, NoLevels
  <2> QED
    BY <2>1 DEF Follows, OnlyLast
<1>2. CASE UNCHANGED vars
  <2>3. UNCHANGED <<program, at, walking, agenda, ctx, levels, frames, sites>>
    BY <1>2 DEF vars, walkVars, buildVars, tables
  <2>1. CASE ~walking
    BY <2>1, <2>3 DEF Follows, OnlyLast
  <2>2. CASE walking
    <3>1. PICK z : Linked(Steps, agenda, Now, z)
      BY <2>2 DEF Follows
    <3>2. /\ UNCHANGED <<program, at, walking, agenda, ctx, levels, frames, sites>>
          /\ at # 0
      BY <2>2, <2>3 DEF Follows
    <3>3. PICK R, Q : R = Steps /\ Q = Steps'
      OBVIOUS
    <3>4. R \subseteq Q
      <4>1. at \in 1..Len(program.walks) /\ StartOK /\ CallsOK /\ StartOK' /\ CallsOK'
        BY <3>2 DEF WalkInv, StartOK
      <4>2. Grown
        BY <3>2 DEF Grown, WalkInv, CallsOK
      <4> QED
        BY <3>2, <3>3, <4>1, <4>2, StepsStay
    <3>5. PICK l \in Seq(Item) : l = agenda
      BY Widened DEF WalkInv, AgendaOK, Fitting
    <3>6. PICK x : x = Now
      OBVIOUS
    <3>7. Linked(Q, l, x, z)
      <4>1. Linked(R, l, x, z)
        BY <3>1, <3>3, <3>5, <3>6
      <4> QED
        BY <3>4, <4>1, LinkedStill
    <3>8. Now' = x /\ OnlyLast'
      <4>1. NoLevels /\ UNCHANGED ctx
        BY <3>2 DEF NoLevels
      <4> QED
        BY <3>6, <4>1, SamePlace DEF Follows, WalkInv
    <3>9. Linked(Steps', agenda', Now', z)
      BY <3>2, <3>3, <3>5, <3>7, <3>8
    <3> QED
      BY <3>2, <3>8, <3>9 DEF Follows
  <2> QED
    BY <2>1, <2>2
<1> QED
  BY <1>1, <1>2

LEMMA FollowInit == Init => Follows
  BY DEF Init, Follows, OnlyLast

LEMMA FollowStep == WalkInv /\ WalkInv' /\ Follows /\ [Next]_vars => Follows'
<1> SUFFICES ASSUME WalkInv, WalkInv', Follows, [Next]_vars PROVE Follows'
  OBVIOUS
<1>1. CASE StartWalk
  BY <1>1, StartFollows
<1>2. CASE EndWalk \/ UNCHANGED vars
  BY <1>2, IdleFollows
<1>3. CASE Finished
  BY <1>3, IdleFollows DEF Finished
<1>4. ASSUME NEW n \in Node, Handle(n) PROVE Follows'
  BY <1>4, StatementsFollow, ConstructsFollow, GivenUpFollows, ExpandFollows DEF Handle
<1>5. CASE Resume
  BY <1>5, PointFollows, ArmFollows, PopFollows, UndoFollows, LeaveFollows DEF Resume
<1> QED
  BY <1>1, <1>2, <1>3, <1>4, <1>5 DEF Next

(***************************************************************************)
(* The budget.                                                             *)
(***************************************************************************)
Paid ==
    /\ budget = Budget - Cardinality(Expanded)
    /\ truncated = Cardinality(Fresh \ Expanded)
    /\ budget > 0 => Expanded = Fresh

LEMMA FreshFinite ==
    ASSUME CallsOK
    PROVE  /\ IsFiniteSet(Fresh) /\ IsFiniteSet(Expanded) /\ IsFiniteSet(Fresh \ Expanded)
           /\ Cardinality(Fresh) \in Nat /\ Cardinality(Expanded) \in Nat
           /\ Expanded \subseteq Fresh /\ Fresh \subseteq 1..Len(sites)
<1>1. PICK m \in Nat : m = Len(sites)
  BY SiteFacts
<1>2. IsFiniteSet(1..m)
  <2>1. 1 \in Int /\ m \in Int
    OBVIOUS
  <2> QED
    BY <2>1, FS_Interval
<1>3. Fresh \subseteq 1..m /\ Expanded \subseteq Fresh
  BY <1>1 DEF Fresh, Expanded
<1>4. IsFiniteSet(Fresh)
  BY <1>2, <1>3, FS_Subset
<1>5. IsFiniteSet(Expanded) /\ IsFiniteSet(Fresh \ Expanded)
  <2>1. Fresh \ Expanded \subseteq Fresh
    OBVIOUS
  <2> QED
    BY <1>3, <1>4, <2>1, FS_Subset
<1> QED
  BY <1>1, <1>3, <1>4, <1>5, FS_CardinalityType

\* A site that was there recurses if it did.
LEMMA RecursesStays ==
    ASSUME StartOK, CallsOK, StartOK', CallsOK', Grown, UNCHANGED program,
           NEW s \in 1..Len(sites)
    PROVE  Recurses(s)' <=> Recurses(s)
<1>1. sites'[s] = sites[s]
  BY DEF Grown
<1>2. PICK p \in 0..Len(sites) : p = sites[s].parent /\ p = sites'[s].parent
  <2>1. sites[s].parent \in 0..s - 1 /\ Len(sites) \in Nat
    BY SiteFacts
  <2>2. sites[s].parent \in 0..Len(sites)
    BY <2>1
  <2> QED
    BY <1>1, <2>2
<1>3. PICK c : c = sites[s].callee /\ c = sites'[s].callee
  BY <1>1
<1>4. CalleesAround(p)' = CalleesAround(p)
  BY AroundSitesStays
<1>5. Recurses(s) <=> c \in CalleesAround(p)
  BY <1>2, <1>3 DEF Recurses, CalleesAround
<1>6. Recurses(s)' <=> c \in CalleesAround(p)'
  <2>1. \A q : q = sites[s]'.parent
                 => (Recurses(s)' <=> \E i \in Callers(q)' : sites'[i].callee = sites'[s].callee)
    BY DEF Recurses
  <2>2. Recurses(s)' <=> \E i \in Callers(p)' : sites'[i].callee = c
    BY <1>2, <1>3, <2>1
  <2> QED
    BY <2>2 DEF CalleesAround
<1> QED
  BY <1>4, <1>5, <1>6

\* A new site is paid for if it enters a subroutine it is not inside already and
\* the budget is not spent.
LEMMA FreshAdded ==
    ASSUME WalkInv, WalkInv', Follows, NEW n \in Node, Entering(n), Allocate(n), Quiet
    PROVE  LET k == Len(sites) + 1 IN
           /\ k \notin Fresh
           /\ Fresh' = IF Of(n).callee \in ctx.active THEN Fresh ELSE Fresh \cup {k}
           /\ Expanded' = IF Of(n).callee \notin ctx.active
                             /\ Cardinality(Fresh) + 1 <= Budget
                          THEN Expanded \cup {k} ELSE Expanded
<1>1. /\ Grown /\ Len(sites') = Len(sites) + 1
      /\ sites'[Len(sites) + 1].parent = ctx.site
  BY Allocated
<1>2. /\ StartOK /\ CallsOK /\ StartOK' /\ CallsOK' /\ UNCHANGED program
      /\ agenda # <<>> /\ ctx.site \in 0..Len(sites)
  BY DEF WalkInv, Entering, Pending, CtxOK, Quiet
<1>3. PICK m \in Nat, k \in Nat : m = Len(sites) /\ k = m + 1 /\ k = Len(sites')
  <2>1. Len(sites) \in Nat
    BY <1>2, SiteFacts
  <2> QED
    BY <1>1, <2>1
<1>4. PICK c : c = Of(n).callee /\ c = sites'[k].callee
  <2>1. PICK o : sites' = Append(sites, Opened(n, o))
    BY DEF Allocate
  <2>2. sites'[k] = Opened(n, o)
    BY <1>2, <1>3, <2>1, SiteFacts
  <2> QED
    BY <2>2 DEF Opened
<1>5. ctx.active = CalleesAround(ctx.site)
  BY <1>2, AtHand DEF Sound
<1>6. PICK p \in 0..Len(sites) : p = ctx.site /\ p = sites'[k].parent
  BY <1>1, <1>2, <1>3
<1>7. Recurses(k)' <=> c \in ctx.active
  <2>1. \A q : q = sites[k]'.parent
                 => (Recurses(k)' <=> \E i \in Callers(q)' : sites'[i].callee = sites'[k].callee)
    BY DEF Recurses
  <2>2. Recurses(k)' <=> \E i \in Callers(p)' : sites'[i].callee = c
    BY <1>4, <1>6, <2>1
  <2>3. Recurses(k)' <=> c \in CalleesAround(p)'
    BY <2>2 DEF CalleesAround
  <2>4. CalleesAround(p)' = CalleesAround(p)
    BY <1>1, <1>2, AroundSitesStays
  <2> QED
    BY <1>5, <1>6, <2>3, <2>4
<1>8. \A s \in 1..m : Recurses(s)' <=> Recurses(s)
  BY <1>1, <1>2, <1>3, RecursesStays
<1>9. Fresh' = {s \in 1..k : ~Recurses(s)'} /\ Fresh = {s \in 1..m : ~Recurses(s)}
  BY <1>3 DEF Fresh
<1>10. k \notin Fresh /\ Fresh \subseteq 1..m
  BY <1>3, <1>9
<1>11. \A s : s \in 1..k <=> s \in 1..m \/ s = k
  BY <1>3
<1>12. Fresh' = IF c \in ctx.active THEN Fresh ELSE Fresh \cup {k}
  BY <1>7, <1>8, <1>9, <1>10, <1>11
<1>13. PICK F, G, E, X : F = Fresh /\ G = Fresh' /\ E = Expanded /\ X = Expanded'
  OBVIOUS
<1>14. /\ E = {s \in F : Cardinality({r \in F : r <= s}) <= Budget}
       /\ X = {s \in G : Cardinality({r \in G : r <= s}) <= Budget}
  BY <1>13 DEF Expanded
<1>15. \A s \in 1..m : {r \in G : r <= s} = {r \in F : r <= s}
  <2>1. \A s \in 1..m : ~(k <= s)
    BY <1>3
  <2> QED
    BY <1>12, <1>13, <2>1
<1>16. \A s \in F : s \in X <=> s \in E
  <2>1. \A s \in F : s \in 1..m /\ s \in G
    BY <1>10, <1>12, <1>13
  <2> QED
    BY <1>14, <1>15, <2>1
<1>17. CASE c \in ctx.active
  <2>1. G = F
    BY <1>12, <1>13, <1>17
  <2>2. X = E
    BY <1>14, <2>1
  <2> QED
    BY <1>3, <1>4, <1>10, <1>12, <1>13, <1>17, <2>2
<1>18. CASE c \notin ctx.active
  <2>1. G = F \cup {k}
    BY <1>12, <1>13, <1>18
  <2>2. {r \in G : r <= k} = F \cup {k}
    <3>1. \A r \in F \cup {k} : r <= k
      BY <1>3, <1>10, <1>13
    <3> QED
      BY <2>1, <3>1
  <2>3. Cardinality(F \cup {k}) = Cardinality(F) + 1
    <3>1. IsFiniteSet(F) /\ k \notin F
      BY <1>2, <1>10, <1>13, FreshFinite
    <3> QED
      BY <3>1, FS_AddElement
  <2>4. k \in X <=> Cardinality(F) + 1 <= Budget
    BY <1>14, <2>1, <2>2, <2>3
  <2>5. X = IF Cardinality(F) + 1 <= Budget THEN E \cup {k} ELSE E
    <3>1. X \subseteq F \cup {k} /\ E \subseteq F
      BY <1>14, <2>1
    <3>2. k \notin F
      BY <1>10, <1>13
    <3>3. CASE Cardinality(F) + 1 <= Budget
      <4>1. \A s : s \in X <=> s \in E \cup {k}
        BY <1>16, <2>4, <3>1, <3>3
      <4> QED
        BY <3>3, <4>1
    <3>4. CASE ~(Cardinality(F) + 1 <= Budget)
      <4>1. \A s : s \in X <=> s \in E
        BY <1>16, <2>4, <3>1, <3>4
      <4> QED
        BY <3>4, <4>1
    <3> QED
      BY <3>3, <3>4
  <2> QED
    BY <1>3, <1>4, <1>10, <1>12, <1>13, <1>18, <2>5
<1> QED
  BY <1>17, <1>18

LEMMA PaidInit == Init => Paid
<1> SUFFICES ASSUME Init PROVE Paid
  OBVIOUS
<1>1. sites = <<>> /\ budget = Budget /\ truncated = 0
  BY DEF Init
<1>2. Fresh = {}
  BY <1>1 DEF Fresh
<1>3. Expanded = {} /\ Fresh \ Expanded = {}
  BY <1>2 DEF Expanded
<1> QED
  BY <1>1, <1>2, <1>3, FS_EmptySet, BudgetNat DEF Paid

LEMMA PaidStays ==
    ASSUME Paid, UNCHANGED <<sites, budget, truncated>>
    PROVE  Paid'
<1>1. \A s : Callers(s)' = Callers(s)
  BY DEF Callers
<1>2. \A s : Recurses(s)' <=> Recurses(s)
  BY <1>1 DEF Recurses
<1>3. Fresh' = Fresh
  BY <1>2 DEF Fresh
<1>4. Expanded' = Expanded
  BY <1>3 DEF Expanded
<1> QED
  BY <1>3, <1>4 DEF Paid

LEMMA PaidStep == WalkInv /\ WalkInv' /\ Follows /\ Paid /\ [Next]_vars => Paid'
<1> SUFFICES ASSUME WalkInv, WalkInv', Follows, Paid, [Next]_vars PROVE Paid'
  OBVIOUS
<1>1. PICK k : k = Len(sites) + 1
  OBVIOUS
<1>2. PICK F, E : F = Fresh /\ E = Expanded
  OBVIOUS
<1>3. /\ IsFiniteSet(F) /\ IsFiniteSet(E) /\ IsFiniteSet(F \ E) /\ E \subseteq F
      /\ Cardinality(F) \in Nat /\ Cardinality(E) \in Nat /\ budget \in Nat /\ Budget \in Nat
      /\ truncated \in Nat
  BY <1>2, FreshFinite, BudgetNat DEF WalkInv, CallsOK
<1>4. /\ budget = Budget - Cardinality(E) /\ truncated = Cardinality(F \ E)
      /\ budget > 0 => E = F
  BY <1>2 DEF Paid
<1>5. ASSUME NEW n \in Node, Entering(n), Allocate(n), Quiet
      PROVE  /\ k \notin F
             /\ Fresh' = IF Of(n).callee \in ctx.active THEN F ELSE F \cup {k}
             /\ Expanded' = IF Of(n).callee \notin ctx.active /\ Cardinality(F) + 1 <= Budget
                            THEN E \cup {k} ELSE E
  BY <1>1, <1>2, <1>5, FreshAdded
<1>6. ASSUME NEW n \in Node, Recursive(n) PROVE Paid'
  <2>1. /\ Entering(n) /\ Allocate(n) /\ Quiet /\ Of(n).callee \in ctx.active
        /\ UNCHANGED <<budget, truncated>>
    BY <1>6 DEF Recursive
  <2>2. Fresh' = F /\ Expanded' = E
    BY <1>5, <2>1
  <2> QED
    BY <1>4, <2>1, <2>2 DEF Paid
<1>7. ASSUME NEW n \in Node, OverBudget(n) PROVE Paid'
  <2>1. /\ Entering(n) /\ Allocate(n) /\ Quiet /\ Of(n).callee \notin ctx.active
        /\ budget = 0 /\ budget' = 0 /\ truncated' = truncated + 1
    BY <1>7 DEF OverBudget
  <2>2. Cardinality(E) <= Cardinality(F)
    BY <1>3, FS_Subset
  <2>3. ~(Cardinality(F) + 1 <= Budget)
    BY <1>3, <1>4, <2>1, <2>2
  <2>4. k \notin F /\ Fresh' = F \cup {k} /\ Expanded' = E
    BY <1>5, <2>1, <2>3
  <2>5. Cardinality((F \ E) \cup {k}) = Cardinality(F \ E) + 1
    <3>1. k \notin F \ E
      BY <2>4
    <3> QED
      BY <1>3, <3>1, FS_AddElement
  <2>6. Fresh' \ Expanded' = (F \ E) \cup {k}
    BY <1>3, <2>4
  <2> QED
    BY <1>4, <2>1, <2>4, <2>5, <2>6 DEF Paid
<1>8. ASSUME NEW n \in Node, Expand(n) PROVE Paid'
  <2>1. /\ Entering(n) /\ Allocate(n) /\ Quiet /\ Of(n).callee \notin ctx.active
        /\ budget > 0 /\ budget' = budget - 1 /\ truncated' = truncated
    BY <1>8 DEF Expand
  <2>2. E = F /\ Cardinality(F) + 1 <= Budget
    BY <1>3, <1>4, <2>1
  <2>3. k \notin F /\ Fresh' = F \cup {k} /\ Expanded' = F \cup {k}
    BY <1>5, <2>1, <2>2
  <2>4. Cardinality(F \cup {k}) = Cardinality(F) + 1
    BY <1>3, <2>3, FS_AddElement
  <2>5. budget' = Budget - Cardinality(Expanded')
    BY <1>3, <1>4, <2>1, <2>2, <2>3, <2>4
  <2>6. Fresh' \ Expanded' = F \ E
    BY <2>2, <2>3
  <2> QED
    BY <1>4, <2>1, <2>3, <2>5, <2>6 DEF Paid
<1>9. ASSUME UNCHANGED <<sites, budget, truncated>> PROVE Paid'
  BY <1>9, PaidStays
<1>10. CASE StartWalk \/ EndWalk \/ Finished \/ UNCHANGED vars
  BY <1>9, <1>10 DEF StartWalk, EndWalk, Finished, NoCalls, vars, buildVars, tables
<1>11. ASSUME NEW n \in Node, Handle(n) PROVE Paid'
  <2>1. CASE NoCalls
    BY <1>9, <2>1 DEF NoCalls
  <2>2. Recursive(n) \/ OverBudget(n) \/ Expand(n) \/ NoCalls
    BY <1>11 DEF Handle, HandlePlain, HandleAssignment, HandleStep, HandleReturn, HandleRow,
                 HandleTimed, HandleForce, HandleConditional, HandleCase, HandleLoop,
                 HandleFor, HandleForeach, HandleCall, VisitDefault
  <2> QED
    BY <1>6, <1>7, <1>8, <2>1, <2>2
<1>12. CASE Resume
  BY <1>9, <1>12 DEF Resume, PushPoint, EnterArm, PopLevel, Unguard, Unindex, Undelay,
                     Unforce, LeaveCall, NoCalls
<1> QED
  BY <1>10, <1>11, <1>12 DEF Next

THEOREM BudgetAccounted == Spec => []BudgetAccounts
<1>1. Init => WalkInv /\ Follows /\ Paid
  BY WalkInit, FollowInit, PaidInit
<1>2. WalkInv /\ Follows /\ Paid /\ [Next]_vars => (WalkInv /\ Follows /\ Paid)'
  BY WalkStep, FollowStep, PaidStep
<1>3. WalkInv /\ Follows /\ Paid => BudgetAccounts
  BY DEF WalkInv, CallsOK, Paid, BudgetAccounts
<1> QED
  BY <1>1, <1>2, <1>3, PTL DEF Spec

(***************************************************************************)
(* What is in force where a row stands.                                    *)
(***************************************************************************)
Told(r) ==
    r.node # 0 /\ Of(r.node).kind \in {"assign", "step", "return"} =>
      /\ r.site \in 0..Len(sites) /\ WalkAt(r.node, r.site) \in 1..Len(program.walks)
      /\ r.delay = DelayIn(r.node, r.site)
      /\ ForceAround(r.node) # {} => r.word \in ForceAround(r.node)
      /\ ForceAround(r.node) \cup ForcedAbove(r.site) = {} => r.word = "own"
RowsTold == \A i \in 1..Len(stmts) : Told(stmts[i])

LEMMA DelayInIs ==
    ASSUME NEW n, NEW s
    PROVE  DelayIn(n, s) =
             IF Of(n).kind = "assign" /\ Of(n).delay # NoDelay THEN Of(n).delay
             ELSE IF DelayAround(n) # NoDelay THEN DelayAround(n)
             ELSE DelayAbove(WalkAt(n, s), s)
  BY DEF DelayIn, DelayAbove

LEMMA WalkOfTop ==
    ASSUME StartOK, NEW w \in 1..Len(program.walks)
    PROVE  WalkOf(program.walks[w].top) = w
<1>1. IsForest(program) /\ DOMAIN program.walks = 1..Len(program.walks)
  <2>1. program.walks \in Seq(Walk) /\ IsForest(program)
    BY ProgramTyped, ProgramForests DEF StartOK, Programs
  <2> QED
    BY <2>1
<1>2. \A i \in 1..Len(program.walks) :
        program.walks[i].top = program.walks[w].top => i = w
  BY <1>1 DEF IsForest
<1>3. PICK t : t = program.walks[w].top
  OBVIOUS
<1>4. WalkOf(t) = w
  BY <1>2, <1>3 DEF WalkOf
<1> QED
  BY <1>3, <1>4

\* The walk of what is in hand is the one under way.
LEMMA WalkUnderWay ==
    ASSUME StartOK, at # 0, NEW n, NEW x, Sound(x), Placed(n, x)
    PROVE  WalkAt(n, x.c.site) = at /\ at \in 1..Len(program.walks)
<1>1. PICK w \in 1..Len(program.walks) : w = at
  BY DEF StartOK
<1>2. WalkOf(program.walks[w].top) = w
  BY WalkOfTop
<1>3. PICK s : s = x.c.site
  OBVIOUS
<1>4. CASE s = 0
  <2>1. Root(n) = program.walks[w].top
    BY <1>1, <1>3, <1>4 DEF Placed, TopOf
  <2> QED
    BY <1>1, <1>2, <1>3, <1>4, <2>1 DEF WalkAt
<1>5. CASE s # 0
  <2>1. Root(sites[Outermost(s)].node) = program.walks[w].top
    BY <1>1, <1>3, <1>5 DEF Sound
  <2> QED
    BY <1>1, <1>2, <1>3, <1>5, <2>1 DEF WalkAt
<1> QED
  BY <1>4, <1>5

LEMMA WalkAtStays ==
    ASSUME StartOK, CallsOK, StartOK', CallsOK', Grown, UNCHANGED program,
           NEW n, NEW s \in 0..Len(sites)
    PROVE  WalkAt(n, s)' = WalkAt(n, s)
<1>1. \A t : WalkOf(t)' = WalkOf(t)
  BY DEF WalkOf
<1>2. CASE s = 0
  <2>1. Root(n)' = Root(n)
    BY SourceStays
  <2>2. WalkAt(n, s) = WalkOf(Root(n)) /\ WalkAt(n, s)' = WalkOf(Root(n))'
    BY <1>2 DEF WalkAt
  <2>3. \A t : t = Root(n)' => WalkOf(Root(n))' = WalkOf(t)'
    BY DEF WalkOf
  <2> QED
    BY <1>1, <2>1, <2>2, <2>3
<1>3. CASE s # 0
  <2>1. Len(sites) \in Nat /\ s \in 1..Len(sites)
    BY <1>3, SiteFacts
  <2>2. PICK o : o = Outermost(s) /\ o = Outermost(s)'
    BY <2>1, SitesStay
  <2>3. o \in 1..Len(sites)
    <3>1. Outermost(s) \in Callers(s) /\ Callers(s) \subseteq 1..s
      BY <2>1, CallersFacts
    <3> QED
      BY <2>1, <2>2, <3>1
  <2>4. PICK q : q = sites[o].node /\ q = sites'[o].node
    BY <2>3 DEF Grown
  <2>5. PICK t : t = Root(q) /\ t = Root(q)'
    BY SourceStays
  <2>6. WalkAt(n, s) = WalkOf(t)
    BY <1>3, <2>2, <2>4, <2>5 DEF WalkAt
  <2>7. WalkAt(n, s)' = WalkOf(t)'
    BY <1>3, <2>2, <2>4, <2>5 DEF WalkAt, WalkOf
  <2> QED
    BY <1>1, <2>6, <2>7
<1> QED
  BY <1>2, <1>3

LEMMA ToldStays ==
    ASSUME StartOK, CallsOK, StartOK', CallsOK', Grown, UNCHANGED program,
           NEW r, Told(r)
    PROVE  Told(r)'
<1>1. Of(r.node)' = Of(r.node)
  BY DEF Of
<1>2. SUFFICES ASSUME r.node # 0, Of(r.node).kind \in {"assign", "step", "return"}
               PROVE  /\ r.site \in 0..Len(sites')
                      /\ WalkAt(r.node, r.site)' \in 1..Len(program.walks)
                      /\ r.delay = DelayIn(r.node, r.site)'
                      /\ ForceAround(r.node)' # {} => r.word \in ForceAround(r.node)'
                      /\ ForceAround(r.node)' \cup ForcedAbove(r.site)' = {} => r.word = "own"
  BY <1>1 DEF Told
<1>3. PICK n, s : n = r.node /\ s = r.site
  OBVIOUS
<1>11. PICK d, v : d = r.delay /\ v = r.word
  OBVIOUS
<1>4. /\ s \in 0..Len(sites) /\ WalkAt(n, s) \in 1..Len(program.walks)
      /\ d = DelayIn(n, s)
      /\ ForceAround(n) # {} => v \in ForceAround(n)
      /\ ForceAround(n) \cup ForcedAbove(s) = {} => v = "own"
  BY <1>2, <1>3, <1>11 DEF Told
<1>5. PICK w : w = WalkAt(n, s) /\ w = WalkAt(n, s)'
  BY <1>4, WalkAtStays
<1>6. DelayAbove(w, s)' = DelayAbove(w, s) /\ DelayAround(n)' = DelayAround(n)
      /\ Of(n)' = Of(n)
  BY <1>4, <1>5, SitesStay, SourceStays
<1>7. DelayIn(n, s)' = DelayIn(n, s)
  <2>1. DelayIn(n, s) = IF Of(n).kind = "assign" /\ Of(n).delay # NoDelay THEN Of(n).delay
             ELSE IF DelayAround(n) # NoDelay THEN DelayAround(n)
             ELSE DelayAbove(w, s)
    BY <1>5, DelayInIs
  <2>2. DelayIn(n, s)' = IF Of(n)'.kind = "assign" /\ Of(n)'.delay # NoDelay THEN Of(n)'.delay
             ELSE IF DelayAround(n)' # NoDelay THEN DelayAround(n)'
             ELSE DelayAbove(w, s)'
    BY <1>5 DEF DelayIn, DelayAbove
  <2> QED
    BY <1>6, <2>1, <2>2
<1>8. ForceAround(n)' = ForceAround(n) /\ ForcedAbove(s)' = ForcedAbove(s)
  BY <1>4, SurroundingsStay, AroundSitesStays
<1>9. s \in 0..Len(sites')
  BY <1>4 DEF Grown
<1>10. /\ WalkAt(n, s)' \in 1..Len(program.walks) /\ d = DelayIn(n, s)'
       /\ ForceAround(n)' # {} => v \in ForceAround(n)'
       /\ ForceAround(n)' \cup ForcedAbove(s)' = {} => v = "own"
  <2>1. WalkAt(n, s)' \in 1..Len(program.walks)
    BY <1>4, <1>5
  <2>2. d = DelayIn(n, s)'
    BY <1>4, <1>7
  <2>3. ForceAround(n)' # {} => v \in ForceAround(n)'
    BY <1>4, <1>8
  <2>4. ForceAround(n)' \cup ForcedAbove(s)' = {} => v = "own"
    BY <1>4, <1>8
  <2> QED
    BY <2>1, <2>2, <2>3, <2>4
<1> QED
  BY <1>3, <1>9, <1>10, <1>11

LEMMA RowOf ==
    ASSUME NEW n, NEW k, NEW writes, NEW delay
    PROVE  /\ Row(n, k, writes).node = n
           /\ Write(n, writes, delay).node = n /\ Write(n, writes, delay).site = ctx.site
           /\ Write(n, writes, delay).word = ctx.word
           /\ Write(n, writes, delay).delay = delay
<1>1. PICK g : g = {InTemplate(b) : b \in Chain(CurrentBranch)}
  OBVIOUS
<1>2. PICK b, p, q : b = InTemplate(CurrentBranch) /\ p = proc
                     /\ q = (IF proc = 0 THEN -1 ELSE seq + 0)
  OBVIOUS
<1>3. Row(n, 0, writes) = [node |-> n, proc |-> p, site |-> ctx.site, branch |-> b, seq |-> q,
                           delay |-> NoDelay, word |-> "own", writes |-> writes, gates |-> {}]
  BY <1>2 DEF Row
<1>4. Write(n, writes, delay) = [Row(n, 0, writes) EXCEPT
                                    !.delay = delay, !.word = ctx.word, !.gates = g]
  BY <1>1 DEF Write
<1> QED
  <2>1. Row(n, k, writes).node = n
    BY DEF Row
  <2> QED
    BY <1>3, <1>4, <2>1

\* The row of a write carries what is in force where it stands.
LEMMA WriteTold ==
    ASSUME StartOK, CallsOK, at # 0, NEW n \in Node, Sound(Now), Placed(n, Now), Now.c = ctx,
           NEW writes, NEW delay,
           delay = IF Of(n).kind = "assign" /\ Of(n).delay # NoDelay
                   THEN Of(n).delay ELSE ctx.delay
    PROVE  Told(Write(n, writes, delay))
<1>1. PICK r, s : r = Write(n, writes, delay) /\ s = ctx.site
  OBVIOUS
<1>2. r.node = n /\ r.site = s /\ r.word = ctx.word /\ r.delay = delay
  BY <1>1, RowOf
<1>3. PICK x : x = Now
  OBVIOUS
<1>4. /\ s \in 0..Len(sites) /\ WalkAt(n, s) = at /\ at \in 1..Len(program.walks)
  BY <1>1, <1>3, WalkUnderWay DEF Sound
<1>5. /\ ctx.delay = IF DelayAround(n) # NoDelay THEN DelayAround(n) ELSE DelayAbove(at, s)
      /\ ForceAround(n) # {} => ctx.word \in ForceAround(n)
      /\ ForceAround(n) \cup ForcedAbove(s) = {} => ctx.word = "own"
  BY <1>1, <1>3 DEF Placed
<1>6. delay = DelayIn(n, s)
  BY <1>4, <1>5, DelayInIs
<1> QED
  BY <1>1, <1>2, <1>4, <1>5, <1>6 DEF Told

EachTold == \A i \in 1..Len(stmts) : \A r : r = stmts[i] => Told(r)
LEMMA ToldEach == EachTold => RowsTold
  BY DEF EachTold, RowsTold

LEMMA ToldKept ==
    ASSUME WalkInv, WalkInv', RowsTold, UNCHANGED program, Grown,
           \A i \in 1..Len(stmts') :
              (i \in 1..Len(stmts) /\ stmts'[i] = stmts[i]) \/ Told(stmts'[i])
    PROVE  RowsTold'
<1>1. StartOK /\ CallsOK /\ StartOK' /\ CallsOK'
  BY DEF WalkInv
<1>2. \A r : Told(r) => Told(r)'
  BY <1>1, ToldStays
<1>3. \A i \in 1..Len(stmts') : \A r : r = stmts'[i] => Told(r)
  BY DEF RowsTold
<1>4. EachTold'
  BY <1>2, <1>3 DEF EachTold
<1>5. EachTold' => RowsTold'
  BY ToldEach, PTL
<1> QED
  BY <1>4, <1>5

\* A statement files its rows.
LEMMA FiledTold ==
    ASSUME WalkInv, WalkInv', RowsTold, Quiet, NoCalls,
           NEW rows \in Seq(Stmt), File(rows), \A i \in 1..Len(rows) : Told(rows[i])
    PROVE  RowsTold'
<1>1. Grown /\ UNCHANGED program
  BY DEF Quiet, NoCalls, Grown, WalkInv, CallsOK
<1>2. stmts \in Seq(Stmt) /\ Len(stmts) \in Nat /\ Len(rows) \in Nat
  BY DEF WalkInv, RowsOK
<1>3. PICK t : t = stmts \o rows
  OBVIOUS
<1>4. stmts' = t
  BY <1>3 DEF File
<1>5. /\ Len(t) = Len(stmts) + Len(rows) /\ \A i \in 1..Len(stmts) : t[i] = stmts[i]
      /\ \A i \in Len(stmts) + 1..Len(stmts) + Len(rows) : t[i] = rows[i - Len(stmts)]
  BY <1>2, <1>3, Joined
<1>6. \A i \in 1..Len(t) : (i \in 1..Len(stmts) /\ t[i] = stmts[i]) \/ Told(t[i])
  <2>1. SUFFICES ASSUME NEW i \in 1..Len(t), i \notin 1..Len(stmts) PROVE Told(t[i])
    BY <1>5
  <2>2. t[i] = rows[i - Len(stmts)] /\ i - Len(stmts) \in 1..Len(rows)
    BY <1>2, <1>5, <2>1
  <2> QED
    BY <2>2
<1> QED
  BY <1>1, <1>4, <1>6, ToldKept

LEMMA NoneTold ==
    ASSUME WalkInv, WalkInv', RowsTold, UNCHANGED <<program, stmts>>, Grown
    PROVE  RowsTold'
<1>1. \A i \in 1..Len(stmts') : i \in 1..Len(stmts) /\ stmts'[i] = stmts[i]
  OBVIOUS
<1> QED
  BY <1>1, ToldKept

\* One row that is no write of what it stands for.
LEMMA OtherRow ==
    ASSUME NEW r, r.node = 0 \/ Of(r.node).kind \notin {"assign", "step", "return"}
    PROVE  Told(r)
  BY DEF Told

LEMMA WritesTold ==
    ASSUME WalkInv, WalkInv', Follows, RowsTold, NEW n \in Node,
           HandleAssignment(n) \/ HandleStep(n) \/ HandleReturn(n)
    PROVE  RowsTold'
<1>1. /\ agenda # <<>> /\ Head(agenda).op = "visit" /\ Head(agenda).node = n
      /\ Of(n).kind \in {"assign", "step", "return"} /\ NoCalls /\ Quiet
  BY DEF HandleAssignment, HandleStep, HandleReturn, Visiting, Pending, VisitDefault
<1>2. /\ StartOK /\ CallsOK /\ RowsOK /\ LevelsOK /\ CtxOK /\ ctx \in Context
  BY DEF WalkInv, CtxOK
<1>3. at # 0 /\ Sound(Now) /\ Placed(n, Now) /\ Now.c = ctx
  BY <1>1, AtHand DEF Follows
<1>4. ASSUME NEW writes \in SUBSET Var, NEW delay \in Delay \cup {NoDelay},
             delay = IF Of(n).kind = "assign" /\ Of(n).delay # NoDelay
                     THEN Of(n).delay ELSE ctx.delay,
             File(<<Write(n, writes, delay)>>)
      PROVE  RowsTold'
  <2>1. PICK r \in Stmt : r = Write(n, writes, delay)
    BY <1>2, <1>4, WriteIsStmt
  <2>2. Told(r)
    BY <1>2, <1>3, <1>4, <2>1, WriteTold
  <2>3. PICK rows \in Seq(Stmt) : rows = <<r>>
    BY Single
  <2>4. \A i \in 1..Len(rows) : Told(rows[i])
    <3>1. Len(rows) = 1 /\ rows[1] = r
      BY <2>3
    <3> QED
      BY <2>2, <3>1
  <2> QED
    BY <1>1, <1>4, <2>1, <2>3, <2>4, FiledTold
<1>5. CASE UNCHANGED stmts
  <2>1. Grown /\ UNCHANGED <<program, stmts>>
    BY <1>1, <1>2, <1>5 DEF Grown, NoCalls, Quiet, CallsOK
  <2> QED
    BY <2>1, NoneTold
<1>6. Of(n).vars \subseteq Var /\ Of(n).delay \in Delay \cup {NoDelay}
      /\ ctx.delay \in Delay \cup {NoDelay}
      /\ (ctx.sub # 0 => program.result[ctx.sub] \subseteq Var)
  BY <1>2, SyntaxOf DEF Syntax, Context
<1>7. CASE HandleAssignment(n)
  <2>1. PICK targets \in SUBSET Var : targets = Of(n).vars \ ctx.indices
    BY <1>6
  <2>2. PICK delay \in Delay \cup {NoDelay} :
           delay = IF Of(n).delay # NoDelay THEN Of(n).delay ELSE ctx.delay
    BY <1>6
  <2>3. Of(n).kind = "assign"
    BY <1>7 DEF HandleAssignment, Visiting
  <2>4. File(<<Write(n, targets, delay)>>) \/ UNCHANGED stmts
    BY <1>7, <2>1, <2>2 DEF HandleAssignment
  <2> QED
    BY <1>4, <1>5, <2>2, <2>3, <2>4
<1>8. CASE HandleStep(n)
  <2>1. PICK targets \in SUBSET Var : targets = Of(n).vars \ ctx.indices
    BY <1>6
  <2>2. Of(n).kind = "step"
    BY <1>8 DEF HandleStep, Visiting
  <2>3. File(<<Write(n, targets, ctx.delay)>>) \/ UNCHANGED stmts
    BY <1>8, <2>1 DEF HandleStep, NoRows
  <2> QED
    BY <1>4, <1>5, <1>6, <2>2, <2>3
<1>9. CASE HandleReturn(n)
  <2>1. PICK result \in SUBSET Var :
           result = IF ctx.sub = 0 THEN {} ELSE program.result[ctx.sub]
    BY <1>6
  <2>2. Of(n).kind = "return"
    BY <1>9 DEF HandleReturn, Visiting
  <2>3. File(<<Write(n, result, ctx.delay)>>) \/ UNCHANGED stmts
    BY <1>9, <2>1 DEF HandleReturn, NoRows
  <2> QED
    BY <1>4, <1>5, <1>6, <2>2, <2>3
<1> QED
  BY <1>7, <1>8, <1>9

LEMMA WaitsTold ==
    ASSUME WalkInv, WalkInv', Follows, RowsTold, NEW n \in Node, HandleRow(n) \/ HandleTimed(n)
    PROVE  RowsTold'
<1>1. NoCalls /\ Quiet /\ Of(n).kind \in {"row", "timed"}
  BY DEF HandleRow, HandleTimed, Visiting, VisitDefault
<1>2. /\ StartOK /\ CallsOK /\ RowsOK /\ LevelsOK /\ CtxOK
  BY DEF WalkInv
<1>3. \A k \in Nat : Row(n, k, {}) \in Stmt /\ Told(Row(n, k, {}))
  <2>1. SUFFICES ASSUME NEW k \in Nat PROVE Row(n, k, {}) \in Stmt /\ Told(Row(n, k, {}))
    OBVIOUS
  <2>2. PICK none \in SUBSET Var : none = {}
    OBVIOUS
  <2>3. PICK r \in Stmt : r = Row(n, k, {})
    BY <1>2, <2>2, RowIsStmt
  <2>4. r.node = n
    BY <2>3 DEF Row
  <2>5. Told(r)
    BY <1>1, <2>4, OtherRow
  <2> QED
    BY <2>3, <2>5
<1>4. CASE UNCHANGED stmts
  <2>1. Grown /\ UNCHANGED <<program, stmts>>
    BY <1>1, <1>2, <1>4 DEF Grown, NoCalls, Quiet, CallsOK
  <2> QED
    BY <2>1, NoneTold
<1>5. ASSUME NEW rows \in Seq(Stmt), File(rows), \A i \in 1..Len(rows) : Told(rows[i])
      PROVE  RowsTold'
  BY <1>1, <1>5, FiledTold
<1>6. CASE HandleRow(n)
  <2>1. PICK r \in Stmt : r = Row(n, 0, {}) /\ Told(r)
    BY <1>3
  <2>2. PICK rows \in Seq(Stmt) : rows = <<r>>
    BY Single
  <2>3. Len(rows) = 1 /\ rows[1] = r
    BY <2>2
  <2>4. \A i \in 1..Len(rows) : Told(rows[i])
    BY <2>1, <2>3
  <2>5. File(rows)
    BY <1>6, <2>1, <2>2 DEF HandleRow
  <2> QED
    BY <1>5, <2>4, <2>5
<1>7. CASE HandleTimed(n)
  <2>1. PICK w \in Nat : w = Of(n).waits
    BY <1>2, SyntaxOf DEF Syntax
  <2>2. PICK rows : rows = [k \in 1..w |-> Row(n, k - 1, {})]
    OBVIOUS
  <2>3. \A k \in 1..w : k - 1 \in Nat /\ rows[k] = Row(n, k - 1, {})
    BY <2>1, <2>2
  <2>4. \A k \in 1..w : rows[k] \in Stmt /\ Told(rows[k])
    BY <1>3, <2>3
  <2>7. rows = [k \in 1..w |-> rows[k]]
    BY <2>2
  <2>5. rows \in Seq(Stmt) /\ Len(rows) = w
    BY <2>1, <2>4, <2>7, Listed
  <2>6. File(rows) \/ UNCHANGED stmts
    BY <1>7, <2>1, <2>2 DEF HandleTimed, NoRows
  <2> QED
    BY <1>4, <1>5, <2>4, <2>5, <2>6
<1> QED
  BY <1>6, <1>7

LEMMA StartTold ==
    ASSUME WalkInv, WalkInv', RowsTold, StartWalk
    PROVE  RowsTold'
<1>1. Grown /\ UNCHANGED program
  BY DEF StartWalk, NoCalls, Grown, WalkInv, CallsOK
<1>2. stmts \in Seq(Stmt) /\ stmts' \in Seq(Stmt) /\ Len(stmts) \in Nat
  BY DEF WalkInv, RowsOK
<1>3. CASE UNCHANGED stmts
  BY <1>1, <1>3, NoneTold
<1>4. CASE ~UNCHANGED stmts
  <2>1. PICK e : e.node = 0 /\ stmts' = Append(stmts, e)
    BY <1>4 DEF StartWalk
  <2>2. Told(e)
    BY <2>1, OtherRow
  <2>3. /\ Len(stmts') = Len(stmts) + 1 /\ stmts'[Len(stmts) + 1] = e
        /\ \A i \in 1..Len(stmts) : stmts'[i] = stmts[i]
    BY <1>2, <2>1
  <2>4. \A i \in 1..Len(stmts') : (i \in 1..Len(stmts) /\ stmts'[i] = stmts[i])
                                  \/ stmts'[i] = e
    BY <1>2, <2>3
  <2>5. \A i \in 1..Len(stmts') : (i \in 1..Len(stmts) /\ stmts'[i] = stmts[i])
                                  \/ Told(stmts'[i])
    BY <2>2, <2>4
  <2> QED
    BY <1>1, <2>5, ToldKept
<1> QED
  BY <1>3, <1>4

LEMMA ToldInit == Init => RowsTold
  BY DEF Init, RowsTold

LEMMA ToldStep == WalkInv /\ WalkInv' /\ Follows /\ RowsTold /\ [Next]_vars => RowsTold'
<1> SUFFICES ASSUME WalkInv, WalkInv', Follows, RowsTold, [Next]_vars PROVE RowsTold'
  OBVIOUS
<1>1. CASE StartWalk
  BY <1>1, StartTold
<1>2. ASSUME UNCHANGED <<program, stmts, sites>> PROVE RowsTold'
  BY <1>2, NoneTold DEF Grown, WalkInv, CallsOK
<1>3. CASE EndWalk \/ Finished \/ UNCHANGED vars
  BY <1>2, <1>3 DEF EndWalk, Finished, NoCalls, vars, walkVars, buildVars, tables
<1>4. CASE Resume
  BY <1>2, <1>4 DEF Resume, PushPoint, EnterArm, PopLevel, Unguard, Unindex, Undelay,
                    Unforce, LeaveCall, NoCalls, NoRows, Quiet
<1>5. ASSUME NEW n \in Node, Recursive(n) \/ OverBudget(n) \/ Expand(n) PROVE RowsTold'
  <2>1. Entering(n) /\ Allocate(n) /\ UNCHANGED <<program, stmts>>
    BY <1>5 DEF Recursive, OverBudget, Expand, NoRows, Quiet
  <2>2. Grown
    BY <2>1, Allocated
  <2> QED
    BY <2>1, <2>2, NoneTold
<1>6. ASSUME NEW n \in Node,
             \/ HandlePlain(n) \/ HandleForce(n) \/ HandleConditional(n) \/ HandleCase(n)
             \/ HandleLoop(n) \/ HandleFor(n) \/ HandleForeach(n) \/ HandleCall(n)
      PROVE  RowsTold'
  BY <1>2, <1>6 DEF HandlePlain, HandleForce, HandleConditional, HandleCase, HandleLoop,
                    HandleFor, HandleForeach, HandleCall, VisitDefault, NoRows, NoCalls, Quiet
<1>7. ASSUME NEW n \in Node, Handle(n) PROVE RowsTold'
  BY <1>5, <1>6, <1>7, WritesTold, WaitsTold DEF Handle
<1> QED
  BY <1>1, <1>3, <1>4, <1>7 DEF Next

\* What is in force where a row stands is what the row says: delays and forces
\* reach what they prefix, through calls and back, and nothing after it.
THEOREM ContextIsInForce == Spec => []ContextInForce
<1>1. Init => WalkInv /\ Follows /\ RowsTold
  BY WalkInit, FollowInit, ToldInit
<1>2. WalkInv /\ Follows /\ RowsTold /\ [Next]_vars => (WalkInv /\ Follows /\ RowsTold)'
  BY WalkStep, FollowStep, ToldStep
<1>3. RowsTold => ContextInForce
  BY DEF RowsTold, Told, ContextInForce, ForcedAbove
<1> QED
  BY <1>1, <1>2, <1>3, PTL DEF Spec

(***************************************************************************)
(* Parts of a statement.                                                   *)
(***************************************************************************)
Under(m, n) == n = m \/ m \in Holders(n)
Busy == Makers \cup {"timed", "call"}
Inert(m) == \A q \in Node : Under(m, q) => Of(q).kind \notin Busy
Sole(n) == Of(n).kind = "call" /\ StatementOf(n) # 0 /\ OnlyCall(n)

LEMMA HoldersNest ==
    ASSUME program \in Program, NEW n \in Node
    PROVE  \A k \in Holders(n) : Holders(k) \subseteq Holders(n)
<1> DEFINE P == {q \in Node : \A k \in Holders(q) : Holders(k) \subseteq Holders(q)}
<1>1. ASSUME NEW q \in Node, HolderOf(q) # 0 => HolderOf(q) \in P PROVE q \in P
  <2>1. CASE HolderOf(q) = 0
    <3>1. Holders(q) = {}
      BY <2>1, HoldersUnfolds
    <3> QED
      BY <3>1
  <2>2. CASE HolderOf(q) # 0
    <3>1. PICK h : h = HolderOf(q)
      OBVIOUS
    <3>2. h \in Node /\ \A k \in Holders(h) : Holders(k) \subseteq Holders(h)
      BY <1>1, <2>2, <3>1
    <3>3. Holders(q) = Holders(h) \cup {h}
      BY <2>2, <3>1, HoldersUnfolds
    <3>4. \A k \in Holders(q) : Holders(k) \subseteq Holders(q)
      BY <3>2, <3>3
    <3> QED
      BY <3>4
  <2> QED
    BY <2>1, <2>2
<1> HIDE DEF P
<1>2. n \in P
  BY <1>1, ForestInduction
<1> QED
  BY <1>2 DEF P

LEMMA UnderPart ==
    ASSUME program \in Program, NEW m \in Node, NEW i \in DOMAIN Parts(m), NEW k,
           k = Parts(m)[i]
    PROVE  /\ k \in Node /\ k > m /\ HolderOf(k) = m /\ ~Under(k, m)
           /\ StatementOf(k) = (IF Of(m).kind \in Makers THEN m ELSE StatementOf(m))
           /\ \A n \in Node : Under(k, n) => Under(m, n) /\ n # m
<1>1. k \in Node /\ k > m /\ HolderOf(k) = m
  BY PartPlaced
<1>2. Holders(k) = Holders(m) \cup {m}
      /\ StatementOf(k) = (IF Of(m).kind \in Makers THEN m ELSE StatementOf(m))
  BY AroundPart
<1>3. m \in Nat /\ k \in Nat
  BY <1>1, HolderBefore, NodesPositive
<1>4. ~Under(k, m)
  <2>1. k # m
    BY <1>1, <1>3
  <2>2. k \notin Holders(m)
    BY <1>1, <1>3, HoldersBefore
  <2> QED
    BY <2>1, <2>2 DEF Under
<1>5. ASSUME NEW n \in Node, Under(k, n) PROVE Under(m, n) /\ n # m
  <2>1. n # m
    BY <1>4, <1>5
  <2>2. CASE n = k
    BY <1>2, <2>1, <2>2 DEF Under
  <2>3. CASE k \in Holders(n)
    BY <1>2, <2>1, <2>3, HoldersNest DEF Under
  <2> QED
    BY <1>5, <2>2, <2>3 DEF Under
<1> QED
  BY <1>1, <1>2, <1>4, <1>5

\* A node is under one part of what it is under.
LEMMA UnderOne ==
    ASSUME program \in Program, NEW m \in Node, NEW a \in Node, NEW b \in Node,
           HolderOf(a) = m, HolderOf(b) = m, a # b
    PROVE  \A n \in Node : ~(Under(a, n) /\ Under(b, n))
<1> DEFINE P == {q \in Node : ~(Under(a, q) /\ Under(b, q))}
<1>1. Holders(a) = Holders(m) \cup {m} /\ Holders(b) = Holders(m) \cup {m}
      /\ m < a /\ m < b /\ m # 0
  <2>1. m # 0 /\ m \in Nat
    BY NodesPositive
  <2>2. m < a /\ m < b
    BY <2>1, HolderBefore
  <2> QED
    BY <2>1, <2>2, HoldersUnfolds
<1>2. a \notin Holders(b) /\ b \notin Holders(a)
  <2>1. a \in Nat /\ b \in Nat /\ m \in Nat
    BY NodesPositive
  <2>2. a \notin Holders(m) /\ b \notin Holders(m)
    BY <1>1, <2>1, HoldersBefore
  <2> QED
    BY <1>1, <2>1, <2>2
<1>3. ASSUME NEW q \in Node, HolderOf(q) # 0 => HolderOf(q) \in P PROVE q \in P
  <2>1. CASE q = a \/ q = b
    BY <1>2, <2>1 DEF Under
  <2>2. CASE q # a /\ q # b
    <3>1. ASSUME Under(a, q), Under(b, q) PROVE FALSE
      <4>1. a \in Holders(q) /\ b \in Holders(q)
        BY <2>2, <3>1 DEF Under
      <4>2. PICK h : h = HolderOf(q)
        OBVIOUS
      <4>3. h # 0 /\ Holders(q) = Holders(h) \cup {h}
        BY <4>1, <4>2, HoldersUnfolds
      <4>4. Under(a, h) /\ Under(b, h)
        BY <4>1, <4>3 DEF Under
      <4> QED
        BY <1>3, <4>2, <4>3, <4>4
    <3> QED
      BY <3>1
  <2> QED
    BY <2>1, <2>2
<1> HIDE DEF P
<1>4. \A n \in Node : n \in P
  BY <1>3, ForestInduction
<1> QED
  BY <1>4 DEF P

LEMMA InertPart ==
    ASSUME program \in Program, NEW m \in Node, Inert(m), NEW i \in DOMAIN Parts(m), NEW k,
           k = Parts(m)[i]
    PROVE  Inert(k)
  BY UnderPart DEF Inert

\* What is beside the only call of a statement, in that statement, files
\* nothing.
LEMMA BesideSole ==
    ASSUME program \in Program, NEW n \in Node, Sole(n), NEW q \in Node,
           StatementOf(q) = StatementOf(n), ~Under(q, n)
    PROVE  Inert(q)
<1> DEFINE P == {d \in Node : Under(q, d) => StatementOf(d) = StatementOf(n)}
<1>1. \A d \in Node : d # n /\ StatementOf(d) = StatementOf(n) => Of(d).kind \notin Busy
  BY DEF Sole, OnlyCall, Busy
<1>2. ASSUME NEW d \in Node, HolderOf(d) # 0 => HolderOf(d) \in P PROVE d \in P
  <2>1. ASSUME Under(q, d) PROVE StatementOf(d) = StatementOf(n)
    <3>1. CASE d = q
      BY <3>1
    <3>2. CASE d # q
      <4>1. PICK h : h = HolderOf(d)
        OBVIOUS
      <4>2. q \in Holders(d)
        BY <2>1, <3>2 DEF Under
      <4>3. h # 0 /\ h \in Node /\ Holders(d) = Holders(h) \cup {h}
        BY <4>1, <4>2, HoldersUnfolds, HolderBefore
      <4>4. Under(q, h)
        BY <4>2, <4>3 DEF Under
      <4>5. h # n /\ StatementOf(h) = StatementOf(n)
        BY <1>2, <4>1, <4>3, <4>4
      <4>6. Of(h).kind \notin Makers
        BY <1>1, <4>3, <4>5 DEF Busy
      <4> QED
        BY <4>1, <4>3, <4>5, <4>6, StatementOfUnfolds
    <3> QED
      BY <3>1, <3>2
  <2> QED
    BY <2>1
<1>3. \A d \in Node : d \in P
  <2> HIDE DEF P
  <2> QED
    BY <1>2, ForestInduction
<1>4. ASSUME NEW d \in Node, Under(q, d) PROVE Of(d).kind \notin Busy
  <2>1. StatementOf(d) = StatementOf(n) /\ d # n
    BY <1>3, <1>4
  <2> QED
    BY <1>1, <2>1
<1> QED
  BY <1>4 DEF Inert

(***************************************************************************)
(* The calling statement: from where a statement's row is filed to where   *)
(* its only call is entered, the current statement is that row.            *)
(***************************************************************************)
Calm == {"point", "pop", "unguard", "unindex", "undelay", "unforce"}
Entry(it) == IF it.op = "arm" THEN Of(it.node).arms[it.arm] ELSE it.node
Still(it) == it.op \in Calm \/ (it.op \in {"visit", "arm"} /\ Inert(Entry(it)))
Claims(it, n) ==
    /\ it.op \in {"visit", "arm", "enter"} /\ Sole(n)
    /\ Under(Entry(it), n) /\ StatementOf(Entry(it)) = StatementOf(n)

\* Whether a statement has a row in an expansion.
HasRow(h, s) == Of(h).kind = "row" \/ Writes(h, s) # {}
Bound(h) == curStmt # 0 /\ stmts[curStmt].node = h /\ stmts[curStmt].site = ctx.site
Due(h) == HasRow(h, ctx.site) => Bound(h)

Attended ==
    \A i \in 1..Len(agenda) : \A n \in Node : Claims(agenda[i], n) =>
       Due(StatementOf(n)) /\ \A j \in 1..i - 1 : Still(agenda[j])

LEMMA SoleStays ==
    ASSUME UNCHANGED program
    PROVE  /\ \A m, n : (Under(m, n) <=> Under(m, n)')
           /\ \A m : (Inert(m) <=> Inert(m)')
           /\ \A n : (Sole(n) <=> Sole(n)') /\ StatementOf(n)' = StatementOf(n)
           /\ \A it : Entry(it)' = Entry(it)
           /\ \A it : (Still(it) <=> Still(it)')
           /\ \A it, n : (Claims(it, n) <=> Claims(it, n)')
<1>1. /\ \A n : Of(n)' = Of(n) /\ StatementOf(n)' = StatementOf(n) /\ Holders(n)' = Holders(n)
  BY SourceStays
<1>2. /\ \A m, n : (Under(m, n) <=> Under(m, n)')
  BY <1>1 DEF Under
<1>3. \A m : (Inert(m) <=> Inert(m)')
  BY <1>1, <1>2 DEF Inert
<1>4. \A n : (OnlyCall(n) <=> OnlyCall(n)')
  BY <1>1 DEF OnlyCall
<1>5. \A n : (Sole(n) <=> Sole(n)')
  BY <1>1, <1>4 DEF Sole
<1>6. \A it : Entry(it)' = Entry(it)
  BY <1>1 DEF Entry
<1>7. \A it : (Still(it) <=> Still(it)')
  <2>1. SUFFICES ASSUME NEW it PROVE Still(it) <=> Still(it)'
    OBVIOUS
  <2>2. PICK e : e = Entry(it) /\ e = Entry(it)'
    BY <1>6
  <2>3. Still(it) <=> it.op \in Calm \/ (it.op \in {"visit", "arm"} /\ Inert(e))
    BY <2>2 DEF Still
  <2>4. Still(it)' <=> it.op \in Calm \/ (it.op \in {"visit", "arm"} /\ Inert(e)')
    BY <2>2 DEF Still, Inert
  <2> QED
    BY <1>3, <2>3, <2>4
<1>8. \A it, n : (Claims(it, n) <=> Claims(it, n)')
  <2>1. SUFFICES ASSUME NEW it, NEW n PROVE Claims(it, n) <=> Claims(it, n)'
    OBVIOUS
  <2>2. PICK e : e = Entry(it) /\ e = Entry(it)'
    BY <1>6
  <2>3. Claims(it, n) <=> /\ it.op \in {"visit", "arm", "enter"} /\ Sole(n)
                          /\ Under(e, n) /\ StatementOf(e) = StatementOf(n)
    BY <2>2 DEF Claims
  <2>4. Claims(it, n)' <=> /\ it.op \in {"visit", "arm", "enter"} /\ Sole(n)'
                           /\ Under(e, n)' /\ StatementOf(e)' = StatementOf(n)'
    BY <2>2 DEF Claims
  <2> QED
    BY <1>1, <1>2, <1>5, <2>3, <2>4
<1> QED
  BY <1>1, <1>2, <1>3, <1>5, <1>6, <1>7, <1>8

LEMMA WritesStay ==
    ASSUME StartOK, CallsOK, StartOK', CallsOK', Grown, UNCHANGED program,
           NEW h, NEW s \in 0..Len(sites)
    PROVE  /\ Writes(h, s)' = Writes(h, s)
           /\ (HasRow(h, s) <=> HasRow(h, s)')
<1>1. Of(h)' = Of(h) /\ Root(h)' = Root(h)
  BY SourceStays
<1>2. IndicesIn(h, s)' = IndicesIn(h, s)
  BY AroundSitesStays
<1>3. Writes(h, s)' = Writes(h, s)
  BY <1>1, <1>2 DEF Writes
<1> QED
  BY <1>1, <1>3 DEF HasRow

LEMMA DueStays ==
    ASSUME WalkInv, WalkInv', UNCHANGED <<program, sites, stmts, curStmt>>,
           ctx'.site = ctx.site
    PROVE  \A h : Due(h) => Due(h)'
<1>1. StartOK /\ CallsOK /\ StartOK' /\ CallsOK' /\ Grown
  BY DEF WalkInv, CallsOK, Grown
<1>2. PICK s \in 0..Len(sites) : s = ctx.site /\ s = ctx'.site
  BY DEF WalkInv, CtxOK
<1>3. SUFFICES ASSUME NEW h, Due(h) PROVE Due(h)'
  OBVIOUS
<1>4. HasRow(h, s) <=> HasRow(h, s)'
  BY <1>1, WritesStay
<1>5. Bound(h) <=> Bound(h)'
  BY DEF Bound
<1>6. Due(h) <=> (HasRow(h, s) => Bound(h))
  BY <1>2 DEF Due
<1>7. Due(h)' <=> (HasRow(h, s)' => Bound(h)')
  BY <1>2 DEF Due, HasRow, Writes
<1> QED
  BY <1>3, <1>4, <1>5, <1>6, <1>7

\* Items in the place of the first, if what they claim is told and, when the
\* first could come before a claim, they can as well.
LEMMA AttendReplaced ==
    ASSUME WalkInv, WalkInv', Attended, agenda # <<>>, UNCHANGED program,
           NEW items \in Seq(Item), Replace(items),
           Still(Head(agenda)) => /\ \A j \in 1..Len(items) : Still(items[j])
                                  /\ \A h : Due(h) => Due(h)',
           \A i \in 1..Len(items) : \A n \in Node : Claims(items[i], n) =>
              Due(StatementOf(n))' /\ \A j \in 1..i - 1 : Still(items[j])
    PROVE  Attended'
<1>1. PICK rest : rest = Tail(agenda)
  OBVIOUS
<1>2. /\ rest \in Seq(Item) /\ Len(rest) = Len(agenda) - 1 /\ Len(agenda) \in Nat \ {0}
      /\ \A k \in 1..Len(rest) : rest[k] = agenda[k + 1]
      /\ Head(agenda) = agenda[1]
  <2>1. /\ Tail(agenda) \in Seq(Fitting) /\ Len(agenda) \in Nat \ {0}
        /\ Len(Tail(agenda)) = Len(agenda) - 1
        /\ \A i \in 1..Len(agenda) - 1 : Tail(agenda)[i] = agenda[i + 1]
        /\ Head(agenda) = agenda[1]
    BY Rest DEF WalkInv
  <2>2. Tail(agenda) \in Seq(Item)
    BY ONLY <2>1, Widened DEF Fitting
  <2> QED
    BY <1>1, <2>1, <2>2
<1>3. PICK l : l = items \o rest
  OBVIOUS
<1>4. agenda' = l
  BY <1>1, <1>3 DEF Replace
<1>5. PICK m \in Nat, r \in Nat : m = Len(items) /\ r = Len(rest)
  BY <1>2
<1>6. /\ Len(l) = m + r
      /\ \A i \in 1..m : l[i] = items[i]
      /\ \A i \in m + 1..m + r : l[i] = rest[i - m]
  <2>1. /\ Len(l) = Len(items) + Len(rest)
        /\ \A i \in 1..Len(items) : l[i] = items[i]
        /\ \A i \in Len(items) + 1..Len(items) + Len(rest) : l[i] = rest[i - Len(items)]
    BY <1>2, <1>3, Joined
  <2> QED
    BY ONLY <1>5, <2>1
<1>7. /\ \A it : (Still(it) <=> Still(it)')
      /\ \A it, n : (Claims(it, n) <=> Claims(it, n)')
      /\ \A n : StatementOf(n)' = StatementOf(n)
  BY SoleStays
<1>8. ASSUME NEW i \in 1..m + r, NEW n \in Node, Claims(l[i], n)
      PROVE  Due(StatementOf(n))' /\ \A j \in 1..i - 1 : Still(l[j])
  <2>1. CASE i \in 1..m
    <3>1. l[i] = items[i] /\ \A j \in 1..i - 1 : l[j] = items[j]
      BY <1>6, <2>1
    <3>2. Due(StatementOf(n))' /\ \A j \in 1..i - 1 : Still(items[j])
      BY <1>5, <1>8, <2>1, <3>1
    <3> QED
      BY <3>1, <3>2
  <2>2. CASE i \notin 1..m
    <3>1. PICK k \in 1..r : i = m + k
      <4>1. i - m \in 1..r /\ i = m + (i - m)
        BY <2>2
      <4> QED
        BY <4>1
    <3>2. l[i] = rest[k]
      <4>1. i \in m + 1..m + r /\ i - m = k
        BY <3>1
      <4> QED
        BY <1>6, <4>1
    <3>3. rest[k] = agenda[k + 1] /\ k + 1 \in 1..Len(agenda)
      BY <1>2, <1>5, <3>1
    <3>4. Claims(agenda[k + 1], n)
      BY <1>8, <3>2, <3>3
    <3>5. Due(StatementOf(n)) /\ \A j \in 1..(k + 1) - 1 : Still(agenda[j])
      BY <3>3, <3>4 DEF Attended
    <3>6. Still(Head(agenda))
      <4>1. 1 \in 1..(k + 1) - 1
        BY <3>1
      <4> QED
        BY <1>2, <3>5, <4>1
    <3>7. Due(StatementOf(n))' /\ \A j \in 1..m : Still(items[j])
      <4>1. PICK h : h = StatementOf(n) /\ h = StatementOf(n)'
        BY <1>7
      <4>2. Due(h)' /\ \A j \in 1..m : Still(items[j])
        BY <1>5, <3>5, <3>6, <4>1
      <4>3. Due(h)' => Due(StatementOf(n))'
        BY <4>1 DEF Due, HasRow, Bound, Writes
      <4> QED
        BY <4>2, <4>3
    <3>8. ASSUME NEW j \in 1..i - 1 PROVE Still(l[j])
      <4>1. CASE j \in 1..m
        BY <1>6, <3>7, <4>1
      <4>2. CASE j \notin 1..m
        <5>1. PICK q \in 1..k - 1 : j = m + q
          <6>1. j - m \in 1..k - 1 /\ j = m + (j - m)
            BY <3>1, <4>2
          <6> QED
            BY <6>1
        <5>2. j \in m + 1..m + r /\ j - m = q /\ q \in 1..r
          BY <3>1, <5>1
        <5>3. l[j] = rest[q] /\ rest[q] = agenda[q + 1]
          BY <1>2, <1>5, <1>6, <5>2
        <5>4. q + 1 \in 1..(k + 1) - 1
          BY <5>1
        <5> QED
          BY <3>5, <5>3, <5>4
      <4> QED
        BY <4>1, <4>2
    <3> QED
      BY <3>7, <3>8
  <2> QED
    BY <2>1, <2>2
<1>9. \A i \in 1..m + r : \A n \in Node : Claims(l[i], n)' =>
        Due(StatementOf(n))' /\ \A j \in 1..i - 1 : Still(l[j])'
  BY <1>7, <1>8
<1> QED
  BY <1>4, <1>6, <1>9 DEF Attended

EnteringOps == {"visit", "arm", "enter"}
\* Items that enter different nodes of S.
Pieces(items, S) ==
    /\ items \in Seq(Item)
    /\ \A i \in 1..Len(items) :
          items[i].op \in Calm \/ (items[i].op \in EnteringOps /\ Entry(items[i]) \in S)
    /\ \A i \in 1..Len(items) : \A j \in 1..i - 1 :
          items[i].op \in EnteringOps /\ items[j].op \in EnteringOps
            => Entry(items[i]) # Entry(items[j])

\* A node in the place of its visit: nothing but its parts is visited, none of
\* them twice; what it files, it files before.
LEMMA VisitAttends ==
    ASSUME WalkInv, WalkInv', Attended, agenda # <<>>, UNCHANGED program,
           NEW m \in Node, Head(agenda).op = "visit", Head(agenda).node = m,
           NEW items, NEW S, Pieces(items, S), Replace(items),
           \A i \in 1..Len(items) : items[i].op \in {"visit", "arm"} =>
              \E k \in DOMAIN Parts(m) : Entry(items[i]) = Parts(m)[k],
           \A i \in 1..Len(items) : items[i].op = "enter" =>
              items[i].node = m /\ Of(m).kind = "call",
           Of(m).kind \notin Makers \cup {"timed"} => \A h : Due(h) => Due(h)',
           Of(m).kind \in Makers => Due(m)'
    PROVE  Attended'
<1>1. program \in Program
  BY DEF WalkInv, StartOK
<1>2. Entry(Head(agenda)) = m
  BY DEF Entry
<1>3. ASSUME Still(Head(agenda))
      PROVE  (\A j \in 1..Len(items) : Still(items[j])) /\ \A h : Due(h) => Due(h)'
  <2>1. Inert(m)
    BY <1>2, <1>3 DEF Still, Calm
  <2>2. Of(m).kind \notin Busy
    BY <2>1 DEF Inert, Under
  <2>3. ASSUME NEW j \in 1..Len(items) PROVE Still(items[j])
    <3>1. items[j].op \in Calm \/ items[j].op \in {"visit", "arm"}
      BY <2>2 DEF Pieces, EnteringOps, Busy
    <3>2. ASSUME items[j].op \in {"visit", "arm"} PROVE Inert(Entry(items[j]))
      <4>1. PICK k \in DOMAIN Parts(m) : Entry(items[j]) = Parts(m)[k]
        BY <3>2
      <4>2. PICK e : e = Parts(m)[k] /\ e = Entry(items[j])
        BY <4>1
      <4>3. Inert(e)
        BY <1>1, <2>1, <4>2, InertPart
      <4> QED
        BY <4>2, <4>3
    <3> QED
      BY <3>1, <3>2 DEF Still
  <2> QED
    BY <2>2, <2>3 DEF Busy
<1>4. ASSUME NEW i \in 1..Len(items), NEW n \in Node, Claims(items[i], n)
      PROVE  Due(StatementOf(n))' /\ \A j \in 1..i - 1 : Still(items[j])
  <2>1. PICK e : e = Entry(items[i])
    OBVIOUS
  <2>2. /\ items[i].op \in EnteringOps /\ Sole(n) /\ Under(e, n)
        /\ StatementOf(e) = StatementOf(n)
    BY <1>4, <2>1 DEF Claims, EnteringOps
  <2>3. \A d \in Node : d # n /\ StatementOf(d) = StatementOf(n) => Of(d).kind \notin Busy
    BY <2>2 DEF Sole, OnlyCall, Busy
  <2>4. \/ items[i].op = "enter" /\ e = m /\ m = n
        \/ /\ Of(m).kind # "call" /\ items[i].op \in {"visit", "arm"}
           /\ \E k \in DOMAIN Parts(m) : e = Parts(m)[k]
    <3>1. CASE items[i].op = "enter"
      <4>1. e = m /\ Of(m).kind = "call"
        BY <2>1, <3>1 DEF Entry
      <4> QED
        BY <2>2, <2>3, <3>1, <4>1 DEF Busy
    <3>2. CASE items[i].op # "enter"
      <4>1. items[i].op \in {"visit", "arm"}
        BY <2>2, <3>2 DEF EnteringOps
      <4>2. PICK k \in DOMAIN Parts(m) : e = Parts(m)[k]
        BY <2>1, <4>1
      <4>3. StatementOf(e) = (IF Of(m).kind \in Makers THEN m ELSE StatementOf(m)) /\ n # m
        BY <1>1, <2>2, <4>2, UnderPart
      <4>4. Of(m).kind = "call" => StatementOf(m) = StatementOf(n)
        BY <2>2, <4>3 DEF Makers
      <4>5. Of(m).kind # "call"
        BY <2>3, <4>3, <4>4 DEF Busy
      <4> QED
        BY <4>1, <4>2, <4>5
    <3> QED
      BY <3>1, <3>2
  <2>5. Due(StatementOf(n))'
    <3>1. PICK h : h = StatementOf(n) /\ h = StatementOf(n)'
      BY SourceStays
    <3>2. Due(h)' => Due(StatementOf(n))'
      BY <3>1 DEF Due, HasRow, Bound, Writes
    <3>3. CASE Of(m).kind \in Makers
      <4>1. Of(m).kind # "call"
        BY <3>3 DEF Makers
      <4>2. PICK k \in DOMAIN Parts(m) : e = Parts(m)[k]
        BY <2>4, <4>1, <2>2 DEF Sole
      <4>3. StatementOf(e) = m
        BY <1>1, <3>3, <4>2, UnderPart
      <4> QED
        BY <2>2, <3>1, <3>2, <3>3, <4>3
    <3>4. CASE Of(m).kind \notin Makers
      <4>1. Under(m, n) /\ StatementOf(m) = StatementOf(n) /\ (m = n \/ Of(m).kind \notin Busy)
        <5>1. CASE m = n
          BY <5>1 DEF Under
        <5>2. CASE m # n
          <6>1. PICK k \in DOMAIN Parts(m) : e = Parts(m)[k]
            BY <2>4, <5>2
          <6>2. StatementOf(e) = StatementOf(m) /\ Under(m, n)
            BY <1>1, <2>2, <3>4, <6>1, UnderPart
          <6> QED
            BY <2>2, <2>3, <5>2, <6>2
        <5> QED
          BY <5>1, <5>2
      <4>2. Claims(Head(agenda), n)
        BY <1>2, <2>2, <4>1 DEF Claims
      <4>3. Due(h)
        <5>1. agenda[1] = Head(agenda) /\ 1 \in 1..Len(agenda)
          <6>1. Head(agenda) = agenda[1] /\ Len(agenda) \in Nat \ {0}
            BY Rest DEF WalkInv
          <6> QED
            BY <6>1
        <5> QED
          BY <3>1, <4>2, <5>1 DEF Attended
      <4>4. Of(m).kind \notin Makers \cup {"timed"}
        BY <2>2, <3>4, <4>1 DEF Sole, Busy
      <4> QED
        BY <3>2, <4>3, <4>4
    <3> QED
      BY <3>3, <3>4
  <2>6. ASSUME NEW j \in 1..i - 1 PROVE Still(items[j])
    <3>1. j \in 1..Len(items)
      <4>1. Len(items) \in Nat
        BY DEF Pieces
      <4> QED
        BY <4>1
    <3>2. CASE items[j].op \in Calm
      BY <3>2 DEF Still
    <3>3. CASE items[j].op \notin Calm
      <4>1. PICK d : d = Entry(items[j])
        OBVIOUS
      <4>2. items[j].op \in EnteringOps /\ d # e
        BY <2>1, <2>2, <3>1, <3>3, <4>1 DEF Pieces
      <4>3. items[j].op \in {"visit", "arm"}
        <5>1. ASSUME items[j].op = "enter" PROVE FALSE
          <6>1. d = m /\ Of(m).kind = "call"
            BY <3>1, <4>1, <5>1 DEF Entry
          <6> QED
            BY <2>4, <4>2, <6>1
        <5> QED
          BY <4>2, <5>1 DEF EnteringOps
      <4>4. PICK k \in DOMAIN Parts(m) : d = Parts(m)[k]
        BY <3>1, <4>1, <4>3
      <4>5. /\ d \in Node /\ HolderOf(d) = m /\ ~Under(d, m)
            /\ StatementOf(d) = (IF Of(m).kind \in Makers THEN m ELSE StatementOf(m))
        BY <1>1, <4>4, UnderPart
      <4>6. StatementOf(d) = StatementOf(n) /\ ~Under(d, n)
        <5>1. CASE m = n
          BY <2>2, <4>5, <5>1 DEF Sole, Makers
        <5>2. CASE m # n
          <6>1. PICK q \in DOMAIN Parts(m) : e = Parts(m)[q]
            BY <2>4, <5>2
          <6>2. /\ e \in Node /\ HolderOf(e) = m
                /\ StatementOf(e) = (IF Of(m).kind \in Makers THEN m ELSE StatementOf(m))
            BY <1>1, <6>1, UnderPart
          <6>3. ~(Under(d, n) /\ Under(e, n))
            BY <1>1, <4>2, <4>5, <6>2, UnderOne
          <6> QED
            BY <2>2, <4>5, <6>2, <6>3
        <5> QED
          BY <5>1, <5>2
      <4>7. Inert(d)
        BY <1>1, <2>2, <4>5, <4>6, BesideSole
      <4> QED
        BY <4>1, <4>3, <4>7 DEF Still
    <3> QED
      BY <3>2, <3>3
  <2> QED
    BY <2>5, <2>6
<1>5. items \in Seq(Item)
  BY DEF Pieces
<1> QED
  BY <1>3, <1>4, <1>5, AttendReplaced

Once(ns) == \A i \in 1..Len(ns) : \A j \in 1..Len(ns) : ns[i] = ns[j] => i = j

LEMMA RunsApart ==
    ASSUME program \in Program, NEW m \in Node
    PROVE  /\ Once(Of(m).head) /\ Once(Of(m).arms) /\ Once(Of(m).kids)
           /\ Elements(Of(m).head) \cap Elements(Of(m).arms) = {}
           /\ m \notin Elements(Of(m).kids)
           /\ \A k \in Elements(Of(m).head) \cup Elements(Of(m).arms) \cup Elements(Of(m).kids) :
                 \E i \in DOMAIN Parts(m) : k = Parts(m)[i]
<1>1. PICK h \in Nat, a \in Nat, k \in Nat :
             /\ h = Len(Of(m).head) /\ a = Len(Of(m).arms) /\ k = Len(Of(m).kids)
             /\ \A j \in 1..h : j \in DOMAIN Parts(m) /\ Parts(m)[j] = Of(m).head[j]
             /\ \A j \in 1..a : h + j \in DOMAIN Parts(m) /\ Parts(m)[h + j] = Of(m).arms[j]
             /\ \A j \in 1..k : /\ h + a + j \in DOMAIN Parts(m)
                               /\ Parts(m)[h + a + j] = Of(m).kids[j]
  BY PartIndices
<1>2. PICK p : p = Parts(m)
  OBVIOUS
<1>3. \A i, j \in DOMAIN p : p[i] = p[j] => i = j
  BY <1>2, PartPlaced
<1>4. Once(Of(m).head)
  <2>1. ASSUME NEW i \in 1..h, NEW j \in 1..h, Of(m).head[i] = Of(m).head[j] PROVE i = j
    <3>1. i \in DOMAIN p /\ j \in DOMAIN p /\ p[i] = p[j]
      BY <1>1, <1>2, <2>1
    <3> QED
      BY <1>3, <3>1
  <2> QED
    BY <1>1, <2>1 DEF Once
<1>5. Once(Of(m).arms)
  <2>1. ASSUME NEW i \in 1..a, NEW j \in 1..a, Of(m).arms[i] = Of(m).arms[j] PROVE i = j
    <3>1. h + i \in DOMAIN p /\ h + j \in DOMAIN p /\ p[h + i] = p[h + j]
      BY <1>1, <1>2, <2>1
    <3>2. h + i = h + j
      BY <1>3, <3>1
    <3> QED
      BY <3>2
  <2> QED
    BY <1>1, <2>1 DEF Once
<1>6. Once(Of(m).kids)
  <2>1. ASSUME NEW i \in 1..k, NEW j \in 1..k, Of(m).kids[i] = Of(m).kids[j] PROVE i = j
    <3>1. h + a + i \in DOMAIN p /\ h + a + j \in DOMAIN p /\ p[h + a + i] = p[h + a + j]
      BY <1>1, <1>2, <2>1
    <3>2. h + a + i = h + a + j
      BY <1>3, <3>1
    <3> QED
      BY <3>2
  <2> QED
    BY <1>1, <2>1 DEF Once
<1>7. Elements(Of(m).head) \cap Elements(Of(m).arms) = {}
  BY HeadPlaced DEF Elements
<1>8. m \notin Elements(Of(m).kids)
  <2>1. ASSUME NEW j \in 1..k PROVE Of(m).kids[j] # m
    <3>1. PICK i : i \in DOMAIN Parts(m) /\ Parts(m)[i] = Of(m).kids[j]
      BY <1>1
    <3>2. Parts(m)[i] > m /\ m \in Nat
      BY <3>1, PartPlaced, NodesPositive
    <3> QED
      BY <3>1, <3>2
  <2> QED
    BY <1>1, <2>1 DEF Elements
<1>9. \A q \in Elements(Of(m).head) \cup Elements(Of(m).arms) \cup Elements(Of(m).kids) :
                 \E i \in DOMAIN Parts(m) : q = Parts(m)[i]
  <2>1. ASSUME NEW q \in Elements(Of(m).head) PROVE \E i \in DOMAIN Parts(m) : q = Parts(m)[i]
    <3>1. PICK j \in 1..h : q = Of(m).head[j]
      BY <1>1 DEF Elements
    <3> QED
      BY <1>1, <3>1
  <2>2. ASSUME NEW q \in Elements(Of(m).arms) PROVE \E i \in DOMAIN Parts(m) : q = Parts(m)[i]
    <3>1. PICK j \in 1..a : q = Of(m).arms[j]
      BY <1>1 DEF Elements
    <3> QED
      BY <1>1, <3>1
  <2>3. ASSUME NEW q \in Elements(Of(m).kids) PROVE \E i \in DOMAIN Parts(m) : q = Parts(m)[i]
    <3>1. PICK j \in 1..k : q = Of(m).kids[j]
      BY <1>1 DEF Elements
    <3> QED
      BY <1>1, <3>1
  <2> QED
    BY <2>1, <2>2, <2>3
<1> QED
  BY <1>4, <1>5, <1>6, <1>7, <1>8, <1>9

Never(items, op) == \A i \in 1..Len(items) : items[i].op # op

LEMMA PiecesJoin ==
    ASSUME NEW p, NEW S, Pieces(p, S), NEW q, NEW T, Pieces(q, T), S \cap T = {}
    PROVE  /\ Pieces(p \o q, S \cup T)
           /\ Never(p, "enter") /\ Never(q, "enter") => Never(p \o q, "enter")
<1>1. p \in Seq(Item) /\ q \in Seq(Item)
  BY DEF Pieces
<1>2. PICK m \in Nat, n \in Nat : m = Len(p) /\ n = Len(q)
  BY <1>1
<1>3. PICK l : l = p \o q
  OBVIOUS
<1>4. /\ l \in Seq(Item) /\ Len(l) = m + n /\ \A i \in 1..m : l[i] = p[i]
      /\ \A i \in m + 1..m + n : l[i] = q[i - m]
  <2>1. /\ l \in Seq(Item) /\ Len(l) = Len(p) + Len(q) /\ \A i \in 1..Len(p) : l[i] = p[i]
        /\ \A i \in Len(p) + 1..Len(p) + Len(q) : l[i] = q[i - Len(p)]
    BY <1>1, <1>3, Joined
  <2> QED
    BY ONLY <1>2, <2>1
<1>5. \A i \in 1..m + n : i \in 1..m \/ \E k \in 1..n : i = m + k
  <2>1. ASSUME NEW i \in 1..m + n, i \notin 1..m PROVE i - m \in 1..n /\ i = m + (i - m)
    BY <2>1
  <2> QED
    BY <2>1
<1>6. \A k \in 1..n : l[m + k] = q[k]
  <2>1. SUFFICES ASSUME NEW k \in 1..n PROVE l[m + k] = q[k]
    OBVIOUS
  <2>2. m + k \in m + 1..m + n /\ (m + k) - m = k
    OBVIOUS
  <2> QED
    BY <1>4, <2>2
<1>7. /\ \A i \in 1..m : p[i].op \in Calm \/ (p[i].op \in EnteringOps /\ Entry(p[i]) \in S)
      /\ \A i \in 1..n : q[i].op \in Calm \/ (q[i].op \in EnteringOps /\ Entry(q[i]) \in T)
      /\ \A i \in 1..m : \A j \in 1..i - 1 : p[i].op \in EnteringOps /\ p[j].op \in EnteringOps
            => Entry(p[i]) # Entry(p[j])
      /\ \A i \in 1..n : \A j \in 1..i - 1 : q[i].op \in EnteringOps /\ q[j].op \in EnteringOps
            => Entry(q[i]) # Entry(q[j])
  BY <1>2 DEF Pieces
<1>8. /\ \A i \in 1..m : p[i].op \in EnteringOps => Entry(p[i]) \in S
      /\ \A i \in 1..n : q[i].op \in EnteringOps => Entry(q[i]) \in T
  BY <1>7 DEF Calm, EnteringOps
<1>9. ASSUME NEW i \in 1..m + n
      PROVE  l[i].op \in Calm \/ (l[i].op \in EnteringOps /\ Entry(l[i]) \in S \cup T)
  <2>1. CASE i \in 1..m
    BY <1>4, <1>7, <2>1
  <2>2. CASE i \notin 1..m
    <3>1. PICK k \in 1..n : i = m + k
      BY <1>5, <2>2
    <3>2. l[i] = q[k]
      BY <1>6, <3>1
    <3> QED
      BY <1>7, <3>2
  <2> QED
    BY <2>1, <2>2
<1>10. ASSUME NEW i \in 1..m + n, NEW j \in 1..i - 1,
              l[i].op \in EnteringOps, l[j].op \in EnteringOps
       PROVE  Entry(l[i]) # Entry(l[j])
  <2>1. CASE i \in 1..m
    <3>1. j \in 1..m /\ l[i] = p[i] /\ l[j] = p[j]
      BY <1>4, <2>1
    <3> QED
      BY <1>7, <1>10, <2>1, <3>1
  <2>2. CASE i \notin 1..m
    <3>1. PICK k \in 1..n : i = m + k
      BY <1>5, <2>2
    <3>2. l[i] = q[k]
      BY <1>6, <3>1
    <3>3. CASE j \in 1..m
      <4>1. l[j] = p[j]
        BY <1>4, <3>3
      <4> QED
        BY <1>8, <1>10, <3>2, <3>3, <4>1
    <3>4. CASE j \notin 1..m
      <4>1. j \in 1..m + n
        BY <1>10
      <4>2. PICK d \in 1..n : j = m + d
        BY <1>5, <3>4, <4>1
      <4>3. l[j] = q[d] /\ d \in 1..k - 1
        BY <1>6, <3>1, <4>2
      <4> QED
        BY <1>7, <1>10, <3>2, <4>3
    <3> QED
      BY <3>3, <3>4
  <2> QED
    BY <2>1, <2>2
<1>11. ASSUME Never(p, "enter"), Never(q, "enter") PROVE Never(l, "enter")
  <2>1. ASSUME NEW i \in 1..m + n PROVE l[i].op # "enter"
    <3>1. CASE i \in 1..m
      BY <1>2, <1>4, <1>11, <3>1 DEF Never
    <3>2. CASE i \notin 1..m
      <4>1. PICK k \in 1..n : i = m + k
        BY <1>5, <3>2
      <4> QED
        BY <1>2, <1>6, <1>11, <4>1 DEF Never
    <3> QED
      BY <3>1, <3>2
  <2> QED
    BY <1>4, <2>1 DEF Never
<1>12. Pieces(l, S \cup T)
  BY <1>4, <1>9, <1>10 DEF Pieces
<1> QED
  BY <1>3, <1>11, <1>12

LEMMA PiecesOne ==
    ASSUME NEW it \in Item, NEW S, it.op \in Calm \/ (it.op \in EnteringOps /\ Entry(it) \in S)
    PROVE  Pieces(<<it>>, S) /\ (it.op # "enter" => Never(<<it>>, "enter"))
<1>1. PICK l \in Seq(Item) : l = <<it>>
  BY Single
<1>2. Len(l) = 1 /\ l[1] = it
  BY <1>1
<1>3. Pieces(l, S) /\ (it.op # "enter" => Never(l, "enter"))
  BY <1>2 DEF Pieces, Never
<1> QED
  BY <1>1, <1>3

LEMMA PiecesVisits ==
    ASSUME NEW ns \in Seq(Node), Once(ns)
    PROVE  Pieces(Visits(ns), Elements(ns)) /\ Never(Visits(ns), "enter")
<1>1. PICK l \in Seq(Item) : l = Visits(ns)
  BY VisitsTyped
<1>2. Len(l) = Len(ns) /\ \A i \in 1..Len(ns) : l[i] = Do("visit", ns[i])
  BY <1>1, VisitsTyped
<1>3. \A i \in 1..Len(ns) : l[i].op = "visit" /\ Entry(l[i]) = ns[i]
  <2>1. SUFFICES ASSUME NEW i \in 1..Len(ns) PROVE l[i].op = "visit" /\ Entry(l[i]) = ns[i]
    OBVIOUS
  <2>3. PICK e \in Node : e = ns[i]
    OBVIOUS
  <2>4. l[i] = Do("visit", e)
    BY <1>2, <2>3
  <2>2. l[i].op = "visit" /\ l[i].node = ns[i]
    BY <2>3, <2>4, DoItem
  <2> QED
    BY <2>2 DEF Entry
<1>4. Len(ns) \in Nat
  OBVIOUS
<1>5. \A i \in 1..Len(ns) : \A j \in 1..i - 1 : ns[i] # ns[j]
  <2>1. SUFFICES ASSUME NEW i \in 1..Len(ns), NEW j \in 1..i - 1 PROVE ns[i] # ns[j]
    OBVIOUS
  <2>2. j \in 1..Len(ns) /\ i # j
    BY <1>4
  <2> QED
    BY <2>2 DEF Once
<1>6. \A i \in 1..Len(ns) : \A j \in 1..i - 1 : Entry(l[i]) # Entry(l[j])
  <2>1. SUFFICES ASSUME NEW i \in 1..Len(ns), NEW j \in 1..i - 1
                 PROVE  Entry(l[i]) # Entry(l[j])
    OBVIOUS
  <2>2. j \in 1..Len(ns)
    BY <1>4
  <2> QED
    BY <1>3, <1>5, <2>2
<1>7. Pieces(l, Elements(ns)) /\ Never(l, "enter")
  BY <1>2, <1>3, <1>6 DEF Pieces, Never, Elements, EnteringOps
<1> QED
  BY <1>1, <1>7

LEMMA PiecesArms ==
    ASSUME StartOK, NEW n \in Node, Once(Of(n).arms)
    PROVE  Pieces(Arms(n), Elements(Of(n).arms)) /\ Never(Arms(n), "enter")
<1>1. PICK l, ns : l = Arms(n) /\ ns = Of(n).arms
  OBVIOUS
<1>2. /\ l \in Seq(Item) /\ Len(l) = Len(ns)
      /\ \A j \in 1..Len(ns) : l[j].op = "arm" /\ l[j].node = n /\ l[j].arm = j
  BY <1>1, ArmItems
<1>3. \A i \in 1..Len(ns) : Entry(l[i]) = ns[i]
  BY <1>1, <1>2 DEF Entry
<1>4. Len(ns) \in Nat
  BY <1>1, <1>2
<1>5. \A i \in 1..Len(ns) : \A j \in 1..i - 1 : ns[i] # ns[j]
  <2>1. SUFFICES ASSUME NEW i \in 1..Len(ns), NEW j \in 1..i - 1 PROVE ns[i] # ns[j]
    OBVIOUS
  <2>2. j \in 1..Len(ns) /\ i # j
    BY <1>4
  <2> QED
    BY <1>1, <2>2 DEF Once
<1>6. \A i \in 1..Len(ns) : \A j \in 1..i - 1 : Entry(l[i]) # Entry(l[j])
  <2>1. SUFFICES ASSUME NEW i \in 1..Len(ns), NEW j \in 1..i - 1
                 PROVE  Entry(l[i]) # Entry(l[j])
    OBVIOUS
  <2>2. j \in 1..Len(ns)
    BY <1>4
  <2> QED
    BY <1>3, <1>5, <2>2
<1>7. Pieces(l, Elements(ns)) /\ Never(l, "enter")
  BY <1>2, <1>3, <1>6 DEF Pieces, Never, Elements, EnteringOps
<1> QED
  BY <1>1, <1>7

LEMMA FiledBound ==
    ASSUME RowsOK, NEW n, NEW r \in Stmt, r.node = n, r.site = ctx.site,
           File(<<r>>), UNCHANGED ctx
    PROVE  Bound(n)'
<1>1. PICK rows \in Seq(Stmt) : rows = <<r>>
  BY Single
<1>2. Len(rows) = 1 /\ rows[1] = r
  BY <1>1
<1>3. PICK t : t = stmts \o rows
  OBVIOUS
<1>4. stmts' = t /\ curStmt' = Len(stmts) + 1
  BY <1>1, <1>2, <1>3 DEF File
<1>5. stmts \in Seq(Stmt) /\ Len(stmts) \in Nat
  BY DEF RowsOK
<1>6. t[Len(stmts) + 1] = r
  <2>1. \A i \in Len(stmts) + 1..Len(stmts) + Len(rows) : t[i] = rows[i - Len(stmts)]
    BY <1>3, <1>5, Joined
  <2>2. Len(stmts) + 1 \in Len(stmts) + 1..Len(stmts) + Len(rows)
        /\ Len(stmts) + 1 - Len(stmts) = 1
    BY <1>2, <1>5
  <2> QED
    BY <1>2, <2>1, <2>2
<1>7. curStmt' # 0
  BY <1>4, <1>5
<1> QED
  BY <1>4, <1>6, <1>7 DEF Bound

\* What a write in hand writes.
LEMMA WritesHere ==
    ASSUME WalkInv, Follows, agenda # <<>>, Head(agenda).op = "visit",
           NEW n \in Node, Head(agenda).node = n
    PROVE  /\ ctx.site \in 0..Len(sites)
           /\ Of(n).kind \in {"assign", "step"} => Writes(n, ctx.site) = Of(n).vars \ ctx.indices
           /\ Of(n).kind = "return" =>
                Writes(n, ctx.site) = IF ctx.sub = 0 THEN {} ELSE program.result[ctx.sub]
<1>1. Sound(Now) /\ Placed(n, Now) /\ Now.c = ctx
  BY AtHand
<1>2. PICK s \in 0..Len(sites) : s = ctx.site
  BY DEF WalkInv, CtxOK
<1>3. /\ ctx.indices = IndicesIn(n, s) /\ Root(n) = TopOf(s)
      /\ ctx.sub = (IF s = 0 THEN 0 ELSE sites[s].callee)
  BY <1>1, <1>2 DEF Sound, Placed
<1>4. s # 0 => ctx.sub \in Node /\ ctx.sub # 0 /\ Root(n) = ctx.sub
  <2>1. ASSUME s # 0 PROVE ctx.sub \in Node /\ Root(n) = ctx.sub
    <3>1. CallsOK /\ Len(sites) \in Nat
      BY SiteFacts DEF WalkInv
    <3>2. s \in 1..Len(sites)
      BY <2>1, <3>1
    <3>3. sites[s].callee \in Node
      BY <3>1, <3>2, SiteFacts DEF Site
    <3> QED
      BY <1>3, <2>1, <3>3 DEF TopOf
  <2> QED
    BY <2>1, NodesPositive
<1>5. Of(n).kind \in {"assign", "step"} => Writes(n, s) = Of(n).vars \ ctx.indices
  BY <1>3 DEF Writes
<1>6. Of(n).kind = "return" =>
        Writes(n, s) = IF ctx.sub = 0 THEN {} ELSE program.result[ctx.sub]
  BY <1>3, <1>4 DEF Writes
<1> QED
  BY <1>2, <1>5, <1>6

\* A statement that has a row files it when it is visited.
LEMMA MakerDue ==
    ASSUME WalkInv, WalkInv', Follows, NEW n \in Node,
           HandleAssignment(n) \/ HandleStep(n) \/ HandleReturn(n) \/ HandleRow(n)
    PROVE  Due(n)'
<1>1. /\ agenda # <<>> /\ Head(agenda).op = "visit" /\ Head(agenda).node = n
      /\ NoCalls /\ Quiet /\ UNCHANGED ctx
  BY DEF HandleAssignment, HandleStep, HandleReturn, HandleRow, Visiting, Pending, VisitDefault
<1>2. /\ StartOK /\ CallsOK /\ RowsOK /\ LevelsOK /\ CtxOK /\ ctx \in Context
      /\ StartOK' /\ CallsOK'
  BY DEF WalkInv, CtxOK
<1>4. PICK s \in 0..Len(sites) : s = ctx.site
  BY <1>2 DEF CtxOK
<1>5. /\ Of(n).kind \in {"assign", "step"} => Writes(n, s) = Of(n).vars \ ctx.indices
      /\ Of(n).kind = "return" =>
           Writes(n, s) = IF ctx.sub = 0 THEN {} ELSE program.result[ctx.sub]
  BY <1>1, <1>4, WritesHere
<1>6. Grown /\ UNCHANGED program
  BY <1>1, <1>2 DEF Grown, NoCalls, Quiet, CallsOK
<1>7. HasRow(n, s) <=> HasRow(n, s)'
  BY <1>2, <1>6, WritesStay
<1>8. ASSUME HasRow(n, s) => Bound(n)' PROVE Due(n)'
  <2>1. Due(n)' <=> (HasRow(n, s)' => Bound(n)')
    BY <1>1, <1>4 DEF Due, HasRow, Writes
  <2> QED
    BY <1>7, <1>8, <2>1
<1>9. ASSUME NEW writes \in SUBSET Var, NEW delay \in Delay \cup {NoDelay},
             File(<<Write(n, writes, delay)>>)
      PROVE  Bound(n)'
  <2>1. PICK r \in Stmt : r = Write(n, writes, delay)
    BY <1>2, WriteIsStmt
  <2>2. r.node = n /\ r.site = ctx.site
    BY <2>1, RowOf
  <2> QED
    BY <1>1, <1>2, <1>9, <2>1, <2>2, FiledBound
<1>10. /\ Of(n).vars \subseteq Var /\ Of(n).delay \in Delay \cup {NoDelay}
       /\ ctx.delay \in Delay \cup {NoDelay}
       /\ (ctx.sub # 0 => program.result[ctx.sub] \subseteq Var)
  BY <1>2, SyntaxOf DEF Syntax, Context
<1>11. CASE HandleAssignment(n)
  <2>1. PICK targets \in SUBSET Var : targets = Of(n).vars \ ctx.indices
    BY <1>10
  <2>2. PICK delay \in Delay \cup {NoDelay} :
           delay = IF Of(n).delay # NoDelay THEN Of(n).delay ELSE ctx.delay
    BY <1>10
  <2>3. Of(n).kind = "assign"
    BY <1>11 DEF HandleAssignment, Visiting
  <2>4. Writes(n, s) = targets
    BY <1>5, <2>1, <2>3
  <2>5. targets # {} => File(<<Write(n, targets, delay)>>)
    BY <1>11, <2>1, <2>2 DEF HandleAssignment
  <2>6. HasRow(n, s) => targets # {}
    BY <2>3, <2>4 DEF HasRow
  <2> QED
    BY <1>8, <1>9, <2>5, <2>6
<1>12. CASE HandleStep(n)
  <2>1. PICK targets \in SUBSET Var : targets = Of(n).vars \ ctx.indices
    BY <1>10
  <2>3. Of(n).kind = "step"
    BY <1>12 DEF HandleStep, Visiting
  <2>4. Writes(n, s) = targets
    BY <1>5, <2>1, <2>3
  <2>5. targets # {} => File(<<Write(n, targets, ctx.delay)>>)
    BY <1>12, <2>1 DEF HandleStep
  <2>6. HasRow(n, s) => targets # {}
    BY <2>3, <2>4 DEF HasRow
  <2> QED
    BY <1>8, <1>9, <1>10, <2>5, <2>6
<1>13. CASE HandleReturn(n)
  <2>1. PICK result \in SUBSET Var :
           result = IF ctx.sub = 0 THEN {} ELSE program.result[ctx.sub]
    BY <1>10
  <2>3. Of(n).kind = "return"
    BY <1>13 DEF HandleReturn, Visiting
  <2>4. Writes(n, s) = result
    BY <1>5, <2>1, <2>3
  <2>5. result # {} => File(<<Write(n, result, ctx.delay)>>)
    BY <1>13, <2>1 DEF HandleReturn
  <2>6. HasRow(n, s) => result # {}
    BY <2>3, <2>4 DEF HasRow
  <2> QED
    BY <1>8, <1>9, <1>10, <2>5, <2>6
<1>14. CASE HandleRow(n)
  <2>1. PICK none \in SUBSET Var : none = {}
    OBVIOUS
  <2>2. PICK r \in Stmt : r = Row(n, 0, none)
    BY <1>2, RowIsStmt
  <2>3. r.node = n /\ r.site = ctx.site
    BY <2>2 DEF Row
  <2>4. File(<<r>>)
    BY <1>14, <2>1, <2>2 DEF HandleRow
  <2>5. Bound(n)'
    BY <1>1, <1>2, <2>3, <2>4, FiledBound
  <2> QED
    BY <1>8, <2>5
<1> QED
  BY <1>11, <1>12, <1>13, <1>14

\* A node whose items visit its parts.
LEMMA PartsAttend ==
    ASSUME WalkInv, WalkInv', Attended, agenda # <<>>, UNCHANGED program,
           NEW m \in Node, Head(agenda).op = "visit", Head(agenda).node = m,
           NEW items, NEW S, Pieces(items, S), Never(items, "enter"), Replace(items),
           S \subseteq Elements(Of(m).head) \cup Elements(Of(m).arms) \cup Elements(Of(m).kids),
           Of(m).kind \notin Makers \cup {"timed"} => \A h : Due(h) => Due(h)',
           Of(m).kind \in Makers => Due(m)'
    PROVE  Attended'
<1>1. program \in Program
  BY DEF WalkInv, StartOK
<1>2. ASSUME NEW i \in 1..Len(items), items[i].op \in {"visit", "arm"}
      PROVE  \E k \in DOMAIN Parts(m) : Entry(items[i]) = Parts(m)[k]
  <2>1. Entry(items[i]) \in S
    BY <1>2 DEF Pieces, Calm
  <2> QED
    BY <1>1, <2>1, RunsApart
<1>3. \A i \in 1..Len(items) : items[i].op # "enter"
  BY DEF Never
<1> QED
  BY <1>2, <1>3, VisitAttends

LEMMA GuardedPieces ==
    ASSUME StartOK, CtxOK, NEW n \in Node
    PROVE  /\ Pieces(GuardedHead(n), Elements(Of(n).head))
           /\ Never(GuardedHead(n), "enter")
           /\ Pieces(Arms(n), Elements(Of(n).arms)) /\ Never(Arms(n), "enter")
           /\ Elements(Of(n).head) \cap Elements(Of(n).arms) = {}
<1>1. Once(Of(n).head) /\ Once(Of(n).arms)
      /\ Elements(Of(n).head) \cap Elements(Of(n).arms) = {}
  BY RunsApart DEF StartOK
<1>2. PICK hs \in Seq(Node) : hs = Of(n).head
  BY OfProgram DEF StartOK
<1>3. PICK p, S : p = Visits(hs) /\ S = Elements(hs)
  OBVIOUS
<1>4. Pieces(p, S) /\ Never(p, "enter")
  BY <1>1, <1>2, <1>3, PiecesVisits
<1>5. PICK u \in Item : u = Undo("unguard", n) /\ u.op = "unguard"
  BY UndoItem DEF Undoing
<1>6. PICK q : q = <<u>>
  OBVIOUS
<1>7. Pieces(q, {}) /\ Never(q, "enter")
  <2>1. PICK none : none = {}
    OBVIOUS
  <2>2. u.op \in Calm \/ (u.op \in EnteringOps /\ Entry(u) \in none)
    BY <1>5 DEF Calm
  <2> QED
    BY <1>5, <1>6, <2>1, <2>2, PiecesOne
<1>8. Pieces(p \o q, S \cup {}) /\ Never(p \o q, "enter")
  <2>1. PICK none : none = {}
    OBVIOUS
  <2>2. Pieces(q, none) /\ S \cap none = {}
    BY <1>7, <2>1
  <2>3. Pieces(p \o q, S \cup none) /\ Never(p \o q, "enter")
    BY <1>4, <1>7, <2>2, PiecesJoin
  <2> QED
    BY <2>1, <2>3
<1>9. GuardedHead(n) = p \o q /\ S \cup {} = Elements(Of(n).head)
  BY <1>2, <1>3, <1>5, <1>6 DEF GuardedHead
<1>10. Pieces(Arms(n), Elements(Of(n).arms)) /\ Never(Arms(n), "enter")
  BY <1>1, PiecesArms
<1> QED
  BY <1>1, <1>8, <1>9, <1>10

\* The one item that undoes, or opens or closes the levels of a case.
LEMMA PiecesCalm ==
    ASSUME NEW it \in Item, it.op \in Calm
    PROVE  Pieces(<<it>>, {}) /\ Never(<<it>>, "enter")
<1>1. PICK none : none = {}
  OBVIOUS
<1>2. it.op # "enter"
  BY DEF Calm
<1> QED
  BY <1>1, <1>2, PiecesOne

LEMMA PiecesBeside ==
    ASSUME NEW p, NEW S, Pieces(p, S), Never(p, "enter"), NEW q, Pieces(q, {}), Never(q, "enter")
    PROVE  /\ Pieces(p \o q, S) /\ Never(p \o q, "enter")
           /\ Pieces(q \o p, S) /\ Never(q \o p, "enter")
<1>1. S \cap {} = {} /\ {} \cap S = {} /\ S \cup {} = S /\ {} \cup S = S
  OBVIOUS
<1>2. Pieces(p \o q, S \cup {}) /\ Never(p \o q, "enter")
  BY <1>1, PiecesJoin
<1>3. Pieces(q \o p, {} \cup S) /\ Never(q \o p, "enter")
  BY <1>1, PiecesJoin
<1> QED
  BY <1>1, <1>2, <1>3

\* Constructs that set fields of ctx file nothing and visit their parts.
LEMMA ConstructsAttend ==
    ASSUME WalkInv, WalkInv', Attended, NEW n \in Node,
           \/ HandlePlain(n) \/ HandleForce(n) \/ HandleConditional(n) \/ HandleCase(n)
           \/ HandleLoop(n) \/ HandleFor(n) \/ HandleForeach(n)
    PROVE  Attended'
<1>1. /\ agenda # <<>> /\ Head(agenda).op = "visit" /\ Head(agenda).node = n
      /\ NoRows /\ NoCalls /\ Quiet
      /\ Of(n).kind \in {"plain", "force", "if", "case", "loop", "for", "foreach"}
  BY DEF HandlePlain, HandleForce, HandleConditional, HandleCase, HandleLoop,
         HandleFor, HandleForeach, Visiting, Pending, VisitDefault
<1>2. StartOK /\ CtxOK /\ ctx \in Context /\ program \in Program
  BY DEF WalkInv, CtxOK, StartOK
<1>3. ctx'.site = ctx.site
  BY <1>2 DEF HandlePlain, HandleForce, HandleConditional, HandleCase, HandleLoop,
              HandleFor, HandleForeach, Context
<1>4. UNCHANGED <<program, sites, stmts, curStmt>>
  BY <1>1 DEF NoRows, NoCalls, Quiet
<1>5. \A h : Due(h) => Due(h)'
  BY <1>3, <1>4, DueStays
<1>6. ASSUME NEW items, NEW S, Pieces(items, S), Never(items, "enter"), Replace(items),
             S \subseteq Elements(Of(n).head) \cup Elements(Of(n).arms) \cup Elements(Of(n).kids)
      PROVE  Attended'
  <2>1. Of(n).kind \notin Makers
    BY <1>1 DEF Makers
  <2> QED
    BY <1>1, <1>4, <1>5, <1>6, <2>1, PartsAttend
<1>7. PICK H, A, K : /\ H = Elements(Of(n).head) /\ A = Elements(Of(n).arms)
                     /\ K = Elements(Of(n).kids)
  OBVIOUS
<1>8. PICK g, a, v : g = GuardedHead(n) /\ a = Arms(n) /\ v = Visits(Of(n).kids)
  OBVIOUS
<1>9. Pieces(g, H) /\ Pieces(a, A) /\ Never(g, "enter") /\ Never(a, "enter") /\ H \cap A = {}
  BY <1>2, <1>7, <1>8, GuardedPieces
<1>10. Pieces(v, K) /\ Never(v, "enter")
  <2>1. PICK ns \in Seq(Node) : ns = Of(n).kids
    BY <1>2, OfProgram
  <2>2. Once(ns)
    BY <1>2, <2>1, RunsApart
  <2> QED
    BY <1>7, <1>8, <2>1, <2>2, PiecesVisits
<1>11. \A it \in Item : it.op \in Calm => Pieces(<<it>>, {}) /\ Never(<<it>>, "enter")
  BY PiecesCalm
<1>12. ASSUME NEW op \in {"unindex", "unforce"}
       PROVE  Pieces(<<Undo(op, n)>>, {}) /\ Never(<<Undo(op, n)>>, "enter")
  <2>1. Undo(op, n) \in Item /\ Undo(op, n).op = op
    BY <1>2, UndoItem DEF Undoing
  <2> QED
    BY <1>11, <2>1 DEF Calm
<1>13. ASSUME NEW op \in {"point", "pop"}
       PROVE  Pieces(<<Do(op, n)>>, {}) /\ Never(<<Do(op, n)>>, "enter")
  <2>1. Do(op, n) \in Item /\ Do(op, n).op = op
    BY DoItem
  <2> QED
    BY <1>11, <2>1 DEF Calm
<1>14. Pieces(g \o a, H \cup A) /\ Never(g \o a, "enter")
  BY <1>9, PiecesJoin
<1>15. CASE HandlePlain(n)
  <2>1. Replace(v)
    BY <1>8, <1>15 DEF HandlePlain, VisitDefault
  <2> QED
    BY <1>6, <1>7, <1>10, <2>1
<1>16. CASE HandleForce(n)
  <2>1. PICK u : u = <<Undo("unforce", n)>> /\ Pieces(u, {}) /\ Never(u, "enter")
    BY <1>12
  <2>2. Replace(v \o u)
    BY <1>8, <1>16, <2>1 DEF HandleForce
  <2>3. Pieces(v \o u, K) /\ Never(v \o u, "enter")
    BY <1>10, <2>1, PiecesBeside
  <2> QED
    BY <1>6, <1>7, <2>2, <2>3
<1>17. CASE HandleConditional(n) \/ HandleLoop(n)
  <2>1. Replace(g \o a)
    BY <1>8, <1>17 DEF HandleConditional, HandleLoop
  <2> QED
    BY <1>6, <1>7, <1>14, <2>1
<1>18. CASE HandleCase(n)
  <2>1. PICK u, w : /\ u = <<Do("point", n)>> /\ w = <<Do("pop", n)>>
                    /\ Pieces(u, {}) /\ Never(u, "enter") /\ Pieces(w, {}) /\ Never(w, "enter")
    BY <1>13
  <2>2. Replace(g \o u \o a \o w)
    BY <1>8, <1>18, <2>1 DEF HandleCase
  <2>3. Pieces(g \o u, H) /\ Never(g \o u, "enter")
    BY <1>9, <2>1, PiecesBeside
  <2>4. PICK gu : gu = g \o u
    OBVIOUS
  <2>5. Pieces(gu \o a, H \cup A) /\ Never(gu \o a, "enter")
    BY <1>9, <2>3, <2>4, PiecesJoin
  <2>6. PICK gua : gua = gu \o a
    OBVIOUS
  <2>7. Pieces(gua \o w, H \cup A) /\ Never(gua \o w, "enter")
    BY <2>1, <2>5, <2>6, PiecesBeside
  <2>8. Replace(gua \o w)
    BY <2>2, <2>4, <2>6
  <2> QED
    BY <1>6, <1>7, <2>7, <2>8
<1>19. CASE HandleFor(n)
  <2>1. PICK u : u = <<Undo("unindex", n)>> /\ Pieces(u, {}) /\ Never(u, "enter")
    BY <1>12
  <2>2. Replace(g \o a \o u)
    BY <1>8, <1>19, <2>1 DEF HandleFor
  <2>3. PICK ga : ga = g \o a
    OBVIOUS
  <2>4. Pieces(ga \o u, H \cup A) /\ Never(ga \o u, "enter")
    BY <1>14, <2>1, <2>3, PiecesBeside
  <2> QED
    BY <1>6, <1>7, <2>2, <2>3, <2>4
<1>20. CASE HandleForeach(n)
  <2>1. PICK u : u = <<Undo("unindex", n)>> /\ Pieces(u, {}) /\ Never(u, "enter")
    BY <1>12
  <2>2. Replace(a \o u)
    BY <1>8, <1>20, <2>1 DEF HandleForeach
  <2>3. Pieces(a \o u, A) /\ Never(a \o u, "enter")
    BY <1>9, <2>1, PiecesBeside
  <2> QED
    BY <1>6, <1>7, <2>2, <2>3
<1> QED
  BY <1>15, <1>16, <1>17, <1>18, <1>19, <1>20

\* Those that file rows.
LEMMA RowsAttend ==
    ASSUME WalkInv, WalkInv', Follows, Attended, NEW n \in Node,
           \/ HandleAssignment(n) \/ HandleStep(n) \/ HandleReturn(n) \/ HandleRow(n)
           \/ HandleTimed(n)
    PROVE  Attended'
<1>1. /\ agenda # <<>> /\ Head(agenda).op = "visit" /\ Head(agenda).node = n
      /\ Quiet /\ Of(n).kind \in Makers \cup {"timed"}
  BY DEF HandleAssignment, HandleStep, HandleReturn, HandleRow, HandleTimed, Visiting,
         Pending, VisitDefault, Makers
<1>2. StartOK /\ CtxOK /\ program \in Program /\ UNCHANGED program
  BY <1>1 DEF WalkInv, StartOK, Quiet
<1>3. Of(n).kind \in Makers => Due(n)'
  <2>1. HandleTimed(n) => Of(n).kind \notin Makers
    BY DEF HandleTimed, Visiting, Makers
  <2> QED
    BY <2>1, MakerDue
<1>4. PICK K, v : K = Elements(Of(n).kids) /\ v = Visits(Of(n).kids)
  OBVIOUS
<1>5. Pieces(v, K) /\ Never(v, "enter")
  <2>1. PICK ns \in Seq(Node) : ns = Of(n).kids
    BY <1>2, OfProgram
  <2>2. Once(ns)
    BY <1>2, <2>1, RunsApart
  <2> QED
    BY <1>4, <2>1, <2>2, PiecesVisits
<1>6. ASSUME NEW items, Pieces(items, K), Never(items, "enter"), Replace(items)
      PROVE  Attended'
  <2>1. K \subseteq Elements(Of(n).head) \cup Elements(Of(n).arms) \cup Elements(Of(n).kids)
    BY <1>4
  <2> QED
    BY <1>1, <1>2, <1>3, <1>6, <2>1, PartsAttend
<1>7. PICK u : u = <<Undo("undelay", n)>> /\ Pieces(u, {}) /\ Never(u, "enter")
  <2>1. Undo("undelay", n) \in Item /\ Undo("undelay", n).op = "undelay"
    BY <1>2, UndoItem DEF Undoing
  <2> QED
    BY <2>1, PiecesCalm DEF Calm
<1>8. Replace(v) \/ Replace(v \o u)
  BY <1>4, <1>7 DEF HandleAssignment, HandleStep, HandleReturn, HandleRow, HandleTimed, VisitDefault
<1>9. Pieces(v \o u, K) /\ Never(v \o u, "enter")
  BY <1>5, <1>7, PiecesBeside
<1> QED
  BY <1>5, <1>6, <1>8, <1>9

LEMMA CallAttends ==
    ASSUME WalkInv, WalkInv', Attended, NEW n \in Node, HandleCall(n)
    PROVE  Attended'
<1>1. /\ agenda # <<>> /\ Head(agenda).op = "visit" /\ Head(agenda).node = n
      /\ NoRows /\ NoCalls /\ Quiet /\ UNCHANGED ctx /\ Of(n).kind = "call"
      /\ Replace(Visits(Of(n).kids) \o <<Do("enter", n)>>)
  BY DEF HandleCall, Visiting, Pending
<1>2. StartOK /\ program \in Program
  BY DEF WalkInv, StartOK
<1>3. UNCHANGED <<program, sites, stmts, curStmt>> /\ ctx'.site = ctx.site
  BY <1>1 DEF NoRows, NoCalls, Quiet
<1>4. \A h : Due(h) => Due(h)'
  BY <1>3, DueStays
<1>5. PICK ns \in Seq(Node) : ns = Of(n).kids /\ Once(ns) /\ n \notin Elements(ns)
  BY <1>2, OfProgram, RunsApart
<1>6. PICK v, K : v = Visits(ns) /\ K = Elements(ns)
  OBVIOUS
<1>7. Pieces(v, K) /\ Never(v, "enter")
  BY <1>5, <1>6, PiecesVisits
<1>8. PICK e \in Item : e = Do("enter", n) /\ e.op = "enter" /\ e.node = n
  BY DoItem
<1>9. PICK q, T : q = <<e>> /\ T = {n}
  OBVIOUS
<1>10. Pieces(q, T)
  <2>1. Entry(e) \in T /\ e.op \in EnteringOps
    BY <1>8, <1>9 DEF Entry, EnteringOps
  <2> QED
    BY <1>9, <2>1, PiecesOne
<1>11. K \cap T = {}
  BY <1>5, <1>6, <1>9
<1>12. PICK items, S : items = v \o q /\ S = K \cup T
  OBVIOUS
<1>13. Pieces(items, S)
  BY <1>7, <1>10, <1>11, <1>12, PiecesJoin
<1>14. Replace(items)
  BY <1>1, <1>5, <1>6, <1>8, <1>9, <1>12
<1>15. v \in Seq(Item) /\ q \in Seq(Item) /\ Len(q) = 1 /\ q[1] = e /\ Len(v) \in Nat
  BY <1>7, <1>9, <1>10 DEF Pieces
<1>16. /\ Len(items) = Len(v) + 1 /\ \A i \in 1..Len(v) : items[i] = v[i]
       /\ items[Len(v) + 1] = e
  <2>1. /\ Len(items) = Len(v) + Len(q) /\ \A i \in 1..Len(v) : items[i] = v[i]
        /\ \A i \in Len(v) + 1..Len(v) + Len(q) : items[i] = q[i - Len(v)]
    BY <1>12, <1>15, Joined
  <2>2. Len(v) + 1 \in Len(v) + 1..Len(v) + Len(q) /\ Len(v) + 1 - Len(v) = 1
    BY <1>15
  <2> QED
    BY <1>15, <2>1, <2>2
<1>17. ASSUME NEW i \in 1..Len(items), items[i].op \in {"visit", "arm"}
       PROVE  \E k \in DOMAIN Parts(n) : Entry(items[i]) = Parts(n)[k]
  <2>1. i \in 1..Len(v) /\ items[i] = v[i]
    <3>1. i \in 1..Len(v) \/ i = Len(v) + 1
      BY <1>15, <1>16
    <3> QED
      BY <1>8, <1>16, <1>17, <3>1
  <2>2. Entry(v[i]) \in K
    BY <1>7, <1>17, <2>1 DEF Pieces, Calm
  <2>3. \E k \in DOMAIN Parts(n) : Entry(v[i]) = Parts(n)[k]
    BY <1>2, <1>5, <1>6, <2>2, RunsApart
  <2> QED
    BY <2>1, <2>3
<1>18. ASSUME NEW i \in 1..Len(items), items[i].op = "enter"
       PROVE  items[i].node = n /\ Of(n).kind = "call"
  <2>1. i = Len(v) + 1
    <3>1. i \in 1..Len(v) \/ i = Len(v) + 1
      BY <1>15, <1>16
    <3> QED
      BY <1>7, <1>16, <1>18, <3>1 DEF Never
  <2> QED
    BY <1>1, <1>8, <1>16, <2>1
<1>19. Of(n).kind \notin Makers
  BY <1>1 DEF Makers
<1> QED
  BY <1>1, <1>3, <1>4, <1>13, <1>14, <1>17, <1>18, <1>19, VisitAttends

\* An item that leaves nothing behind, and opens, closes or undoes.
LEMMA CalmAttends ==
    ASSUME WalkInv, WalkInv', Attended,
           PushPoint \/ PopLevel \/ Unguard \/ Unindex \/ Undelay \/ Unforce
    PROVE  Attended'
<1>1. agenda # <<>> /\ Replace(<<>>) /\ NoRows /\ NoCalls /\ Quiet
  BY DEF PushPoint, PopLevel, Unguard, Unindex, Undelay, Unforce, Pending
<1>2. ctx'.site = ctx.site
  <2>1. ctx \in Context
    BY DEF WalkInv, CtxOK
  <2> QED
    BY <2>1 DEF PushPoint, PopLevel, Unguard, Unindex, Undelay, Unforce, Context
<1>3. UNCHANGED <<program, sites, stmts, curStmt>>
  BY <1>1 DEF NoRows, NoCalls, Quiet
<1>4. \A h : Due(h) => Due(h)'
  BY <1>2, <1>3, DueStays
<1>5. PICK items \in Seq(Item) : items = <<>>
  BY NoItems
<1>6. Len(items) = 0
  BY <1>5
<1>7. /\ \A j \in 1..Len(items) : Still(items[j])
      /\ \A i \in 1..Len(items) : \A n \in Node : Claims(items[i], n) =>
              Due(StatementOf(n))' /\ \A j \in 1..i - 1 : Still(items[j])
  BY <1>6
<1> QED
  BY <1>1, <1>3, <1>4, <1>5, <1>7, AttendReplaced

LEMMA ArmAttends ==
    ASSUME WalkInv, WalkInv', Attended, EnterArm
    PROVE  Attended'
<1>1. /\ agenda # <<>> /\ Head(agenda).op = "arm" /\ NoRows /\ NoCalls /\ Quiet
      /\ UNCHANGED ctx
  BY DEF EnterArm, Pending
<1>2. PICK n \in Node, k \in Nat :
        /\ n = Head(agenda).node /\ k = Head(agenda).arm /\ k \in 1..Len(Of(n).arms)
  <2>1. Head(agenda).node \in Node /\ Head(agenda).arm \in 1..Len(Of(Head(agenda).node).arms)
    BY <1>1, HeadIsItem DEF WalkInv, Fits
  <2> QED
    BY <2>1
<1>3. PICK v \in Node : v = Of(n).arms[k]
  BY <1>2, SyntaxOf, ElementIn DEF Syntax, WalkInv
<1>4. PICK a \in Item, o \in Item :
        /\ a = Do("visit", v) /\ o = Do("pop", n) /\ o.op = "pop"
        /\ a.op = "visit" /\ a.node = v
  BY <1>2, DoItem
<1>5. Replace(<<a, o>>)
  BY <1>2, <1>3, <1>4 DEF EnterArm
<1>6. UNCHANGED <<program, sites, stmts, curStmt>> /\ ctx'.site = ctx.site
  BY <1>1 DEF NoRows, NoCalls, Quiet
<1>7. \A h : Due(h) => Due(h)'
  BY <1>6, DueStays
<1>8. PICK items \in Seq(Item) : items = <<a, o>> /\ Len(items) = 2
                                 /\ items[1] = a /\ items[2] = o
  <2>1. <<a, o>> \in Seq(Item)
    BY Pair
  <2> QED
    BY <2>1
<1>9. Entry(Head(agenda)) = v /\ Entry(a) = v
  BY <1>1, <1>2, <1>3, <1>4 DEF Entry
<1>10. Still(o) /\ ~(\E q : Claims(o, q))
  BY <1>4 DEF Still, Calm, Claims
<1>11. Still(Head(agenda)) => Still(a)
  BY <1>1, <1>4, <1>9 DEF Still, Calm
<1>12. Still(Head(agenda)) => \A j \in 1..Len(items) : Still(items[j])
  BY <1>8, <1>10, <1>11
<1>13. ASSUME NEW i \in 1..Len(items), NEW q \in Node, Claims(items[i], q)
       PROVE  Due(StatementOf(q))' /\ \A j \in 1..i - 1 : Still(items[j])
  <2>1. i = 1 /\ Claims(a, q)
    BY <1>8, <1>10, <1>13
  <2>2. Claims(Head(agenda), q)
    BY <1>1, <1>9, <2>1 DEF Claims
  <2>3. PICK h : h = StatementOf(q) /\ h = StatementOf(q)'
    BY <1>6, SourceStays
  <2>4. Due(h)
    <3>1. agenda[1] = Head(agenda) /\ 1 \in 1..Len(agenda)
      <4>1. Head(agenda) = agenda[1] /\ Len(agenda) \in Nat \ {0}
        BY <1>1, Rest DEF WalkInv
      <4> QED
        BY <4>1
    <3> QED
      BY <2>2, <2>3, <3>1 DEF Attended
  <2>5. Due(h)' => Due(StatementOf(q))'
    BY <2>3 DEF Due, HasRow, Bound, Writes
  <2> QED
    BY <1>7, <2>1, <2>4, <2>5
<1> QED
  BY <1>1, <1>5, <1>6, <1>7, <1>8, <1>12, <1>13, AttendReplaced

\* Where a body is entered or left, nothing behind claims anything.
LEMMA TurnAttends ==
    ASSUME WalkInv, WalkInv', Attended, UNCHANGED program, agenda # <<>>,
           Head(agenda).op \in {"enter", "leave"}, NEW items \in Seq(Item), Replace(items),
           \A i \in 1..Len(items) : \A n \in Node : ~Claims(items[i], n)
    PROVE  Attended'
<1>1. ~Still(Head(agenda))
  BY DEF Still, Calm
<1> QED
  BY <1>1, AttendReplaced

LEMMA LeaveAttends ==
    ASSUME WalkInv, WalkInv', Attended, NEW n \in Node, LeaveCall \/ Recursive(n) \/ OverBudget(n)
    PROVE  Attended'
<1>1. /\ agenda # <<>> /\ Head(agenda).op \in {"enter", "leave"} /\ Replace(<<>>)
      /\ UNCHANGED program
  BY DEF LeaveCall, Recursive, OverBudget, Entering, Pending, Quiet
<1>2. PICK items \in Seq(Item) : items = <<>>
  BY NoItems
<1>3. \A i \in 1..Len(items) : \A m \in Node : ~Claims(items[i], m)
  <2>1. Len(items) = 0
    BY <1>2
  <2> QED
    BY <2>1
<1> QED
  BY <1>1, <1>2, <1>3, TurnAttends

\* A body is no part of a statement.
LEMMA BodyClaims ==
    ASSUME program \in Program, NEW n \in Bodies(program), n \in Node,
           NEW it, it.node = n, it.op = "visit"
    PROVE  \A m : ~Claims(it, m)
<1>1. Entry(it) = n
  BY DEF Entry
<1>2. StatementOf(n) = 0
  BY AroundBody
<1> QED
  BY <1>1, <1>2 DEF Claims, Sole

LEMMA EnterIsCall ==
    ASSUME WalkInv, Follows, agenda # <<>>, Head(agenda).op = "enter"
    PROVE  Of(Head(agenda).node).kind = "call"
<1>1. walking
  BY AtHand
<1>2. PICK y, z : Good(Head(agenda), Now, y) /\ Linked(Steps, Tail(agenda), y, z)
  BY <1>1, HeadFollows
<1> QED
  BY <1>2 DEF Good

LEMMA ExpandAttends ==
    ASSUME WalkInv, WalkInv', Follows, Attended, NEW n \in Node, Expand(n)
    PROVE  Attended'
<1>1. /\ agenda # <<>> /\ Head(agenda).op = "enter" /\ Head(agenda).node = n
      /\ UNCHANGED program /\ Replace(<<Do("visit", Of(n).callee), Undo("leave", n)>>)
  BY DEF Expand, Entering, Pending, Quiet
<1>2. StartOK /\ CtxOK /\ program \in Program
  BY DEF WalkInv, StartOK
<1>3. Of(n).kind = "call"
  BY <1>1, EnterIsCall
<1>4. PICK c \in Node : c = Of(n).callee /\ c \in Bodies(program)
  <2>1. Of(n).callee \in Node /\ program.syntax[n].kind = "call"
    BY <1>2, <1>3, SyntaxOf DEF Of
  <2> QED
    BY <2>1 DEF Bodies, Of
<1>5. PICK a \in Item, o \in Item :
        /\ a = Do("visit", c) /\ o = Undo("leave", n) /\ o.op = "leave"
        /\ a.op = "visit" /\ a.node = c
  BY <1>2, <1>4, DoItem, UndoItem DEF Undoing
<1>6. PICK items \in Seq(Item) : items = <<a, o>> /\ Len(items) = 2
                                 /\ items[1] = a /\ items[2] = o
  <2>1. <<a, o>> \in Seq(Item)
    BY Pair
  <2> QED
    BY <2>1
<1>7. \A m : ~Claims(a, m) /\ ~Claims(o, m)
  <2>1. \A m : ~Claims(a, m)
    BY <1>2, <1>4, <1>5, BodyClaims
  <2> QED
    BY <1>5, <2>1 DEF Claims
<1>8. \A i \in 1..Len(items) : \A m \in Node : ~Claims(items[i], m)
  BY <1>6, <1>7
<1>9. Replace(items)
  BY <1>1, <1>4, <1>5, <1>6
<1> QED
  BY <1>1, <1>6, <1>8, <1>9, TurnAttends

\* The agenda of a new walk holds its body.
LEMMA StartAttends ==
    ASSUME WalkInv, WalkInv', Attended, StartWalk
    PROVE  Attended'
<1>1. /\ at + 1 \in 1..Len(program.walks) /\ UNCHANGED program /\ program \in Program
  <2>1. at < Len(program.walks) /\ UNCHANGED program
    BY DEF StartWalk, NoCalls
  <2>2. at \in Nat /\ Len(program.walks) \in Nat /\ program \in Program
    BY SyntaxOf, ProgramTyped DEF WalkInv, StartOK, Programs
  <2> QED
    BY <2>1, <2>2
<1>2. PICK w \in 1..Len(program.walks) : w = at + 1
  BY <1>1
<1>3. PICK t \in Node : t = program.walks[w].top
  BY <1>1, WalkTyped DEF WalkInv
<1>4. t \in Bodies(program)
  <2>1. DOMAIN program.walks = 1..Len(program.walks)
    BY <1>1, ProgramTyped DEF Programs
  <2> QED
    BY <1>3, <2>1 DEF Bodies
<1>5. PICK a \in Item : a = Do("visit", t) /\ a.op = "visit" /\ a.node = t
  BY DoItem
<1>6. agenda' = <<a>>
  BY <1>2, <1>3, <1>5 DEF StartWalk
<1>7. PICK l \in Seq(Item) : l = <<a>> /\ Len(l) = 1 /\ l[1] = a
  <2>1. <<a>> \in Seq(Item) /\ Len(<<a>>) = 1 /\ <<a>>[1] = a
    BY Single
  <2> QED
    BY <2>1
<1>8. \A n : ~Claims(a, n)
  BY <1>1, <1>4, <1>5, BodyClaims
<1>9. \A n : ~Claims(a, n)'
  BY <1>1, <1>8, SoleStays
<1>10. agenda' = l
  BY <1>6, <1>7
<1>11. \A i \in 1..Len(l) : \A n \in Node : ~Claims(l[i], n)'
  BY <1>7, <1>9
<1> QED
  BY <1>10, <1>11 DEF Attended

LEMMA IdleAttends ==
    ASSUME WalkInv, WalkInv', Attended, EndWalk \/ UNCHANGED vars
    PROVE  Attended'
<1>1. CASE EndWalk
  <2>1. agenda' = <<>>
    BY <1>1 DEF EndWalk
  <2>2. PICK l \in Seq(Item) : l = <<>> /\ Len(l) = 0
    BY NoItems
  <2>3. agenda' = l
    BY <2>1, <2>2
  <2> QED
    BY <2>2, <2>3 DEF Attended
<1>2. CASE UNCHANGED vars
  <2>1. UNCHANGED <<program, sites, stmts, curStmt, ctx, agenda>>
    BY <1>2 DEF vars, walkVars, buildVars, tables
  <2>2. \A h : Due(h) => Due(h)'
    BY <2>1, DueStays
  <2>3. /\ \A it : (Still(it) <=> Still(it)')
        /\ \A it, n : (Claims(it, n) <=> Claims(it, n)')
        /\ \A n : StatementOf(n)' = StatementOf(n)
    BY <2>1, SoleStays
  <2>4. PICK l : l = agenda
    OBVIOUS
  <2>5. ASSUME NEW i \in 1..Len(l), NEW n \in Node, Claims(l[i], n)'
        PROVE  Due(StatementOf(n))' /\ \A j \in 1..i - 1 : Still(l[j])'
    <3>1. Claims(l[i], n)
      BY <2>3, <2>5
    <3>2. Due(StatementOf(n)) /\ \A j \in 1..i - 1 : Still(l[j])
      BY <2>4, <3>1 DEF Attended
    <3>3. PICK h : h = StatementOf(n) /\ h = StatementOf(n)'
      BY <2>3
    <3>4. Due(h)' => Due(StatementOf(n))'
      BY <3>3 DEF Due, HasRow, Bound, Writes
    <3>5. Due(StatementOf(n))'
      BY <2>2, <3>2, <3>3, <3>4
    <3>6. \A j \in 1..i - 1 : Still(l[j])'
      BY <2>3, <3>2
    <3> QED
      BY <3>5, <3>6
  <2>6. agenda' = l
    BY <2>1, <2>4
  <2> QED
    BY <2>5, <2>6 DEF Attended
<1> QED
  BY <1>1, <1>2

LEMMA AttendInit == Init => Attended
<1>1. SUFFICES ASSUME Init PROVE Attended
  OBVIOUS
<1>2. PICK l \in Seq(Item) : l = <<>> /\ Len(l) = 0
  BY NoItems
<1>3. agenda = l
  BY <1>1, <1>2 DEF Init
<1> QED
  BY <1>2, <1>3 DEF Attended

LEMMA AttendStep == WalkInv /\ WalkInv' /\ Follows /\ Attended /\ [Next]_vars => Attended'
<1> SUFFICES ASSUME WalkInv, WalkInv', Follows, Attended, [Next]_vars PROVE Attended'
  OBVIOUS
<1>1. CASE StartWalk
  BY <1>1, StartAttends
<1>2. CASE EndWalk \/ UNCHANGED vars
  BY <1>2, IdleAttends
<1>3. CASE Finished
  BY <1>3, IdleAttends DEF Finished
<1>4. ASSUME NEW n \in Node, Handle(n) PROVE Attended'
  BY <1>4, ConstructsAttend, RowsAttend, CallAttends, LeaveAttends, ExpandAttends DEF Handle
<1>5. CASE Resume
  <2>2. LeaveCall => Attended'
    <3>1. ASSUME LeaveCall PROVE Attended'
      <4>1. Head(agenda).node \in Node
        BY <3>1, HeadIsItem DEF WalkInv, LeaveCall, Pending
      <4> QED
        BY <3>1, <4>1, LeaveAttends
    <3> QED
      BY <3>1
  <2> QED
    BY <1>5, <2>2, CalmAttends, ArmAttends DEF Resume
<1> QED
  BY <1>1, <1>2, <1>3, <1>4, <1>5 DEF Next

(***************************************************************************)
(* The names of the callers.                                               *)
(***************************************************************************)
RowKnown(r) ==
    r.node # 0 /\ Of(r.node).kind \in Makers =>
      r.site \in 0..Len(sites) /\ HasRow(r.node, r.site)
Made(c, h, s) == c \in 1..Len(stmts) /\ stmts[c].node = h /\ stmts[c].site = s
Named(e) ==
    /\ e.node \in Node /\ Of(e.node).kind = "call" /\ e.parent \in 0..Len(sites)
    /\ InHead(e.node) => e.caller = 0
    /\ ~InHead(e.node) /\ Sole(e.node) /\ ~HeadAbove(e.parent)
         /\ HasRow(StatementOf(e.node), e.parent)
         => Made(e.caller, StatementOf(e.node), e.parent)

RowsKnown == \A i \in 1..Len(stmts) : \A r : r = stmts[i] => RowKnown(r)
SitesNamed == \A k \in 1..Len(sites) : \A e : e = sites[k] => Named(e)
BindsNamed ==
    \A i \in 1..Len(binds) :
       binds[i].site \in 1..Len(sites) /\ binds[i].stmt = sites[binds[i].site].caller
Names == RowsKnown /\ SitesNamed /\ BindsNamed

\* Rows are only added.
Longer ==
    /\ stmts \in Seq(Stmt) /\ stmts' \in Seq(Stmt) /\ Len(stmts) <= Len(stmts')
    /\ \A k \in 1..Len(stmts) : stmts'[k] = stmts[k]

LEMMA RowKnownStays ==
    ASSUME StartOK, CallsOK, StartOK', CallsOK', Grown, UNCHANGED program,
           NEW r, RowKnown(r)
    PROVE  RowKnown(r)'
<1>1. Of(r.node)' = Of(r.node)
  BY DEF Of
<1>2. SUFFICES ASSUME r.node # 0, Of(r.node).kind \in Makers
               PROVE  r.site \in 0..Len(sites') /\ HasRow(r.node, r.site)'
  BY <1>1 DEF RowKnown
<1>3. PICK h, s : h = r.node /\ s = r.site
  OBVIOUS
<1>4. s \in 0..Len(sites) /\ HasRow(h, s)
  BY <1>2, <1>3 DEF RowKnown
<1>5. HasRow(h, s)'
  BY <1>4, WritesStay
<1>6. s \in 0..Len(sites')
  BY <1>4 DEF Grown
<1> QED
  BY <1>3, <1>5, <1>6

LEMMA NamedStays ==
    ASSUME StartOK, CallsOK, StartOK', CallsOK', Grown, Longer, UNCHANGED program,
           NEW e, Named(e)
    PROVE  Named(e)'
<1>1. PICK n, p, c : n = e.node /\ p = e.parent /\ c = e.caller
  OBVIOUS
<1>2. PICK h : h = StatementOf(n) /\ h = StatementOf(n)'
  BY SourceStays
<1>3. /\ n \in Node /\ Of(n).kind = "call" /\ p \in 0..Len(sites)
      /\ InHead(n) => c = 0
      /\ ~InHead(n) /\ Sole(n) /\ ~HeadAbove(p) /\ HasRow(h, p) => Made(c, h, p)
  BY <1>1, <1>2 DEF Named
<1>4. /\ Of(n)' = Of(n) /\ (InHead(n) <=> InHead(n)') /\ (Sole(n) <=> Sole(n)')
  <2>1. Of(n)' = Of(n) /\ (Sole(n) <=> Sole(n)')
    BY SourceStays, SoleStays
  <2>2. InHead(n) <=> InHead(n)'
    BY SurroundingsStay
  <2> QED
    BY <2>1, <2>2
<1>5. (HeadAbove(p) <=> HeadAbove(p)') /\ (HasRow(h, p) <=> HasRow(h, p)')
  BY <1>3, AroundSitesStays, WritesStay
<1>6. Made(c, h, p) => Made(c, h, p)'
  <2>1. 1..Len(stmts) \subseteq 1..Len(stmts')
    BY DEF Longer
  <2> QED
    BY <2>1 DEF Made, Longer
<1>7. /\ n \in Node /\ Of(n)'.kind = "call" /\ p \in 0..Len(sites')
      /\ InHead(n)' => c = 0
      /\ ~InHead(n)' /\ Sole(n)' /\ ~HeadAbove(p)' /\ HasRow(h, p)' => Made(c, h, p)'
  <2>1. p \in 0..Len(sites')
    BY <1>3 DEF Grown
  <2> QED
    BY <1>3, <1>4, <1>5, <1>6, <2>1
<1>8. (HeadAbove(p)' <=> HeadAbove(e.parent)')
      /\ (HasRow(h, p)' <=> HasRow(StatementOf(e.node), e.parent)')
      /\ (Made(c, h, p)' <=> Made(e.caller, StatementOf(e.node), e.parent)')
  <2>1. HeadAbove(p)' <=> HeadAbove(e.parent)'
    BY <1>1 DEF HeadAbove
  <2>2. HasRow(h, p)' <=> HasRow(StatementOf(e.node), e.parent)'
    BY <1>1, <1>2 DEF HasRow, Writes
  <2>3. Made(c, h, p)' <=> Made(e.caller, StatementOf(e.node), e.parent)'
    BY <1>1, <1>2 DEF Made
  <2> QED
    BY <2>1, <2>2, <2>3
<1>9. Named(e)' <=>
        /\ e.node \in Node /\ Of(e.node)'.kind = "call" /\ e.parent \in 0..Len(sites')
        /\ InHead(e.node)' => e.caller = 0
        /\ ~InHead(e.node)' /\ Sole(e.node)' /\ ~HeadAbove(e.parent)'
             /\ HasRow(StatementOf(e.node), e.parent)'
             => Made(e.caller, StatementOf(e.node), e.parent)'
  BY DEF Named
<1> QED
  BY <1>1, <1>7, <1>8, <1>9

\* A row or a site more.
LEMMA NamesKept ==
    ASSUME WalkInv, WalkInv', RowsKnown, SitesNamed, UNCHANGED program, Grown, Longer,
           \A i \in 1..Len(stmts') :
              (i \in 1..Len(stmts) /\ stmts'[i] = stmts[i]) \/ RowKnown(stmts'[i]),
           \A k \in 1..Len(sites') :
              (k \in 1..Len(sites) /\ sites'[k] = sites[k]) \/ Named(sites'[k])
    PROVE  RowsKnown' /\ SitesNamed'
<1>1. StartOK /\ CallsOK /\ StartOK' /\ CallsOK'
  BY DEF WalkInv
<1>2. \A r : RowKnown(r) => RowKnown(r)'
  BY <1>1, RowKnownStays
<1>3. \A i \in 1..Len(stmts') : \A r : r = stmts'[i] => RowKnown(r)
  BY DEF RowsKnown
<1>4. \A e : Named(e) => Named(e)'
  BY <1>1, NamedStays
<1>5. \A k \in 1..Len(sites') : \A e : e = sites'[k] => Named(e)
  BY DEF SitesNamed
<1>6. RowsKnown'
  BY <1>2, <1>3 DEF RowsKnown
<1>7. SitesNamed'
  BY <1>4, <1>5 DEF SitesNamed
<1> QED
  BY <1>6, <1>7

LEMMA NamesStay ==
    ASSUME WalkInv, WalkInv', Names, UNCHANGED <<program, stmts, sites, binds>>
    PROVE  Names'
<1>1. Grown /\ Longer
  BY DEF Grown, Longer, WalkInv, CallsOK, RowsOK
<1>2. /\ \A i \in 1..Len(stmts') : i \in 1..Len(stmts) /\ stmts'[i] = stmts[i]
      /\ \A k \in 1..Len(sites') : k \in 1..Len(sites) /\ sites'[k] = sites[k]
  OBVIOUS
<1>3. RowsKnown' /\ SitesNamed'
  BY <1>1, <1>2, NamesKept DEF Names
<1>4. BindsNamed'
  BY DEF Names, BindsNamed
<1> QED
  BY <1>3, <1>4 DEF Names

LEMMA AddedNamed ==
    ASSUME WalkInv, WalkInv', Names, UNCHANGED <<program, sites, binds>>,
           NEW rows \in Seq(Stmt), stmts' = stmts \o rows,
           \A i \in 1..Len(rows) : RowKnown(rows[i])
    PROVE  Names'
<1>1. Grown
  BY DEF Grown, WalkInv, CallsOK
<1>2. stmts \in Seq(Stmt) /\ Len(stmts) \in Nat /\ Len(rows) \in Nat
  BY DEF WalkInv, RowsOK
<1>3. PICK t : t = stmts \o rows
  OBVIOUS
<1>5. /\ t \in Seq(Stmt) /\ Len(t) = Len(stmts) + Len(rows)
      /\ \A i \in 1..Len(stmts) : t[i] = stmts[i]
      /\ \A i \in Len(stmts) + 1..Len(stmts) + Len(rows) : t[i] = rows[i - Len(stmts)]
  BY <1>2, <1>3, Joined
<1>6. \A i \in 1..Len(t) : (i \in 1..Len(stmts) /\ t[i] = stmts[i]) \/ RowKnown(t[i])
  <2>1. SUFFICES ASSUME NEW i \in 1..Len(t), i \notin 1..Len(stmts) PROVE RowKnown(t[i])
    BY <1>5
  <2>2. t[i] = rows[i - Len(stmts)] /\ i - Len(stmts) \in 1..Len(rows)
    BY <1>2, <1>5, <2>1
  <2> QED
    BY <2>2
<1>7. Longer
  BY <1>2, <1>3, <1>5 DEF Longer
<1>8. \A k \in 1..Len(sites') : k \in 1..Len(sites) /\ sites'[k] = sites[k]
  OBVIOUS
<1>9. RowsKnown' /\ SitesNamed'
  BY <1>1, <1>3, <1>6, <1>7, <1>8, NamesKept DEF Names
<1>10. BindsNamed'
  BY DEF Names, BindsNamed
<1> QED
  BY <1>9, <1>10 DEF Names

LEMMA WritesNamed ==
    ASSUME WalkInv, WalkInv', Follows, Names, NEW n \in Node,
           HandleAssignment(n) \/ HandleStep(n) \/ HandleReturn(n)
    PROVE  Names'
<1>1. /\ agenda # <<>> /\ Head(agenda).op = "visit" /\ Head(agenda).node = n
      /\ Of(n).kind \in {"assign", "step", "return"} /\ NoCalls /\ Quiet
  BY DEF HandleAssignment, HandleStep, HandleReturn, Visiting, Pending, VisitDefault
<1>2. /\ StartOK /\ CallsOK /\ RowsOK /\ LevelsOK /\ CtxOK /\ ctx \in Context
  BY DEF WalkInv, CtxOK
<1>3. UNCHANGED <<program, sites, binds>>
  BY <1>1 DEF NoCalls, Quiet
<1>4. /\ ctx.site \in 0..Len(sites)
      /\ Of(n).kind \in {"assign", "step"} => Writes(n, ctx.site) = Of(n).vars \ ctx.indices
      /\ Of(n).kind = "return" =>
                Writes(n, ctx.site) = IF ctx.sub = 0 THEN {} ELSE program.result[ctx.sub]
  BY <1>1, WritesHere
<1>5. ASSUME NEW writes \in SUBSET Var, NEW delay \in Delay \cup {NoDelay},
             writes = Writes(n, ctx.site), writes # {}, File(<<Write(n, writes, delay)>>)
      PROVE  Names'
  <2>1. PICK r \in Stmt : r = Write(n, writes, delay)
    BY <1>2, WriteIsStmt
  <2>2. r.node = n /\ r.site = ctx.site
    BY <2>1, RowOf
  <2>3. RowKnown(r)
    BY <1>4, <1>5, <2>2 DEF RowKnown, HasRow
  <2>4. PICK rows \in Seq(Stmt) : rows = <<r>>
    BY Single
  <2>5. \A i \in 1..Len(rows) : RowKnown(rows[i])
    <3>1. Len(rows) = 1 /\ rows[1] = r
      BY <2>4
    <3> QED
      BY <2>3, <3>1
  <2>6. stmts' = stmts \o rows
    BY <1>5, <2>1, <2>4 DEF File
  <2> QED
    BY <1>3, <2>4, <2>5, <2>6, AddedNamed
<1>6. CASE UNCHANGED stmts
  BY <1>3, <1>6, NamesStay
<1>7. Of(n).vars \subseteq Var /\ Of(n).delay \in Delay \cup {NoDelay}
      /\ ctx.delay \in Delay \cup {NoDelay}
      /\ (ctx.sub # 0 => program.result[ctx.sub] \subseteq Var)
  BY <1>2, SyntaxOf DEF Syntax, Context
<1>8. CASE HandleAssignment(n)
  <2>1. PICK targets \in SUBSET Var : targets = Of(n).vars \ ctx.indices
    BY <1>7
  <2>2. PICK delay \in Delay \cup {NoDelay} :
           delay = IF Of(n).delay # NoDelay THEN Of(n).delay ELSE ctx.delay
    BY <1>7
  <2>3. Of(n).kind = "assign"
    BY <1>8 DEF HandleAssignment, Visiting
  <2>4. IF targets # {} THEN File(<<Write(n, targets, delay)>>) ELSE UNCHANGED stmts
    BY <1>8, <2>1, <2>2 DEF HandleAssignment
  <2> QED
    BY <1>4, <1>5, <1>6, <2>1, <2>3, <2>4
<1>9. CASE HandleStep(n)
  <2>1. PICK targets \in SUBSET Var : targets = Of(n).vars \ ctx.indices
    BY <1>7
  <2>2. Of(n).kind = "step"
    BY <1>9 DEF HandleStep, Visiting
  <2>3. IF targets # {} THEN File(<<Write(n, targets, ctx.delay)>>) ELSE UNCHANGED stmts
    BY <1>9, <2>1 DEF HandleStep, NoRows
  <2> QED
    BY <1>4, <1>5, <1>6, <1>7, <2>1, <2>2, <2>3
<1>10. CASE HandleReturn(n)
  <2>1. PICK result \in SUBSET Var :
           result = IF ctx.sub = 0 THEN {} ELSE program.result[ctx.sub]
    BY <1>7
  <2>2. Of(n).kind = "return"
    BY <1>10 DEF HandleReturn, Visiting
  <2>3. IF result # {} THEN File(<<Write(n, result, ctx.delay)>>) ELSE UNCHANGED stmts
    BY <1>10, <2>1 DEF HandleReturn, NoRows
  <2> QED
    BY <1>4, <1>5, <1>6, <1>7, <2>1, <2>2, <2>3
<1> QED
  BY <1>8, <1>9, <1>10

LEMMA OthersNamed ==
    ASSUME WalkInv, WalkInv', Names, NEW n \in Node, HandleRow(n) \/ HandleTimed(n)
    PROVE  Names'
<1>1. UNCHANGED <<program, sites, binds>> /\ Of(n).kind \in {"row", "timed"}
  BY DEF HandleRow, HandleTimed, Visiting, VisitDefault, NoCalls, Quiet
<1>2. /\ StartOK /\ CallsOK /\ RowsOK /\ LevelsOK /\ CtxOK /\ ctx.site \in 0..Len(sites)
  BY DEF WalkInv, CtxOK
<1>3. \A k \in Nat : Row(n, k, {}) \in Stmt /\ RowKnown(Row(n, k, {}))
  <2>1. SUFFICES ASSUME NEW k \in Nat PROVE Row(n, k, {}) \in Stmt /\ RowKnown(Row(n, k, {}))
    OBVIOUS
  <2>2. PICK none \in SUBSET Var : none = {}
    OBVIOUS
  <2>3. PICK r \in Stmt : r = Row(n, k, {})
    BY <1>2, <2>2, RowIsStmt
  <2>4. r.node = n /\ r.site = ctx.site
    BY <2>3 DEF Row
  <2>5. RowKnown(r)
    BY <1>1, <1>2, <2>4 DEF RowKnown, HasRow, Makers
  <2> QED
    BY <2>3, <2>5
<1>4. CASE UNCHANGED stmts
  BY <1>1, <1>4, NamesStay
<1>5. ASSUME NEW rows \in Seq(Stmt), File(rows), \A i \in 1..Len(rows) : RowKnown(rows[i])
      PROVE  Names'
  BY <1>1, <1>5, AddedNamed DEF File
<1>6. CASE HandleRow(n)
  <2>1. PICK r \in Stmt : r = Row(n, 0, {}) /\ RowKnown(r)
    BY <1>3
  <2>2. PICK rows \in Seq(Stmt) : rows = <<r>>
    BY Single
  <2>3. Len(rows) = 1 /\ rows[1] = r
    BY <2>2
  <2>4. \A i \in 1..Len(rows) : RowKnown(rows[i])
    BY <2>1, <2>3
  <2>5. File(rows)
    BY <1>6, <2>1, <2>2 DEF HandleRow
  <2> QED
    BY <1>5, <2>4, <2>5
<1>7. CASE HandleTimed(n)
  <2>1. PICK w \in Nat : w = Of(n).waits
    BY <1>2, SyntaxOf DEF Syntax
  <2>2. PICK rows : rows = [k \in 1..w |-> Row(n, k - 1, {})]
    OBVIOUS
  <2>3. \A k \in 1..w : k - 1 \in Nat /\ rows[k] = Row(n, k - 1, {})
    BY <2>1, <2>2
  <2>4. \A k \in 1..w : rows[k] \in Stmt /\ RowKnown(rows[k])
    BY <1>3, <2>3
  <2>7. rows = [k \in 1..w |-> rows[k]]
    BY <2>2
  <2>5. rows \in Seq(Stmt) /\ Len(rows) = w
    BY <2>1, <2>4, <2>7, Listed
  <2>6. File(rows) \/ UNCHANGED stmts
    BY <1>7, <2>1, <2>2 DEF HandleTimed, NoRows
  <2> QED
    BY <1>4, <1>5, <2>4, <2>5, <2>6
<1> QED
  BY <1>6, <1>7

LEMMA StartNamed ==
    ASSUME WalkInv, WalkInv', Names, StartWalk
    PROVE  Names'
<1>1. UNCHANGED <<program, sites, binds>>
  BY DEF StartWalk, NoCalls
<1>2. stmts \in Seq(Stmt) /\ stmts' \in Seq(Stmt) /\ Len(stmts) \in Nat
  BY DEF WalkInv, RowsOK
<1>3. CASE UNCHANGED stmts
  BY <1>1, <1>3, NamesStay
<1>4. CASE ~UNCHANGED stmts
  <2>1. PICK e : e.node = 0 /\ stmts' = Append(stmts, e)
    BY <1>4 DEF StartWalk
  <2>2. RowKnown(e)
    BY <2>1 DEF RowKnown
  <2>3. /\ Len(stmts') = Len(stmts) + 1 /\ stmts'[Len(stmts) + 1] = e
        /\ \A i \in 1..Len(stmts) : stmts'[i] = stmts[i]
    BY <1>2, <2>1
  <2>4. \A i \in 1..Len(stmts') : (i \in 1..Len(stmts) /\ stmts'[i] = stmts[i])
                                  \/ stmts'[i] = e
    BY <1>2, <2>3
  <2>5. \A i \in 1..Len(stmts') : (i \in 1..Len(stmts) /\ stmts'[i] = stmts[i])
                                  \/ RowKnown(stmts'[i])
    BY <2>2, <2>4
  <2>6. Grown /\ Longer
    BY <1>1, <1>2, <2>3 DEF Grown, Longer, WalkInv, CallsOK
  <2>7. \A k \in 1..Len(sites') : k \in 1..Len(sites) /\ sites'[k] = sites[k]
    BY <1>1
  <2>8. RowsKnown' /\ SitesNamed'
    BY <1>1, <2>5, <2>6, <2>7, NamesKept DEF Names
  <2>9. BindsNamed'
    BY <1>1 DEF Names, BindsNamed
  <2> QED
    BY <2>8, <2>9 DEF Names
<1> QED
  BY <1>3, <1>4

LEMMA MakerAround ==
    ASSUME program \in Program, NEW n \in Node
    PROVE  StatementOf(n) # 0 => Of(StatementOf(n)).kind \in Makers
<1> DEFINE P == {q \in Node : StatementOf(q) # 0 => Of(StatementOf(q)).kind \in Makers}
<1>1. ASSUME NEW q \in Node, HolderOf(q) # 0 => HolderOf(q) \in P PROVE q \in P
  <2>1. PICK h : h = HolderOf(q)
    OBVIOUS
  <2>2. StatementOf(q) = IF h = 0 THEN 0 ELSE (IF Of(h).kind \in Makers THEN h ELSE StatementOf(h))
    BY <2>1, StatementOfUnfolds
  <2>3. h # 0 => (StatementOf(h) # 0 => Of(StatementOf(h)).kind \in Makers)
    BY <1>1, <2>1
  <2>4. StatementOf(q) # 0 => Of(StatementOf(q)).kind \in Makers
    BY <2>2, <2>3
  <2> QED
    BY <2>4
<1> HIDE DEF P
<1>2. n \in P
  BY <1>1, ForestInduction
<1> QED
  BY <1>2 DEF P

\* The call in hand is told its statement.
LEMMA CallerTold ==
    ASSUME WalkInv, Follows, Attended, NEW n \in Node, Entering(n),
           NEW caller, caller = IF ctx.bindable THEN curStmt ELSE 0,
           NEW e, e.node = n, e.parent = ctx.site, e.caller = caller
    PROVE  Named(e)
<1>1. agenda # <<>> /\ Head(agenda).op = "enter" /\ Head(agenda).node = n
  BY DEF Entering, Pending
<1>2. Placed(n, Now) /\ Now.c = ctx
  BY <1>1, AtHand
<1>3. /\ InHead(n) => ~ctx.bindable
      /\ ~InHead(n) /\ ~HeadAbove(ctx.site) => ctx.bindable
  BY <1>2 DEF Placed
<1>4. Of(n).kind = "call"
  BY <1>1, EnterIsCall
<1>5. ctx.site \in 0..Len(sites) /\ curStmt \in 0..Len(stmts) /\ Len(stmts) \in Nat
  BY DEF WalkInv, CtxOK, RowsOK
<1>6. Sole(n) => Due(StatementOf(n))
  <2>1. ASSUME Sole(n) PROVE Due(StatementOf(n))
    <3>1. Entry(Head(agenda)) = n /\ Under(n, n)
      BY <1>1 DEF Entry, Under
    <3>2. Claims(Head(agenda), n)
      BY <1>1, <2>1, <3>1 DEF Claims
    <3>3. agenda[1] = Head(agenda) /\ 1 \in 1..Len(agenda)
      <4>1. Head(agenda) = agenda[1] /\ Len(agenda) \in Nat \ {0}
        BY <1>1, Rest DEF WalkInv
      <4> QED
        BY <4>1
    <3> QED
      BY <3>2, <3>3 DEF Attended
  <2> QED
    BY <2>1
<1>7. ASSUME ~InHead(n), Sole(n), ~HeadAbove(ctx.site), HasRow(StatementOf(n), ctx.site)
      PROVE  Made(caller, StatementOf(n), ctx.site)
  <2>1. caller = curStmt
    BY <1>3, <1>7
  <2>2. Bound(StatementOf(n))
    BY <1>6, <1>7 DEF Due
  <2>3. curStmt \in 1..Len(stmts)
    BY <1>5, <2>2 DEF Bound
  <2> QED
    BY <2>1, <2>2, <2>3 DEF Bound, Made
<1>8. InHead(n) => caller = 0
  BY <1>3
<1> QED
  BY <1>4, <1>5, <1>7, <1>8 DEF Named

LEMMA CallNamed ==
    ASSUME WalkInv, WalkInv', Follows, Attended, Names, NEW n \in Node,
           Recursive(n) \/ OverBudget(n) \/ Expand(n)
    PROVE  Names'
<1>1. Entering(n) /\ Allocate(n) /\ UNCHANGED <<program, stmts>> /\ Quiet
  BY DEF Recursive, OverBudget, Expand, NoRows, Quiet
<1>2. Grown /\ Longer
  <2>1. Grown
    BY <1>1, Allocated
  <2>2. Longer
    BY <1>1 DEF Longer, WalkInv, RowsOK
  <2> QED
    BY <2>1, <2>2
<1>3. PICK caller : caller = IF ctx.bindable THEN curStmt ELSE 0
  OBVIOUS
<1>4. caller \in Nat /\ sites \in Seq(Site) /\ binds \in Seq(Bind) /\ Len(sites) \in Nat
  BY <1>3 DEF WalkInv, RowsOK, CallsOK
<1>5. PICK e : e = Opened(n, caller)
  OBVIOUS
<1>6. e.node = n /\ e.parent = ctx.site /\ e.caller = caller
  BY <1>5 DEF Opened
<1>7. Named(e)
  BY <1>1, <1>3, <1>6, CallerTold
<1>8. sites' = Append(sites, e) /\ binds' = binds \o Bindings(n, caller)
  BY <1>1, <1>3, <1>5 DEF Allocate
<1>9. sites' \in Seq(Site) /\ binds' \in Seq(Bind)
  BY DEF WalkInv, CallsOK
<1>10. /\ Len(sites') = Len(sites) + 1 /\ sites'[Len(sites) + 1] = e
       /\ \A k \in 1..Len(sites) : sites'[k] = sites[k]
  BY <1>4, <1>8
<1>11. \A k \in 1..Len(sites') : (k \in 1..Len(sites) /\ sites'[k] = sites[k]) \/ Named(sites'[k])
  <2>1. SUFFICES ASSUME NEW k \in 1..Len(sites'), k \notin 1..Len(sites) PROVE Named(sites'[k])
    BY <1>10
  <2>2. k = Len(sites) + 1
    BY <1>4, <1>10, <2>1
  <2> QED
    BY <1>7, <1>10, <2>2
<1>12. \A i \in 1..Len(stmts') : i \in 1..Len(stmts) /\ stmts'[i] = stmts[i]
  BY <1>1
<1>13. RowsKnown' /\ SitesNamed'
  BY <1>1, <1>2, <1>11, <1>12, NamesKept DEF Names
<1>14. PICK w \in Nat : w = Of(n).binds
  BY SyntaxOf DEF Syntax, WalkInv
<1>15. PICK k \in Nat : k = Len(sites) + 1
  BY <1>4
<1>16. PICK b : b = [i \in 1..w |-> [site |-> k, stmt |-> caller]]
  OBVIOUS
<1>17. b \in Seq(Bind) /\ Len(b) = w /\ \A i \in 1..w : b[i].site = k /\ b[i].stmt = caller
  <2>1. \A i \in 1..w : b[i] = [site |-> k, stmt |-> caller]
    BY <1>16
  <2>2. \A i \in 1..w : b[i] \in Bind /\ b[i].site = k /\ b[i].stmt = caller
    BY <1>4, <2>1 DEF Bind
  <2>3. b = [i \in 1..w |-> b[i]]
    BY <1>16
  <2>4. b \in Seq(Bind) /\ Len(b) = w
    BY <2>2, <2>3, Listed
  <2> QED
    BY <2>2, <2>4
<1>18. Bindings(n, caller) = b
  BY <1>14, <1>15, <1>16 DEF Bindings
<1>19. PICK t : t = binds \o b
  OBVIOUS
<1>20. binds' = t
  BY <1>8, <1>18, <1>19
<1>21. /\ Len(t) = Len(binds) + w /\ \A i \in 1..Len(binds) : t[i] = binds[i]
       /\ \A i \in Len(binds) + 1..Len(binds) + w : t[i] = b[i - Len(binds)]
  <2>1. /\ Len(t) = Len(binds) + Len(b) /\ \A i \in 1..Len(binds) : t[i] = binds[i]
        /\ \A i \in Len(binds) + 1..Len(binds) + Len(b) : t[i] = b[i - Len(binds)]
    BY <1>4, <1>17, <1>19, Joined
  <2> QED
    BY <1>17, <2>1
<1>22. ASSUME NEW i \in 1..Len(t)
       PROVE  t[i].site \in 1..Len(sites') /\ t[i].stmt = sites'[t[i].site].caller
  <2>1. CASE i \in 1..Len(binds)
    <3>1. t[i] = binds[i]
      BY <1>21, <2>1
    <3>2. binds[i].site \in 1..Len(sites) /\ binds[i].stmt = sites[binds[i].site].caller
      BY <2>1 DEF Names, BindsNamed
    <3> QED
      BY <1>4, <1>10, <3>1, <3>2
  <2>2. CASE i \notin 1..Len(binds)
    <3>1. Len(binds) \in Nat
      BY <1>4
    <3>2. i \in Len(binds) + 1..Len(binds) + w /\ i - Len(binds) \in 1..w
      BY <1>21, <2>2, <3>1
    <3>3. t[i].site = k /\ t[i].stmt = caller
      BY <1>17, <1>21, <3>2
    <3> QED
      BY <1>4, <1>6, <1>10, <1>15, <3>3
  <2> QED
    BY <2>1, <2>2
<1>23. BindsNamed'
  BY <1>20, <1>22 DEF BindsNamed
<1> QED
  BY <1>13, <1>23 DEF Names

LEMMA NamesInit == Init => Names
<1>1. SUFFICES ASSUME Init PROVE Names
  OBVIOUS
<1>2. stmts = <<>> /\ sites = <<>> /\ binds = <<>>
  BY <1>1 DEF Init
<1> QED
  BY <1>2 DEF Names, RowsKnown, SitesNamed, BindsNamed

LEMMA NamesStep ==
    WalkInv /\ WalkInv' /\ Follows /\ Attended /\ Names /\ [Next]_vars => Names'
<1> SUFFICES ASSUME WalkInv, WalkInv', Follows, Attended, Names, [Next]_vars PROVE Names'
  OBVIOUS
<1>1. CASE StartWalk
  BY <1>1, StartNamed
<1>2. ASSUME UNCHANGED <<program, stmts, sites, binds>> PROVE Names'
  BY <1>2, NamesStay
<1>3. CASE EndWalk \/ Finished \/ UNCHANGED vars
  BY <1>2, <1>3 DEF EndWalk, Finished, NoCalls, vars, walkVars, buildVars, tables
<1>4. CASE Resume
  BY <1>2, <1>4 DEF Resume, PushPoint, EnterArm, PopLevel, Unguard, Unindex, Undelay,
                    Unforce, LeaveCall, NoCalls, NoRows, Quiet
<1>5. ASSUME NEW n \in Node, Recursive(n) \/ OverBudget(n) \/ Expand(n) PROVE Names'
  BY <1>5, CallNamed
<1>6. ASSUME NEW n \in Node,
             \/ HandlePlain(n) \/ HandleForce(n) \/ HandleConditional(n) \/ HandleCase(n)
             \/ HandleLoop(n) \/ HandleFor(n) \/ HandleForeach(n) \/ HandleCall(n)
      PROVE  Names'
  BY <1>2, <1>6 DEF HandlePlain, HandleForce, HandleConditional, HandleCase, HandleLoop,
                    HandleFor, HandleForeach, HandleCall, VisitDefault, NoRows, NoCalls, Quiet
<1>7. ASSUME NEW n \in Node, Handle(n) PROVE Names'
  BY <1>5, <1>6, <1>7, WritesNamed, OthersNamed DEF Handle
<1> QED
  BY <1>1, <1>3, <1>4, <1>7 DEF Next

LEMMA NamesTell ==
    ASSUME WalkInv, Names
    PROVE  CallerNamed
<1>1. ASSUME NEW s \in 1..Len(sites), NEW n, n = sites[s].node, NEW p, p = sites[s].parent,
             NEW own, own = {i \in 1..Len(stmts) : stmts[i].node = StatementOf(n)
                                                   /\ stmts[i].site = p}
      PROVE  /\ InHead(n) => sites[s].caller = 0
             /\ ~InHead(n) /\ OnlyCall(n) /\ StatementOf(n) # 0 /\ own # {}
                  /\ ~(\E i \in Callers(p) : InHead(sites[i].node))
                => sites[s].caller \in own
  <2>1. PICK e : e = sites[s]
    OBVIOUS
  <2>2. Named(e)
    BY <2>1 DEF Names, SitesNamed
  <2>3. program \in Program
    BY DEF WalkInv, StartOK
  <2>4. InHead(n) => sites[s].caller = 0
    BY <1>1, <2>1, <2>2 DEF Named
  <2>5. ASSUME ~InHead(n), OnlyCall(n), StatementOf(n) # 0, own # {},
               ~(\E i \in Callers(p) : InHead(sites[i].node))
        PROVE  sites[s].caller \in own
    <3>1. PICK h : h = StatementOf(n)
      OBVIOUS
    <3>2. PICK i \in 1..Len(stmts) : stmts[i].node = h /\ stmts[i].site = p
      BY <1>1, <2>5, <3>1
    <3>3. n \in Node /\ Of(n).kind = "call"
      BY <1>1, <2>1, <2>2 DEF Named
    <3>4. Of(h).kind \in Makers
      BY <2>3, <2>5, <3>1, <3>3, MakerAround
    <3>5. PICK r : r = stmts[i]
      OBVIOUS
    <3>6. RowKnown(r)
      BY <3>5 DEF Names, RowsKnown
    <3>7. HasRow(h, p)
      BY <2>5, <3>1, <3>2, <3>4, <3>5, <3>6 DEF RowKnown
    <3>8. ~HeadAbove(p)
      BY <2>5 DEF HeadAbove
    <3>9. Sole(n)
      BY <2>5, <3>3 DEF Sole
    <3>10. Made(e.caller, h, p)
      BY <1>1, <2>1, <2>2, <2>5, <3>1, <3>7, <3>8, <3>9 DEF Named
    <3> QED
      BY <1>1, <2>1, <3>1, <3>10 DEF Made
  <2> QED
    BY <2>4, <2>5
<1>2. \A i \in 1..Len(binds) : binds[i].stmt = sites[binds[i].site].caller
  BY DEF Names, BindsNamed
<1>3. ASSUME NEW s \in 1..Len(sites)
      PROVE  LET n == sites[s].node
                 p == sites[s].parent
                 own == {i \in 1..Len(stmts) : stmts[i].node = StatementOf(n)
                                               /\ stmts[i].site = p}
             IN  /\ InHead(n) => sites[s].caller = 0
                 /\ ~InHead(n) /\ OnlyCall(n) /\ StatementOf(n) # 0 /\ own # {}
                      /\ ~(\E i \in Callers(p) : InHead(sites[i].node))
                    => sites[s].caller \in own
  BY <1>1
<1> QED
  BY <1>2, <1>3 DEF CallerNamed

LEMMA NamesToldAll == WalkInv /\ Names => CallerNamed
  BY NamesTell

\* Who made a call is the row of the statement it is the only call of, in the
\* same expansion, and nobody if it is written in a control expression; and its
\* bindings say the same.
THEOREM CallersAreNamed == Spec => []CallerNamed
<1>1. Init => WalkInv /\ Follows /\ Attended /\ Names
  BY WalkInit, FollowInit, AttendInit, NamesInit
<1>2. WalkInv /\ Follows /\ Attended /\ Names /\ [Next]_vars
        => (WalkInv /\ Follows /\ Attended /\ Names)'
  BY WalkStep, FollowStep, AttendStep, NamesStep
<1>3. WalkInv /\ Names => CallerNamed
  BY NamesToldAll
<1> QED
  BY <1>1, <1>2, <1>3, PTL DEF Spec

(***************************************************************************)
(* The branch table, with the levels of the walk under way behind those of *)
(* the procedures before it, as EndWalk will put them there.               *)
(***************************************************************************)
FrameRow(i) ==
    [node |-> frames[i].node, arm |-> frames[i].arm,
     parent |-> InTemplate(frames[i].parent),
     depth |-> frames[i].depth, site |-> frames[i].site, proc |-> proc]
TableRow(b) == IF b <= Len(branches) THEN branches[b] ELSE FrameRow(b - Len(branches))
Size == Len(branches) + (IF walking THEN Len(frames) ELSE 0)
Lengthened == Size <= Size' /\ \A b \in 1..Size : TableRow(b)' = TableRow(b)

\* A level hangs on the one before it, and rows on rows before them.
LevelsLinked ==
    walking =>
    /\ base = Len(branches)
    /\ \A i \in 1..Len(frames) : frames[i].parent \in 0..i - 1
    /\ \A j \in 1..Len(levels) : levels[j].id # 0 =>
         /\ frames[levels[j].id].node = levels[j].node
         /\ frames[levels[j].id].arm = levels[j].arm
         /\ frames[levels[j].id].parent = IF j = 1 THEN 0 ELSE levels[j - 1].id
BranchesBack == \A b \in 1..Len(branches) : branches[b].parent \in 0..b - 1
Linkage == LevelsLinked /\ BranchesBack /\ (walking \/ curBranch = 0)

LEMMA SameLinkage ==
    ASSUME Linkage, UNCHANGED <<walking, base, branches, frames, levels, proc>>,
           walking \/ UNCHANGED curBranch
    PROVE  Linkage' /\ (Len(branches) \in Nat /\ Len(frames) \in Nat => Lengthened)
<1>1. Linkage'
  BY DEF Linkage, LevelsLinked, BranchesBack
<1>2. Size' = Size
  BY DEF Size
<1>3. \A b : TableRow(b)' = TableRow(b)
  BY DEF TableRow, FrameRow, InTemplate
<1>4. ASSUME Len(branches) \in Nat, Len(frames) \in Nat PROVE Size <= Size'
  <2>1. Size \in Nat
    BY <1>4 DEF Size
  <2> QED
    BY <1>2, <2>1
<1> QED
  BY <1>1, <1>3, <1>4 DEF Lengthened

\* The rows a new level, and a case point above it, come to have: the levels lv
\* of which the first p had one, and the d rows that are added to f.
NewRows(f, m, p, d, lv, l) ==
    /\ f = Len(frames) /\ m = Len(levels) + 1 /\ p <= m /\ d = m - p
    /\ lv[m] = l /\ \A i \in 1..m - 1 : lv[i] = levels[i]
    /\ Len(levels') = m /\ Len(frames') = f + d
    /\ \A i \in 1..m :
         /\ levels'[i].node = lv[i].node /\ levels'[i].arm = lv[i].arm
         /\ levels'[i].id = IF i <= p THEN lv[i].id ELSE f + i - p
         /\ lv[i].id \in 0..f /\ (lv[i].id # 0 <=> i <= p)
    /\ \A k \in 1..f : frames'[k] = frames[k]
    /\ \A k \in 1..d :
         /\ frames'[f + k].node = lv[p + k].node
         /\ frames'[f + k].arm = lv[p + k].arm
         /\ frames'[f + k].parent = IF p + k = 1 THEN 0 ELSE levels'[p + k - 1].id

LEMMA SettledRows ==
    ASSUME WalkInv, WalkInv', NEW l \in Level, l.id = 0, Settle(Append(levels, l))
    PROVE  \E f, m, p, d \in Nat, lv \in Seq(Level) :
             NewRows(f, m, p, d, lv, l)
<1>1. levels \in Seq(Level) /\ frames \in Seq(Frame) /\ frames' \in Seq(Frame)
      /\ levels' \in Seq(Level)
  BY DEF WalkInv, LevelsOK, Numbered
<1>2. PICK m \in Nat, f \in Nat : m = Len(levels) + 1 /\ f = Len(frames) /\ m - 1 = Len(levels)
  <2>1. Len(levels) \in Nat /\ Len(frames) \in Nat
    BY <1>1
  <2>2. Len(levels) + 1 \in Nat /\ (Len(levels) + 1) - 1 = Len(levels)
    BY <2>1
  <2> QED
    BY <2>1, <2>2
<1>3. PICK lv \in Seq(Level) : lv = Append(levels, l)
  <2>1. Append(levels, l) \in Seq(Level)
    BY <1>1, WithLast
  <2> QED
    BY <2>1
<1>4. Len(lv) = m /\ lv[m] = l /\ \A i \in 1..m - 1 : lv[i] = levels[i]
  BY <1>1, <1>2, <1>3, WithLast
<1>5. Numbered(lv, f) /\ Settled(lv) = Settled(levels)
  <2>1. l.node \in Node /\ l.arm \in Nat /\ l = [node |-> l.node, arm |-> l.arm, id |-> 0]
    BY DEF Level
  <2> QED
    BY <1>2, <1>3, <2>1, LevelAdded DEF WalkInv
<1>6. PICK p \in Nat : p = Settled(lv) /\ p <= m
  BY <1>4, SettledCounts
<1>7. \A i \in 1..m : /\ lv[i] \in Level /\ lv[i].id \in Nat /\ lv[i].id <= f
                      /\ (lv[i].id # 0 <=> i <= p)
  <2>1. \A i \in 1..m : lv[i] \in Level
    BY <1>4, ElementIn
  <2> QED
    BY <1>4, <1>5, <1>6, <2>1 DEF Numbered, Level
<1>8. /\ Len(levels') = m
      /\ \A i \in 1..m : levels'[i] = [lv[i] EXCEPT !.id = IdOf(lv, i)]
  <2>1. levels' = [i \in 1..m |-> [lv[i] EXCEPT !.id = IdOf(lv, i)]]
    BY <1>3, <1>4 DEF Settle
  <2> QED
    BY <2>1
<1>9. PICK d \in Nat : d = m - p
  BY <1>6
<1>10. ASSUME NEW i \in 1..m
       PROVE  /\ levels'[i].node = lv[i].node /\ levels'[i].arm = lv[i].arm
              /\ levels'[i].id = IdOf(lv, i)
              /\ IdOf(lv, i) = IF i <= p THEN lv[i].id ELSE f + i - p
  <2>1. IdOf(lv, i) = IF lv[i].id # 0 THEN lv[i].id ELSE f + i - p
    BY <1>2, <1>6 DEF IdOf
  <2> QED
    BY <1>7, <1>8, <2>1 DEF Level
<1> DEFINE new == [k \in 1..(Len(lv) - Settled(lv)) |->
            LET i == Settled(lv) + k
            IN  [node |-> lv[i].node, arm |-> lv[i].arm, depth |-> i,
                 parent |-> IF i = 1 THEN 0 ELSE IdOf(lv, i - 1),
                 site |-> ctx.site]]
<1>11. new = [k \in 1..d |-> new[k]]
       /\ \A k \in 1..d : /\ new[k].node = lv[p + k].node /\ new[k].arm = lv[p + k].arm
                          /\ new[k].parent = IF p + k = 1 THEN 0 ELSE IdOf(lv, p + k - 1)
  <2>1. Len(lv) - Settled(lv) = d
    BY <1>4, <1>6, <1>9
  <2> QED
    BY <1>6, <2>1
<1>12. frames' = frames \o new
  <2>1. Settle(lv)
    BY <1>3
  <2> QED
    BY <2>1 DEF Settle
<1> HIDE DEF new
<1>13. Len(new) = d
  BY <1>9, <1>11
<1>14. /\ \A k \in 1..f : frames'[k] = frames[k]
       /\ \A k \in 1..d : frames'[f + k] = new[k]
       /\ Len(frames') = f + d
  <2>1. PICK S : S = {new[k] : k \in 1..d} \cup Frame
    OBVIOUS
  <2>2. new \in Seq(S)
    <3>1. \A k \in 1..d : new[k] \in S
      BY <2>1
    <3> QED
      BY <1>9, <1>11, <3>1, Listed
  <2>3. frames \in Seq(S)
    BY <1>1, <2>1, Widened
  <2>4. /\ \A k \in 1..f : frames'[k] = frames[k]
        /\ \A k \in f + 1..f + d : frames'[k] = new[k - f]
        /\ Len(frames') = f + d
    <3>1. PICK r \in Seq(S), t \in Seq(S) : r = frames /\ t = new
      BY <2>2, <2>3
    <3>2. Len(r) = f /\ Len(t) = d
      BY <1>2, <1>13, <3>1
    <3>3. /\ Len(r \o t) = f + d /\ \A k \in 1..f : (r \o t)[k] = r[k]
          /\ \A k \in f + 1..f + d : (r \o t)[k] = t[k - f]
      BY <3>2, Joined
    <3> QED
      BY <1>12, <3>1, <3>3
  <2>5. \A k \in 1..d : f + k \in f + 1..f + d /\ (f + k) - f = k
    OBVIOUS
  <2> QED
    BY <2>4, <2>5
<1>15. ASSUME NEW k \in 1..d
       PROVE  /\ frames'[f + k].node = lv[p + k].node
              /\ frames'[f + k].arm = lv[p + k].arm
              /\ frames'[f + k].parent = IF p + k = 1 THEN 0 ELSE levels'[p + k - 1].id
  <2>1. p + k # 1 => p + k - 1 \in 1..m
    BY <1>9
  <2>2. p + k # 1 => levels'[p + k - 1].id = IdOf(lv, p + k - 1)
    BY <1>10, <2>1
  <2> QED
    BY <1>11, <1>14, <2>2
<1>16. \A i \in 1..m : lv[i].id \in 0..f
  BY <1>7
<1>17. NewRows(f, m, p, d, lv, l)
  <2>1. \A i \in 1..m :
           /\ levels'[i].node = lv[i].node /\ levels'[i].arm = lv[i].arm
           /\ levels'[i].id = IF i <= p THEN lv[i].id ELSE f + i - p
    BY <1>10
  <2>2. \A i \in 1..m : lv[i].id \in 0..f /\ (lv[i].id # 0 <=> i <= p)
    BY <1>7, <1>16
  <2> QED
    BY <1>2, <1>4, <1>6, <1>8, <1>9, <1>14, <1>15, <2>1, <2>2 DEF NewRows
<1> QED
  BY <1>17

LEMMA ArmLinks ==
    ASSUME WalkInv, WalkInv', Linkage, EnterArm
    PROVE  Linkage' /\ Lengthened
<1>1. /\ agenda # <<>> /\ Quiet /\ walking /\ curBranch' = curBranch
      /\ UNCHANGED <<walking, base, branches, proc>>
  BY DEF EnterArm, Pending, WalkInv, IdleOK, Quiet, NoRows
<1>2. PICK l \in Level : l.id = 0 /\ Settle(Append(levels, l))
  <2>1. /\ Head(agenda).node \in Node
        /\ Head(agenda).arm \in 1..Len(Of(Head(agenda).node).arms)
    BY <1>1, HeadIsItem DEF EnterArm, Pending, WalkInv, Fits
  <2>2. PICK n \in Node, k \in Nat : n = Head(agenda).node /\ k = Head(agenda).arm
    BY <2>1
  <2>3. PICK l \in Level : l = [node |-> n, arm |-> k, id |-> 0]
    BY DEF Level
  <2> QED
    BY <2>2, <2>3 DEF EnterArm
<1>10. PICK f, m, p, d \in Nat, lv \in Seq(Level) : NewRows(f, m, p, d, lv, l)
  BY <1>2, SettledRows
<1>3. /\ f = Len(frames) /\ m = Len(levels) + 1 /\ p <= m /\ d = m - p
      /\ lv[m] = l /\ \A i \in 1..m - 1 : lv[i] = levels[i]
      /\ Len(levels') = m /\ Len(frames') = f + d
      /\ \A i \in 1..m :
           /\ levels'[i].node = lv[i].node /\ levels'[i].arm = lv[i].arm
           /\ levels'[i].id = IF i <= p THEN lv[i].id ELSE f + i - p
           /\ lv[i].id \in 0..f /\ (lv[i].id # 0 <=> i <= p)
      /\ \A k \in 1..f : frames'[k] = frames[k]
      /\ \A k \in 1..d :
           /\ frames'[f + k].node = lv[p + k].node
           /\ frames'[f + k].arm = lv[p + k].arm
           /\ frames'[f + k].parent = IF p + k = 1 THEN 0 ELSE levels'[p + k - 1].id
  BY <1>10 DEF NewRows
<1>11. p <= m /\ d = m - p
  BY <1>3
<1>4. /\ base = Len(branches) /\ \A i \in 1..f : frames[i].parent \in 0..i - 1
      /\ \A j \in 1..Len(levels) : levels[j].id # 0 =>
           /\ frames[levels[j].id].node = levels[j].node
           /\ frames[levels[j].id].arm = levels[j].arm
           /\ frames[levels[j].id].parent = IF j = 1 THEN 0 ELSE levels[j - 1].id
  BY <1>1, <1>3 DEF Linkage, LevelsLinked
<1>5. m - 1 = Len(levels)
  <2>1. Len(levels) \in Nat
    BY DEF WalkInv, LevelsOK, Numbered
  <2> QED
    BY <1>3, <2>1
<1>6. ASSUME NEW i \in 1..f + d PROVE frames'[i].parent \in 0..i - 1
  <2>1. CASE i <= f
    BY <1>3, <1>4, <2>1
  <2>2. CASE i > f
    <3>1. PICK k \in 1..d : i = f + k
      <4>1. i - f \in 1..d /\ i = f + (i - f)
        BY <1>3, <2>2
      <4> QED
        BY <4>1
    <3>2. frames'[i].parent = IF p + k = 1 THEN 0 ELSE levels'[p + k - 1].id
      BY <1>3, <3>1
    <3>3. CASE p + k = 1
      BY <3>1, <3>2, <3>3
    <3>4. CASE p + k # 1
      <4>1. PICK j \in 1..m : j = p + k - 1
        BY <1>3, <3>4
      <4>2. /\ levels'[j].id = IF j <= p THEN lv[j].id ELSE f + j - p
            /\ lv[j].id \in 0..f
        BY <1>3
      <4>3. levels'[j].id \in 0..i - 1
        <5>1. PICK x, y \in Nat : x = lv[j].id /\ y = i /\ x <= f
          BY <4>2
        <5>2. k >= 1 /\ y = f + k
          BY <3>1, <5>1
        <5>3. CASE j <= p
          <6>1. levels'[j].id = x
            BY <4>2, <5>1, <5>3
          <6>2. x \in 0..y - 1
            BY <5>1, <5>2
          <6> QED
            BY <5>1, <6>1, <6>2
        <5>4. CASE j > p
          <6>1. levels'[j].id = f + j - p
            BY <4>2, <5>4
          <6>2. f + j - p = f + k - 1
            BY <4>1
          <6>3. f + k - 1 \in 0..y - 1
            BY <5>2
          <6> QED
            BY <5>1, <6>1, <6>2, <6>3
        <5> QED
          BY <5>3, <5>4
      <4> QED
        BY <3>2, <3>4, <4>1, <4>3
    <3> QED
      BY <3>3, <3>4
  <2> QED
    BY <2>1, <2>2
<1>7. ASSUME NEW j \in 1..m
      PROVE  /\ frames'[levels'[j].id].node = levels'[j].node
             /\ frames'[levels'[j].id].arm = levels'[j].arm
             /\ frames'[levels'[j].id].parent = IF j = 1 THEN 0 ELSE levels'[j - 1].id
  <2>1. /\ levels'[j].node = lv[j].node /\ levels'[j].arm = lv[j].arm
        /\ levels'[j].id = IF j <= p THEN lv[j].id ELSE f + j - p
        /\ lv[j].id \in 0..f /\ (lv[j].id # 0 <=> j <= p)
    BY <1>3
  <2>2. CASE j <= p
    <3>1. j \in 1..m - 1
      <4>1. j # m
        BY <1>2, <1>3, <2>1, <2>2
      <4> QED
        BY <4>1
    <3>2. lv[j] = levels[j] /\ levels[j].id # 0 /\ levels[j].id \in 1..f
      BY <1>3, <2>1, <2>2, <3>1
    <3>3. PICK b \in 1..f : b = levels[j].id /\ levels'[j].id = b
      BY <2>1, <2>2, <3>2
    <3>4. frames'[b] = frames[b]
      BY <1>3
    <3>5. /\ frames[b].node = levels[j].node /\ frames[b].arm = levels[j].arm
          /\ frames[b].parent = IF j = 1 THEN 0 ELSE levels[j - 1].id
      BY <1>4, <1>5, <3>1, <3>2, <3>3
    <3>6. j # 1 => levels'[j - 1].id = levels[j - 1].id
      <4>1. SUFFICES ASSUME j # 1 PROVE levels'[j - 1].id = levels[j - 1].id
        OBVIOUS
      <4>2. PICK i \in 1..m - 1 : i = j - 1 /\ i <= p /\ i \in 1..m
        BY <2>2, <3>1, <4>1
      <4>3. levels'[i].id = lv[i].id /\ lv[i] = levels[i]
        BY <1>3, <4>2
      <4> QED
        BY <4>2, <4>3
    <3> QED
      BY <2>1, <3>2, <3>3, <3>4, <3>5, <3>6
  <2>3. CASE j > p
    <3>1. PICK k \in 1..d : j = p + k
      <4>1. j - p \in 1..d /\ j = p + (j - p)
        BY <1>11, <2>3
      <4> QED
        BY <4>1
    <3>2. levels'[j].id = f + k
      BY <2>1, <2>3, <3>1
    <3>3. /\ frames'[f + k].node = lv[j].node /\ frames'[f + k].arm = lv[j].arm
          /\ frames'[f + k].parent = IF j = 1 THEN 0 ELSE levels'[j - 1].id
      BY <1>3, <3>1
    <3> QED
      BY <2>1, <3>2, <3>3
  <2> QED
    BY <2>2, <2>3
<1>8. Linkage'
  <2>1. LevelsLinked'
    BY <1>1, <1>3, <1>4, <1>6, <1>7 DEF LevelsLinked
  <2> QED
    BY <1>1, <2>1 DEF Linkage, BranchesBack
<1>9. Lengthened
  <2>1. PICK n \in Nat : n = Len(branches)
    BY DEF WalkInv, StartOK
  <2>2. Size = n + f /\ Size' = n + (f + d)
    BY <1>1, <1>3, <2>1 DEF Size
  <2>3. ASSUME NEW b \in 1..n + f PROVE TableRow(b)' = TableRow(b)
    <3>1. CASE b <= n
      BY <1>1, <2>1, <3>1 DEF TableRow
    <3>2. CASE b > n
      <4>1. PICK i \in 1..f : i = b - n
        BY <2>1, <3>2
      <4>2. frames'[i] = frames[i]
        BY <1>3
      <4>3. FrameRow(i)' = FrameRow(i)
        BY <1>1, <4>2 DEF FrameRow, InTemplate
      <4>4. TableRow(b) = FrameRow(i) /\ TableRow(b)' = FrameRow(i)'
        BY <1>1, <2>1, <3>2, <4>1 DEF TableRow, FrameRow
      <4> QED
        BY <4>3, <4>4
    <3> QED
      BY <3>1, <3>2
  <2> QED
    BY <2>2, <2>3 DEF Lengthened
<1> QED
  BY <1>8, <1>9
LEMMA RowCounts ==
    ASSUME WalkInv PROVE Len(branches) \in Nat /\ Len(frames) \in Nat /\ Len(levels) \in Nat
  BY DEF WalkInv, StartOK, LevelsOK, Numbered

LEMMA PointLinks ==
    ASSUME WalkInv, Linkage, PushPoint
    PROVE  Linkage' /\ Lengthened
<1>1. /\ walking /\ UNCHANGED <<walking, base, branches, frames, proc>>
      /\ levels' = Append(levels, [node |-> Head(agenda).node, arm |-> 0, id |-> 0])
      /\ curBranch' = curBranch /\ agenda # <<>>
  BY DEF PushPoint, Pending, WalkInv, IdleOK, Quiet, NoRows
<1>2. PICK l \in Level : l.id = 0 /\ levels' = Append(levels, l)
  <2>1. Head(agenda).node \in Node
    BY <1>1, HeadIsItem DEF WalkInv
  <2>2. [node |-> Head(agenda).node, arm |-> 0, id |-> 0] \in Level
    BY <2>1 DEF Level
  <2> QED
    BY <1>1, <2>2
<1>3. PICK m \in Nat : m = Len(levels) /\ levels \in Seq(Level)
  BY DEF WalkInv, LevelsOK, Numbered
<1>4. /\ Len(levels') = m + 1 /\ levels'[m + 1] = l
      /\ \A i \in 1..m : levels'[i] = levels[i]
  BY <1>2, <1>3, WithLast
<1>5. LevelsLinked'
  <2>1. /\ base = Len(branches) /\ \A i \in 1..Len(frames) : frames[i].parent \in 0..i - 1
        /\ \A j \in 1..m : levels[j].id # 0 =>
             /\ frames[levels[j].id].node = levels[j].node
             /\ frames[levels[j].id].arm = levels[j].arm
             /\ frames[levels[j].id].parent = IF j = 1 THEN 0 ELSE levels[j - 1].id
    BY <1>1, <1>3 DEF Linkage, LevelsLinked
  <2>2. ASSUME NEW j \in 1..m + 1, levels'[j].id # 0
        PROVE  /\ frames[levels'[j].id].node = levels'[j].node
               /\ frames[levels'[j].id].arm = levels'[j].arm
               /\ frames[levels'[j].id].parent = IF j = 1 THEN 0 ELSE levels'[j - 1].id
    <3>1. j # m + 1
      BY <1>2, <1>4, <2>2
    <3>2. j \in 1..m /\ (j # 1 => j - 1 \in 1..m)
      BY <3>1
    <3>3. levels'[j] = levels[j] /\ (j # 1 => levels'[j - 1] = levels[j - 1])
      BY <1>4, <3>2
    <3> QED
      BY <2>1, <2>2, <3>2, <3>3
  <2> QED
    BY <1>1, <1>4, <2>1, <2>2 DEF LevelsLinked
<1>6. Linkage'
  BY <1>1, <1>5 DEF Linkage, BranchesBack
<1>7. Lengthened
  <2>1. Size' = Size /\ Size \in Nat
    BY <1>1, RowCounts DEF Size
  <2>2. \A b : TableRow(b)' = TableRow(b)
    BY <1>1 DEF TableRow, FrameRow, InTemplate
  <2> QED
    BY <2>1, <2>2 DEF Lengthened
<1> QED
  BY <1>6, <1>7

LEMMA PopLinks ==
    ASSUME WalkInv, WalkInv', Follows, Linkage, PopLevel
    PROVE  Linkage' /\ Lengthened
<1>1. /\ walking /\ UNCHANGED <<walking, base, branches, frames, proc>>
      /\ levels' = SubSeq(levels, 1, Len(levels) - 1)
      /\ curBranch' = curBranch /\ agenda # <<>> /\ Head(agenda).op = "pop"
  BY DEF PopLevel, Pending, WalkInv, IdleOK, Quiet, NoRows
<1>2. levels # <<>> /\ levels \in Seq(Level)
  <2>1. PICK y, z : Good(Head(agenda), Now, y) /\ Linked(Steps, Tail(agenda), y, z)
    BY <1>1, HeadFollows
  <2>2. LevelTags # <<>> /\ LevelTags \in Seq(Tag) /\ Len(LevelTags) = Len(levels)
    BY <1>1, <2>1, LevelsTagged, NowTyped DEF Good, WalkInv
  <2>3. Len(LevelTags) # 0
    BY <2>2
  <2>4. levels \in Seq(Level)
    BY DEF WalkInv, LevelsOK, Numbered
  <2> QED
    BY <2>2, <2>3, <2>4
<1>3. PICK m \in Nat : m = Len(levels) - 1 /\ Len(levels) = m + 1
  <2>1. Len(levels) \in Nat /\ Len(levels) # 0
    BY <1>2
  <2>2. Len(levels) - 1 \in Nat /\ Len(levels) = (Len(levels) - 1) + 1
    BY <2>1
  <2> QED
    BY <2>2
<1>4. Len(levels') = m /\ \A i \in 1..m : levels'[i] = levels[i]
  BY <1>1, <1>2, <1>3, AllButLast
<1>5. LevelsLinked'
  <2>1. /\ base = Len(branches) /\ \A i \in 1..Len(frames) : frames[i].parent \in 0..i - 1
        /\ \A j \in 1..m + 1 : levels[j].id # 0 =>
             /\ frames[levels[j].id].node = levels[j].node
             /\ frames[levels[j].id].arm = levels[j].arm
             /\ frames[levels[j].id].parent = IF j = 1 THEN 0 ELSE levels[j - 1].id
    BY <1>1, <1>3 DEF Linkage, LevelsLinked
  <2>2. ASSUME NEW j \in 1..m, levels'[j].id # 0
        PROVE  /\ frames[levels'[j].id].node = levels'[j].node
               /\ frames[levels'[j].id].arm = levels'[j].arm
               /\ frames[levels'[j].id].parent = IF j = 1 THEN 0 ELSE levels'[j - 1].id
    <3>1. j \in 1..m + 1 /\ (j # 1 => j - 1 \in 1..m)
      OBVIOUS
    <3>2. levels'[j] = levels[j] /\ (j # 1 => levels'[j - 1] = levels[j - 1])
      BY <1>4, <3>1
    <3> QED
      BY <2>1, <2>2, <3>1, <3>2
  <2> QED
    BY <1>1, <1>4, <2>1, <2>2 DEF LevelsLinked
<1>6. Linkage'
  BY <1>1, <1>5 DEF Linkage, BranchesBack
<1>7. Lengthened
  <2>1. Size' = Size /\ Size \in Nat
    BY <1>1, RowCounts DEF Size
  <2>2. \A b : TableRow(b)' = TableRow(b)
    BY <1>1 DEF TableRow, FrameRow, InTemplate
  <2> QED
    BY <2>1, <2>2 DEF Lengthened
<1> QED
  BY <1>6, <1>7

LEMMA StartLinks ==
    ASSUME WalkInv, Linkage, StartWalk
    PROVE  Linkage' /\ Lengthened
<1>1. /\ ~walking /\ walking' = TRUE /\ base' = Len(branches') /\ levels' = <<>>
      /\ frames' = <<>> /\ branches' = branches
  BY DEF StartWalk
<1>2. Linkage'
  BY <1>1 DEF Linkage, LevelsLinked, BranchesBack
<1>3. PICK n \in Nat : n = Len(branches)
  BY RowCounts
<1>4. Size = n /\ Size' = n
  BY <1>1, <1>3 DEF Size
<1>5. \A b \in 1..n : TableRow(b)' = TableRow(b)
  BY <1>1, <1>3 DEF TableRow
<1> QED
  BY <1>2, <1>4, <1>5 DEF Lengthened

LEMMA EndLinks ==
    ASSUME WalkInv, WalkInv', Linkage, EndWalk
    PROVE  Linkage' /\ Lengthened
<1>1. /\ walking /\ walking' = FALSE /\ curBranch' = 0 /\ frames' = frames
  BY DEF EndWalk, NoLevels
<1>2. PICK n, f \in Nat : n = Len(branches) /\ f = Len(frames)
  BY RowCounts
<1>3. PICK new : new = [i \in 1..f |-> FrameRow(i)]
  OBVIOUS
<1>4. branches' = branches \o new
  BY <1>2, <1>3 DEF EndWalk, FrameRow
<1>5. PICK S : S = {new[i] : i \in 1..f} \cup Branch
  OBVIOUS
<1>6. new \in Seq(S) /\ Len(new) = f /\ branches \in Seq(S)
  <2>1. new = [i \in 1..f |-> new[i]] /\ \A i \in 1..f : new[i] \in S
    BY <1>3, <1>5
  <2>2. branches \in Seq(Branch) /\ Branch \subseteq S
    BY <1>5 DEF WalkInv, StartOK
  <2> QED
    BY <2>1, <2>2, Listed, Widened
<1>7. /\ Len(branches') = n + f
      /\ \A i \in 1..n : branches'[i] = branches[i]
      /\ \A i \in n + 1..n + f : branches'[i] = FrameRow(i - n)
  <2>1. PICK u \in Seq(S), v \in Seq(S) : u = branches /\ v = new
    BY <1>6
  <2>2. Len(u) = n /\ Len(v) = f
    BY <1>2, <1>6, <2>1
  <2>3. /\ Len(u \o v) = n + f /\ \A i \in 1..n : (u \o v)[i] = u[i]
        /\ \A i \in n + 1..n + f : (u \o v)[i] = v[i - n]
    BY <2>2, Joined
  <2>4. \A i \in n + 1..n + f : i - n \in 1..f
    OBVIOUS
  <2>5. \A k \in 1..f : new[k] = FrameRow(k)
    BY <1>3
  <2> QED
    BY <1>4, <2>1, <2>3, <2>4, <2>5
<1>8. /\ base = n /\ \A i \in 1..f : frames[i].parent \in 0..i - 1
      /\ \A b \in 1..n : branches[b].parent \in 0..b - 1
  BY <1>1, <1>2 DEF Linkage, LevelsLinked, BranchesBack
<1>9. BranchesBack'
  <2>1. ASSUME NEW b \in 1..n + f PROVE branches'[b].parent \in 0..b - 1
    <3>1. CASE b <= n
      BY <1>7, <1>8, <3>1
    <3>2. CASE b > n
      <4>1. PICK i \in 1..f : i = b - n /\ b \in n + 1..n + f
        BY <3>2
      <4>2. branches'[b] = FrameRow(i)
        BY <1>7, <4>1
      <4>3. branches'[b].parent = IF frames[i].parent = 0 THEN 0 ELSE n + frames[i].parent
        BY <1>8, <4>2 DEF FrameRow, InTemplate
      <4>4. frames[i].parent \in 0..i - 1
        BY <1>8
      <4> QED
        BY <4>1, <4>3, <4>4
    <3> QED
      BY <3>1, <3>2
  <2> QED
    BY <1>7, <2>1 DEF BranchesBack
<1>10. Linkage'
  BY <1>1, <1>9 DEF Linkage, LevelsLinked
<1>11. Lengthened
  <2>1. Size = n + f /\ Size' = n + f
    BY <1>1, <1>2, <1>7 DEF Size
  <2>2. ASSUME NEW b \in 1..n + f PROVE TableRow(b)' = TableRow(b)
    <3>1. CASE b <= n
      BY <1>2, <1>7, <3>1 DEF TableRow
    <3>2. CASE b > n
      <4>1. b \in n + 1..n + f
        BY <3>2
      <4>2. branches'[b] = FrameRow(b - n)
        BY <1>7, <4>1
      <4> QED
        BY <1>2, <1>7, <3>2, <4>2 DEF TableRow
    <3> QED
      BY <3>1, <3>2
  <2> QED
    BY <2>1, <2>2 DEF Lengthened
<1> QED
  BY <1>10, <1>11

\* No step takes a row of the table back or changes one.
LEMMA LinkageStep ==
    ASSUME WalkInv, WalkInv', Follows, Linkage, [Next]_vars
    PROVE  Linkage' /\ Lengthened
<1>1. ASSUME UNCHANGED <<walking, base, branches, frames, levels, proc>>,
             walking \/ UNCHANGED curBranch
      PROVE  Linkage' /\ Lengthened
  BY <1>1, RowCounts, SameLinkage
<1>2. CASE StartWalk
  BY <1>2, StartLinks
<1>3. CASE EndWalk
  BY <1>3, EndLinks
<1>4. CASE Finished \/ UNCHANGED vars
  BY <1>1, <1>4 DEF Finished, vars, walkVars, buildVars, tables
<1>5. ASSUME agenda # <<>>, Quiet, NoLevels PROVE Linkage' /\ Lengthened
  BY <1>1, <1>5 DEF WalkInv, IdleOK, Quiet, NoLevels
<1>6. CASE Resume
  <2>1. CASE Unguard \/ Unindex \/ Undelay \/ Unforce \/ LeaveCall
    BY <1>5, <2>1 DEF Unguard, Unindex, Undelay, Unforce, LeaveCall, Pending
  <2> QED
    BY <1>6, <2>1, PointLinks, ArmLinks, PopLinks DEF Resume
<1>7. ASSUME NEW n \in Node, Handle(n) PROVE Linkage' /\ Lengthened
  <2>1. agenda # <<>>
    BY <1>7 DEF Handle, HandlePlain, HandleAssignment, HandleStep, HandleReturn, HandleRow,
                HandleTimed, HandleForce, HandleConditional, HandleCase, HandleLoop,
                HandleFor, HandleForeach, HandleCall, Recursive, OverBudget, Expand,
                Visiting, Entering, Pending
  <2>2. Quiet /\ NoLevels
    BY <1>7 DEF Handle, HandlePlain, HandleAssignment, HandleStep, HandleReturn, HandleRow,
                HandleTimed, HandleForce, HandleConditional, HandleCase, HandleLoop,
                HandleFor, HandleForeach, HandleCall, Recursive, OverBudget, Expand,
                VisitDefault
  <2> QED
    BY <1>5, <2>1, <2>2
<1> QED
  BY <1>2, <1>3, <1>4, <1>6, <1>7 DEF Next

(***************************************************************************)
(* Rows of the table, one under the other, with these tags.                *)
(***************************************************************************)
Over(c, j) == IF j = 1 THEN 0 ELSE c[j - 1]
TagOf(row) == <<row.node, row.arm, row.site>>
ChainTo(c, tags, p) ==
    /\ c \in [1..Len(tags) -> 1..Size]
    /\ \A j \in 1..Len(tags) : /\ TableRow(c[j]).parent = Over(c, j)
                               /\ TagOf(TableRow(c[j])) = tags[j]
                               /\ TableRow(c[j]).proc = p
Tip(c, n) == IF n = 0 THEN 0 ELSE c[n]

Gated(r, c, n) ==
    Of(r.node).kind \in {"assign", "step", "return"} => r.gates = {c[j] : j \in 1..n}
Nested(r) ==
    IF r.node = 0 THEN r.branch = 0 /\ r.site = 0
    ELSE /\ r.site \in 0..Len(sites)
         /\ \A tags : tags = Nesting(r.node, r.site) =>
              \E c : /\ ChainTo(c, tags, r.proc) /\ r.branch = Tip(c, Len(tags))
                     /\ Gated(r, c, Len(tags))
AllNested == \A i \in 1..Len(stmts) : \A r : r = stmts[i] => Nested(r)

LEMMA SizeIsNat == WalkInv => Size \in Nat
  BY RowCounts DEF Size

LEMMA SizeIsNatNext == WalkInv' => (Size \in Nat)'
  BY SizeIsNat, PTL

LEMMA ChainStays ==
    ASSUME Size \in Nat, Size' \in Nat, Lengthened, NEW c, NEW tags, Len(tags) \in Nat,
           NEW p, ChainTo(c, tags, p)
    PROVE  ChainTo(c, tags, p)'
<1>1. 1..Size \subseteq 1..Size'
  BY DEF Lengthened
<1>2. PICK n \in Nat : n = Len(tags)
  OBVIOUS
<1>3. c \in [1..n -> 1..Size] /\ c \in [1..n -> 1..Size']
  BY <1>1, <1>2 DEF ChainTo
<1>4. ASSUME NEW j \in 1..n
      PROVE  /\ TableRow(c[j])'.parent = Over(c, j)
             /\ TagOf(TableRow(c[j])') = tags[j]
             /\ TableRow(c[j])'.proc = p
  <2>1. PICK b \in 1..Size : b = c[j]
    BY <1>3
  <2>2. TableRow(b)' = TableRow(b)
    BY DEF Lengthened
  <2>3. /\ TableRow(b).parent = Over(c, j) /\ TagOf(TableRow(b)) = tags[j]
        /\ TableRow(b).proc = p
    BY <1>2, <2>1 DEF ChainTo
  <2> QED
    BY <2>1, <2>2, <2>3
<1> QED
  BY <1>2, <1>3, <1>4 DEF ChainTo, TagOf

LEMMA NestingIs ==
    ASSUME NEW n, NEW s
    PROVE  Nesting(n, s) = NestAbove(s) \o Tagged(Around(n), s)
  BY DEF Nesting, NestAbove

LEMMA NestingStays ==
    ASSUME StartOK, CallsOK, StartOK', CallsOK', Grown, UNCHANGED program,
           NEW n, NEW s \in 0..Len(sites)
    PROVE  Nesting(n, s)' = Nesting(n, s)
<1>1. NestAbove(s)' = NestAbove(s) /\ Around(n)' = Around(n)
  BY SitesStay, SourceStays
<1>2. Tagged(Around(n), s)' = Tagged(Around(n)', s)
  BY DEF Tagged
<1>3. Nesting(n, s) = NestAbove(s) \o Tagged(Around(n), s)
  BY NestingIs
<1>4. Nesting(n, s)' = NestAbove(s)' \o Tagged(Around(n), s)'
  BY DEF Nesting, NestAbove
<1> QED
  BY <1>1, <1>2, <1>3, <1>4

LEMMA NestedStays ==
    ASSUME WalkInv, WalkInv', Lengthened, Grown, UNCHANGED program,
           NEW r, r.node # 0 => r.node \in Node, Nested(r)
    PROVE  Nested(r)'
<1>1. CASE r.node = 0
  BY <1>1 DEF Nested
<1>2. CASE r.node # 0
  <2>1. StartOK /\ CallsOK /\ StartOK' /\ CallsOK' /\ Size \in Nat /\ Size' \in Nat
    BY SizeIsNat, SizeIsNatNext DEF WalkInv
  <2>2. PICK n \in Node, s \in 0..Len(sites) : n = r.node /\ s = r.site
    BY <1>2 DEF Nested
  <2>3. PICK p, b, g : p = r.proc /\ b = r.branch /\ g = r.gates
    OBVIOUS
  <2>4. s \in 0..Len(sites')
    <3>1. Len(sites) \in Nat /\ Len(sites') \in Nat /\ Len(sites) <= Len(sites')
      BY DEF Grown
    <3> QED
      BY <3>1
  <2>5. PICK tags : tags = Nesting(n, s) /\ tags = Nesting(n, s)'
    BY <2>1, NestingStays
  <2>6. PICK c : /\ ChainTo(c, tags, p) /\ b = Tip(c, Len(tags))
                 /\ Gated(r, c, Len(tags))
    BY <1>2, <2>2, <2>5, <2>3 DEF Nested
  <2>7. Len(tags) \in Nat
    <3>1. NestAbove(s) \in Seq(Tag)
      BY <2>1, NestAboveUnfolds
    <3>2. Around(n) \in Seq(Node \X Nat)
      BY <2>1, AroundUnfolds DEF StartOK
    <3>3. Tagged(Around(n), s) \in Seq(Tag)
      BY <3>2, TaggedTyped
    <3>4. PICK x \in Seq(Tag), y \in Seq(Tag) : x = NestAbove(s) /\ y = Tagged(Around(n), s)
      BY <3>1, <3>3
    <3>5. tags = x \o y
      BY <2>5, <3>4, NestingIs
    <3>6. x \o y \in Seq(Tag)
      OBVIOUS
    <3> QED
      BY <3>5, <3>6
  <2>8. ChainTo(c, tags, p)'
    BY <2>1, <2>6, <2>7, ChainStays
  <2>9. Gated(r, c, Len(tags))'
    BY <2>6 DEF Gated, Of
  <2>10. \A u : u = Nesting(n, s)' => ChainTo(c, u, p)' /\ b = Tip(c, Len(u)) /\ Gated(r, c, Len(u))'
    BY <2>5, <2>6, <2>8, <2>9
  <2>11. \A u : u = Nesting(r.node, r.site)' =>
              \E e : /\ ChainTo(e, u, r.proc)' /\ r.branch = Tip(e, Len(u))
                     /\ Gated(r, e, Len(u))'
    BY <2>2, <2>10, <2>3
  <2> QED
    BY <1>2, <2>2, <2>4, <2>11 DEF Nested
<1> QED
  BY <1>1, <1>2

\* The levels above a level, level by level.
LEMMA ChainUnfolds ==
    ASSUME LevelsOK, \A i \in 1..Len(frames) : frames[i].parent \in 0..i - 1
    PROVE  /\ Chain(0) = {}
           /\ \A s \in 1..Len(frames) : Chain(s) = Chain(frames[s].parent) \cup {s}
<1>1. PICK n \in Nat : n = Len(frames) /\ DOMAIN frames = 1..n
  BY DEF LevelsOK
<1>2. PICK up : up = [s \in 1..n |-> frames[s].parent]
  OBVIOUS
<1>3. \A s \in 1..n : up[s] \in 0..s - 1 /\ up[s] = frames[s].parent
  BY <1>1, <1>2
<1>4. PICK T : T = SUBSET Nat
  OBVIOUS
<1>5. PICK B : B = [p \in (1..n) \X T |-> p[2] \cup {p[1]}]
  OBVIOUS
<1>6. \A s \in 1..n, t \in T : B[<<s, t>>] = t \cup {s}
  BY <1>5
<1>7. {} \in T
  BY <1>4
<1>8. \A s \in 1..n : \A t \in T : B[<<s, t>>] \in T
  <2>1. ASSUME NEW s \in 1..n, NEW t \in T PROVE (t \cup {s}) \in T
    BY <1>4
  <2> QED
    BY <1>6, <2>1
<1>9. PICK f : f \in [0..n -> T] /\ Grows(f, n, up, {}, B)
  BY <1>3, <1>7, <1>8, GrowsSolved
<1> DEFINE Step(g, i) == IF i = 0 THEN {} ELSE g[frames[i].parent] \cup {i}
<1>10. f[0] = {} /\ \A s \in 1..n : f[s] = f[frames[s].parent] \cup {s}
  <2>1. f[0] = {} /\ \A s \in 1..n : f[s] = B[<<s, f[up[s]]>>]
    BY <1>9 DEF Grows
  <2>2. ASSUME NEW s \in 1..n PROVE f[s] = f[frames[s].parent] \cup {s}
    <3>1. PICK t \in T : t = f[up[s]] /\ t = f[frames[s].parent]
      <4>1. up[s] \in 0..n /\ up[s] = frames[s].parent
        BY <1>3
      <4> QED
        BY <1>9, <4>1
    <3>2. f[s] = B[<<s, t>>]
      BY <2>1, <3>1
    <3> QED
      BY <1>6, <3>1, <3>2
  <2> QED
    BY <2>1, <2>2
<1>11. f = [i \in 0..Len(frames) |-> Step(f, i)]
  <2>1. \A i \in 0..n : i = 0 \/ i \in 1..n
    OBVIOUS
  <2>2. \A i \in 0..n : f[i] = Step(f, i)
    <3>1. f[0] = Step(f, 0)
      BY <1>10
    <3>2. \A i \in 1..n : f[i] = Step(f, i)
      BY <1>10
    <3> QED
      BY <2>1, <3>1, <3>2
  <2>3. f = [i \in 0..n |-> f[i]]
    BY <1>9
  <2> HIDE DEF Step
  <2>4. f = [i \in 0..n |-> Step(f, i)]
    BY <2>2, <2>3
  <2> QED
    BY <1>1, <2>4
<1>12. PICK g : g = CHOOSE h : h = [i \in 0..Len(frames) |-> Step(h, i)]
  OBVIOUS
<1>13. g = [i \in 0..Len(frames) |-> Step(g, i)]
  BY <1>11, <1>12
<1>14. \A s : Chain(s) = g[s] \cap DOMAIN frames
  BY <1>12, Zenon DEF Chain
<1>15. g[0] = {} /\ \A s \in 1..n : g[s] = g[frames[s].parent] \cup {s}
  <2>1. \A i \in 0..n : g[i] = Step(g, i)
    BY <1>1, <1>13
  <2>2. 0 \in 0..n /\ \A s \in 1..n : s \in 0..n /\ s # 0
    OBVIOUS
  <2>3. g[0] = {}
    BY <2>1, <2>2
  <2>4. ASSUME NEW s \in 1..n PROVE g[s] = g[frames[s].parent] \cup {s}
    <3>1. s \in 0..n /\ s # 0
      OBVIOUS
    <3> QED
      BY <2>1, <3>1
  <2> QED
    BY <2>3, <2>4
<1> QED
  BY <1>1, <1>14, <1>15

\* The levels in force, when all of them have a row.
LEMMA LevelsChained ==
    ASSUME WalkInv, Linkage, OnlyLast, ~Unsettled, walking
    PROVE  \E c : /\ ChainTo(c, LevelTags, proc)
                  /\ InTemplate(CurrentBranch) = Tip(c, Len(LevelTags))
                  /\ {InTemplate(b) : b \in Chain(CurrentBranch)}
                       = {c[j] : j \in 1..Len(LevelTags)}
<1>1. PICK n, f, m \in Nat : n = Len(branches) /\ f = Len(frames) /\ m = Len(levels)
  BY RowCounts
<1>2. /\ base = n /\ \A i \in 1..f : frames[i].parent \in 0..i - 1
      /\ \A j \in 1..m : levels[j].id # 0 =>
           /\ frames[levels[j].id].node = levels[j].node
           /\ frames[levels[j].id].arm = levels[j].arm
           /\ frames[levels[j].id].parent = IF j = 1 THEN 0 ELSE levels[j - 1].id
  BY <1>1 DEF Linkage, LevelsLinked
<1>3. \A j \in 1..m : levels[j].id \in 1..f
  <2>1. \A j \in 1..m : levels[j] \in Level /\ levels[j].id <= f
    BY <1>1, ElementIn DEF WalkInv, LevelsOK, Numbered
  <2>2. ASSUME NEW j \in 1..m PROVE levels[j].id # 0
    <3>1. CASE j = m
      <4>1. levels # <<>>
        BY <1>1
      <4> QED
        BY <1>1, <3>1, <4>1 DEF Unsettled
    <3>2. CASE j # m
      <4>1. j \in 1..m - 1
        BY <3>2
      <4> QED
        BY <1>1, <4>1 DEF OnlyLast
    <3> QED
      BY <3>1, <3>2
  <2> QED
    BY <2>1, <2>2 DEF Level
<1>4. PICK id \in [1..m -> 1..f] : \A j \in 1..m : id[j] = levels[j].id
  <2>1. [j \in 1..m |-> levels[j].id] \in [1..m -> 1..f]
    BY <1>3
  <2> QED
    BY <2>1
<1>5. \A j \in 1..m : /\ frames[id[j]].node = levels[j].node
                      /\ frames[id[j]].arm = levels[j].arm
                      /\ frames[id[j]].parent = IF j = 1 THEN 0 ELSE id[j - 1]
  <2>1. SUFFICES ASSUME NEW j \in 1..m
                 PROVE  /\ frames[id[j]].node = levels[j].node
                        /\ frames[id[j]].arm = levels[j].arm
                        /\ frames[id[j]].parent = IF j = 1 THEN 0 ELSE id[j - 1]
    OBVIOUS
  <2>2. id[j] = levels[j].id /\ levels[j].id # 0
    BY <1>3, <1>4
  <2>3. j # 1 => j - 1 \in 1..m /\ id[j - 1] = levels[j - 1].id
    BY <1>4
  <2> QED
    BY <1>2, <2>2, <2>3
<1>6. PICK c \in [1..m -> 1..n + f] : \A j \in 1..m : c[j] = n + id[j]
  <2>1. \A j \in 1..m : n + id[j] \in 1..n + f
    BY <1>4
  <2>2. [j \in 1..m |-> n + id[j]] \in [1..m -> 1..n + f]
    BY <2>1
  <2> QED
    BY <2>2
<1>7. Size = n + f
  BY <1>1 DEF Size
<1>8. Len(LevelTags) = m /\ \A j \in 1..m : LevelTags[j] = LevelTag(j)
  BY <1>1, LevelsTagged DEF WalkInv
<1>9. ASSUME NEW j \in 1..m
      PROVE  /\ TableRow(c[j]).parent = Over(c, j)
             /\ TagOf(TableRow(c[j])) = LevelTags[j]
             /\ TableRow(c[j]).proc = proc
  <2>1. PICK i \in 1..f : i = id[j]
    BY <1>4
  <2>2. c[j] = n + i /\ ~(n + i <= n) /\ (n + i) - n = i
    BY <1>6, <2>1
  <2>3. TableRow(c[j]) = FrameRow(i)
    BY <1>1, <2>2 DEF TableRow
  <2>4. Over(c, j) = InTemplate(frames[i].parent)
    <3>1. CASE j = 1
      BY <1>5, <2>1, <3>1 DEF Over, InTemplate
    <3>2. CASE j # 1
      <4>1. j - 1 \in 1..m
        BY <3>2
      <4>2. c[j - 1] = n + id[j - 1] /\ id[j - 1] # 0
        BY <1>4, <1>6, <4>1
      <4>3. frames[i].parent = id[j - 1]
        BY <1>5, <2>1, <3>2
      <4> QED
        BY <1>2, <3>2, <4>2, <4>3 DEF Over, InTemplate
    <3> QED
      BY <3>1, <3>2
  <2>5. LevelTags[j] = <<levels[j].node, levels[j].arm, frames[i].site>>
    <3>1. levels[j].id = i /\ i # 0
      BY <1>4, <2>1
    <3> QED
      BY <1>8, <3>1 DEF LevelTag
  <2>6. frames[i].node = levels[j].node /\ frames[i].arm = levels[j].arm
    BY <1>5, <2>1
  <2>7. PICK r : r = FrameRow(i)
    OBVIOUS
  <2>8. /\ r.parent = InTemplate(frames[i].parent) /\ r.node = frames[i].node
        /\ r.arm = frames[i].arm /\ r.site = frames[i].site /\ r.proc = proc
    BY <2>7 DEF FrameRow
  <2> QED
    BY <2>3, <2>4, <2>5, <2>6, <2>7, <2>8 DEF TagOf
<1>10. ChainTo(c, LevelTags, proc)
  BY <1>6, <1>7, <1>8, <1>9 DEF ChainTo
<1>11. /\ Chain(0) = {}
       /\ \A s \in 1..f : Chain(s) = Chain(frames[s].parent) \cup {s}
  BY <1>1, <1>2, ChainUnfolds DEF WalkInv
<1>12. \A j \in 1..m : Chain(id[j]) = {id[k] : k \in 1..j}
  <2>1. PICK B : B = {j \in 1..m : Chain(id[j]) # {id[k] : k \in 1..j}}
    OBVIOUS
  <2>2. CASE B # {}
    <3>1. B \in SUBSET Nat
      BY <2>1
    <3>2. PICK j \in B : \A i \in B : j <= i
      BY <2>2, <3>1, Least
    <3>3. j \in 1..m /\ Chain(id[j]) # {id[k] : k \in 1..j}
      BY <2>1
    <3>4. /\ id[j] \in 1..f
          /\ frames[id[j]].parent = IF j = 1 THEN 0 ELSE id[j - 1]
      BY <1>4, <1>5, <3>3
    <3>5. Chain(id[j]) = Chain(IF j = 1 THEN 0 ELSE id[j - 1]) \cup {id[j]}
      BY <1>11, <3>4
    <3>6. CASE j = 1
      <4>1. Chain(id[j]) = {id[j]}
        BY <1>11, <3>5, <3>6
      <4>2. {id[k] : k \in 1..j} = {id[j]}
        BY <3>6
      <4> QED
        BY <3>3, <4>1, <4>2
    <3>7. CASE j # 1
      <4>1. PICK i \in 1..m : i = j - 1
        BY <3>3, <3>7
      <4>2. i \notin B
        BY <3>2, <3>3, <4>1
      <4>3. Chain(id[i]) = {id[k] : k \in 1..i}
        BY <2>1, <4>2
      <4>4. 1..j = (1..i) \cup {j}
        BY <3>3, <4>1
      <4>5. {id[k] : k \in 1..j} = {id[k] : k \in 1..i} \cup {id[j]}
        BY <4>4
      <4> QED
        BY <3>3, <3>5, <3>7, <4>1, <4>3, <4>5
    <3> QED
      BY <3>6, <3>7
  <2>3. CASE B = {}
    BY <2>1, <2>3
  <2> QED
    BY <2>2, <2>3
<1>13. CASE m = 0
  <2>1. levels = <<>>
    <3>1. PICK lv \in Seq(Level) : lv = levels
      BY DEF WalkInv, LevelsOK, Numbered
    <3>2. Len(lv) = 0
      BY <1>1, <1>13, <3>1
    <3> QED
      BY <3>1, <3>2
  <2>2. CurrentBranch = 0
    BY <2>1 DEF CurrentBranch
  <2>3. InTemplate(CurrentBranch) = Tip(c, m)
    BY <1>13, <2>2 DEF InTemplate, Tip
  <2>4. {InTemplate(b) : b \in Chain(CurrentBranch)} = {c[j] : j \in 1..m}
    BY <1>11, <1>13, <2>2
  <2> QED
    BY <1>8, <1>10, <2>3, <2>4
<1>14. CASE m # 0
  <2>1. m \in 1..m /\ levels # <<>>
    BY <1>1, <1>14
  <2>2. CurrentBranch = id[m] /\ id[m] # 0
    BY <1>1, <1>3, <1>4, <2>1 DEF CurrentBranch, IdOf
  <2>3. InTemplate(CurrentBranch) = Tip(c, m)
    BY <1>2, <1>6, <1>14, <2>1, <2>2 DEF InTemplate, Tip
  <2>4. Chain(CurrentBranch) = {id[k] : k \in 1..m}
    BY <1>12, <2>1, <2>2
  <2>5. \A j \in 1..m : InTemplate(id[j]) = c[j]
    BY <1>2, <1>4, <1>6 DEF InTemplate
  <2>6. {InTemplate(b) : b \in Chain(CurrentBranch)} = {c[j] : j \in 1..m}
    BY <2>4, <2>5
  <2> QED
    BY <1>8, <1>10, <2>3, <2>6
<1> QED
  BY <1>13, <1>14

\* A row filed where the walk stands is nested as its node is.
LEMMA RowNested ==
    ASSUME WalkInv, Follows, Linkage, agenda # <<>>, NEW n \in Node,
           Head(agenda).op = "visit", Head(agenda).node = n,
           NEW r, r.node = n, r.site = ctx.site, r.proc = proc,
           r.branch = InTemplate(CurrentBranch),
           \/ Of(n).kind \notin {"assign", "step", "return"}
           \/ r.gates = {InTemplate(b) : b \in Chain(CurrentBranch)}
    PROVE  Nested(r)
<1>1. walking /\ Placed(n, Now) /\ ~Unsettled /\ Now.c = ctx /\ Now.lv = LevelTags
  BY AtHand
<1>2. PICK c : /\ ChainTo(c, LevelTags, proc)
               /\ InTemplate(CurrentBranch) = Tip(c, Len(LevelTags))
               /\ {InTemplate(b) : b \in Chain(CurrentBranch)}
                    = {c[j] : j \in 1..Len(LevelTags)}
  BY <1>1, LevelsChained DEF Follows
<1>3. PICK x, s, t : x = Now /\ s = ctx.site /\ t = LevelTags
  OBVIOUS
<1>4. t = Nesting(n, s)
  <2>1. x.lv = NestAbove(x.c.site) \o Tagged(Around(n), x.c.site)
    BY <1>1, <1>3 DEF Placed
  <2> QED
    BY <1>1, <1>3, <2>1, NestingIs
<1>5. Gated(r, c, Len(t))
  BY <1>2, <1>3 DEF Gated
<1>6. r.site \in 0..Len(sites)
  BY DEF WalkInv, CtxOK
<1>7. ChainTo(c, t, r.proc) /\ r.branch = Tip(c, Len(t))
  BY <1>2, <1>3
<1>8. r.node # 0
  BY NodesPositive
<1>9. \A tags : tags = Nesting(r.node, r.site) => tags = t
  BY <1>3, <1>4
<1> QED
  BY <1>5, <1>6, <1>7, <1>8, <1>9 DEF Nested

LEMMA NestedKept ==
    ASSUME WalkInv, WalkInv', AllNested, UNCHANGED program, Grown, Lengthened,
           \A i \in 1..Len(stmts') :
              (i \in 1..Len(stmts) /\ stmts'[i] = stmts[i]) \/ Nested(stmts'[i])
    PROVE  AllNested'
<1>1. \A i \in 1..Len(stmts') : \A r : r = stmts'[i] => (r.node # 0 => r.node \in Node)
  <2>1. stmts' \in Seq(Stmt)
    BY DEF WalkInv, RowsOK
  <2>2. \A i \in 1..Len(stmts') : stmts'[i] \in Stmt
    BY <2>1, ElementIn
  <2> QED
    BY <2>2 DEF Stmt
<1>2. \A r : (r.node # 0 => r.node \in Node) /\ Nested(r) => Nested(r)'
  BY NestedStays
<1>3. \A i \in 1..Len(stmts') : \A r : r = stmts'[i] => Nested(r)
  BY DEF AllNested
<1> QED
  BY <1>1, <1>2, <1>3 DEF AllNested

LEMMA FiledNested ==
    ASSUME WalkInv, WalkInv', AllNested, Quiet, NoCalls, Lengthened,
           NEW rows \in Seq(Stmt), File(rows), \A i \in 1..Len(rows) : Nested(rows[i])
    PROVE  AllNested'
<1>1. Grown /\ UNCHANGED program
  BY DEF Quiet, NoCalls, Grown, WalkInv, CallsOK
<1>2. stmts \in Seq(Stmt) /\ Len(stmts) \in Nat /\ Len(rows) \in Nat
  BY DEF WalkInv, RowsOK
<1>3. PICK t : t = stmts \o rows
  OBVIOUS
<1>4. stmts' = t
  BY <1>3 DEF File
<1>5. /\ Len(t) = Len(stmts) + Len(rows) /\ \A i \in 1..Len(stmts) : t[i] = stmts[i]
      /\ \A i \in Len(stmts) + 1..Len(stmts) + Len(rows) : t[i] = rows[i - Len(stmts)]
  BY <1>2, <1>3, Joined
<1>6. \A i \in 1..Len(t) : (i \in 1..Len(stmts) /\ t[i] = stmts[i]) \/ Nested(t[i])
  <2>1. SUFFICES ASSUME NEW i \in 1..Len(t), i \notin 1..Len(stmts) PROVE Nested(t[i])
    BY <1>5
  <2>2. t[i] = rows[i - Len(stmts)] /\ i - Len(stmts) \in 1..Len(rows)
    BY <1>2, <1>5, <2>1
  <2> QED
    BY <2>2
<1> QED
  BY <1>1, <1>4, <1>6, NestedKept

LEMMA NoneNested ==
    ASSUME WalkInv, WalkInv', AllNested, UNCHANGED <<program, stmts>>, Grown, Lengthened
    PROVE  AllNested'
<1>1. \A i \in 1..Len(stmts') : i \in 1..Len(stmts) /\ stmts'[i] = stmts[i]
  OBVIOUS
<1> QED
  BY <1>1, NestedKept

LEMMA RowFields ==
    ASSUME NEW n, NEW k, NEW writes
    PROVE  /\ Row(n, k, writes).node = n /\ Row(n, k, writes).site = ctx.site
           /\ Row(n, k, writes).proc = proc
           /\ Row(n, k, writes).branch = InTemplate(CurrentBranch)
  BY DEF Row

LEMMA WriteFields ==
    ASSUME NEW n, NEW writes, NEW delay
    PROVE  /\ Write(n, writes, delay).node = n /\ Write(n, writes, delay).site = ctx.site
           /\ Write(n, writes, delay).proc = proc
           /\ Write(n, writes, delay).branch = InTemplate(CurrentBranch)
           /\ Write(n, writes, delay).gates = {InTemplate(b) : b \in Chain(CurrentBranch)}
<1>1. PICK g : g = {InTemplate(b) : b \in Chain(CurrentBranch)}
  OBVIOUS
<1>2. PICK b, p, q : b = InTemplate(CurrentBranch) /\ p = proc
                     /\ q = (IF proc = 0 THEN -1 ELSE seq + 0)
  OBVIOUS
<1>3. Row(n, 0, writes) = [node |-> n, proc |-> p, site |-> ctx.site, branch |-> b, seq |-> q,
                           delay |-> NoDelay, word |-> "own", writes |-> writes, gates |-> {}]
  BY <1>2 DEF Row
<1>4. Write(n, writes, delay) = [Row(n, 0, writes) EXCEPT
                                    !.delay = delay, !.word = ctx.word, !.gates = g]
  BY <1>1 DEF Write
<1> QED
  BY <1>1, <1>2, <1>3, <1>4

LEMMA WritesNested ==
    ASSUME WalkInv, WalkInv', Follows, Linkage, Lengthened, AllNested, NEW n \in Node,
           HandleAssignment(n) \/ HandleStep(n) \/ HandleReturn(n)
    PROVE  AllNested'
<1>1. /\ agenda # <<>> /\ Head(agenda).op = "visit" /\ Head(agenda).node = n
      /\ NoCalls /\ Quiet
  BY DEF HandleAssignment, HandleStep, HandleReturn, Visiting, Pending, VisitDefault
<1>2. /\ StartOK /\ CallsOK /\ RowsOK /\ LevelsOK /\ CtxOK /\ ctx \in Context
  BY DEF WalkInv, CtxOK
<1>4. ASSUME NEW writes \in SUBSET Var, NEW delay \in Delay \cup {NoDelay},
             File(<<Write(n, writes, delay)>>)
      PROVE  AllNested'
  <2>1. PICK r \in Stmt : r = Write(n, writes, delay)
    BY <1>2, <1>4, WriteIsStmt
  <2>2. Nested(r)
    <3>1. /\ r.node = n /\ r.site = ctx.site /\ r.proc = proc
          /\ r.branch = InTemplate(CurrentBranch)
          /\ r.gates = {InTemplate(b) : b \in Chain(CurrentBranch)}
      <4>1. PICK w : w = Write(n, writes, delay)
        OBVIOUS
      <4>2. /\ w.node = n /\ w.site = ctx.site /\ w.proc = proc
            /\ w.branch = InTemplate(CurrentBranch)
            /\ w.gates = {InTemplate(b) : b \in Chain(CurrentBranch)}
        BY <4>1, WriteFields
      <4> QED
        BY <2>1, <4>1, <4>2
    <3> QED
      BY <1>1, <3>1, RowNested
  <2>3. PICK rows \in Seq(Stmt) : rows = <<r>>
    BY Single
  <2>4. \A i \in 1..Len(rows) : Nested(rows[i])
    <3>1. Len(rows) = 1 /\ rows[1] = r
      BY <2>3
    <3> QED
      BY <2>2, <3>1
  <2> QED
    BY <1>1, <1>4, <2>1, <2>3, <2>4, FiledNested
<1>5. CASE UNCHANGED stmts
  <2>1. Grown /\ UNCHANGED <<program, stmts>>
    BY <1>1, <1>2, <1>5 DEF Grown, NoCalls, Quiet, CallsOK
  <2> QED
    BY <2>1, NoneNested
<1>6. Of(n).vars \subseteq Var /\ Of(n).delay \in Delay \cup {NoDelay}
      /\ ctx.delay \in Delay \cup {NoDelay}
      /\ (ctx.sub # 0 => program.result[ctx.sub] \subseteq Var)
  BY <1>2, SyntaxOf DEF Syntax, Context
<1>7. CASE HandleAssignment(n)
  <2>1. PICK targets \in SUBSET Var : targets = Of(n).vars \ ctx.indices
    BY <1>6
  <2>2. PICK delay \in Delay \cup {NoDelay} :
           delay = IF Of(n).delay # NoDelay THEN Of(n).delay ELSE ctx.delay
    BY <1>6
  <2>4. File(<<Write(n, targets, delay)>>) \/ UNCHANGED stmts
    BY <1>7, <2>1, <2>2 DEF HandleAssignment
  <2> QED
    BY <1>4, <1>5, <2>4
<1>8. CASE HandleStep(n)
  <2>1. PICK targets \in SUBSET Var : targets = Of(n).vars \ ctx.indices
    BY <1>6
  <2>3. File(<<Write(n, targets, ctx.delay)>>) \/ UNCHANGED stmts
    BY <1>8, <2>1 DEF HandleStep, NoRows
  <2> QED
    BY <1>4, <1>5, <1>6, <2>3
<1>9. CASE HandleReturn(n)
  <2>1. PICK result \in SUBSET Var :
           result = IF ctx.sub = 0 THEN {} ELSE program.result[ctx.sub]
    BY <1>6
  <2>3. File(<<Write(n, result, ctx.delay)>>) \/ UNCHANGED stmts
    BY <1>9, <2>1 DEF HandleReturn, NoRows
  <2> QED
    BY <1>4, <1>5, <1>6, <2>3
<1> QED
  BY <1>7, <1>8, <1>9

LEMMA WaitsNested ==
    ASSUME WalkInv, WalkInv', Follows, Linkage, Lengthened, AllNested, NEW n \in Node,
           HandleRow(n) \/ HandleTimed(n)
    PROVE  AllNested'
<1>1. /\ agenda # <<>> /\ Head(agenda).op = "visit" /\ Head(agenda).node = n
      /\ NoCalls /\ Quiet /\ Of(n).kind \in {"row", "timed"}
  BY DEF HandleRow, HandleTimed, Visiting, Pending, VisitDefault
<1>2. /\ StartOK /\ CallsOK /\ RowsOK /\ LevelsOK /\ CtxOK
  BY DEF WalkInv
<1>3. \A k \in Nat : Row(n, k, {}) \in Stmt /\ Nested(Row(n, k, {}))
  <2>1. SUFFICES ASSUME NEW k \in Nat PROVE Row(n, k, {}) \in Stmt /\ Nested(Row(n, k, {}))
    OBVIOUS
  <2>2. PICK none \in SUBSET Var : none = {}
    OBVIOUS
  <2>3. PICK r \in Stmt : r = Row(n, k, {})
    BY <1>2, <2>2, RowIsStmt
  <2>4. /\ r.node = n /\ r.site = ctx.site /\ r.proc = proc
        /\ r.branch = InTemplate(CurrentBranch)
    BY <2>3, RowFields
  <2>5. Nested(r)
    BY <1>1, <2>4, RowNested
  <2> QED
    BY <2>3, <2>5
<1>4. CASE UNCHANGED stmts
  <2>1. Grown /\ UNCHANGED <<program, stmts>>
    BY <1>1, <1>2, <1>4 DEF Grown, NoCalls, Quiet, CallsOK
  <2> QED
    BY <2>1, NoneNested
<1>5. ASSUME NEW rows \in Seq(Stmt), File(rows), \A i \in 1..Len(rows) : Nested(rows[i])
      PROVE  AllNested'
  BY <1>1, <1>5, FiledNested
<1>6. CASE HandleRow(n)
  <2>1. PICK r \in Stmt : r = Row(n, 0, {}) /\ Nested(r)
    BY <1>3
  <2>2. PICK rows \in Seq(Stmt) : rows = <<r>>
    BY Single
  <2>3. Len(rows) = 1 /\ rows[1] = r
    BY <2>2
  <2>4. \A i \in 1..Len(rows) : Nested(rows[i])
    BY <2>1, <2>3
  <2>5. File(rows)
    BY <1>6, <2>1, <2>2 DEF HandleRow
  <2> QED
    BY <1>5, <2>4, <2>5
<1>7. CASE HandleTimed(n)
  <2>1. PICK w \in Nat : w = Of(n).waits
    BY <1>2, SyntaxOf DEF Syntax
  <2>2. PICK rows : rows = [k \in 1..w |-> Row(n, k - 1, {})]
    OBVIOUS
  <2>3. \A k \in 1..w : k - 1 \in Nat /\ rows[k] = Row(n, k - 1, {})
    BY <2>1, <2>2
  <2>4. \A k \in 1..w : rows[k] \in Stmt /\ Nested(rows[k])
    BY <1>3, <2>3
  <2>7. rows = [k \in 1..w |-> rows[k]]
    BY <2>2
  <2>5. rows \in Seq(Stmt) /\ Len(rows) = w
    BY <2>1, <2>4, <2>7, Listed
  <2>6. File(rows) \/ UNCHANGED stmts
    BY <1>7, <2>1, <2>2 DEF HandleTimed, NoRows
  <2> QED
    BY <1>4, <1>5, <2>4, <2>5, <2>6
<1> QED
  BY <1>6, <1>7

LEMMA StartNested ==
    ASSUME WalkInv, WalkInv', Linkage, Lengthened, AllNested, StartWalk
    PROVE  AllNested'
<1>1. Grown /\ UNCHANGED program
  BY DEF StartWalk, NoCalls, Grown, WalkInv, CallsOK
<1>2. stmts \in Seq(Stmt) /\ stmts' \in Seq(Stmt) /\ Len(stmts) \in Nat
  BY DEF WalkInv, RowsOK
<1>3. CASE UNCHANGED stmts
  BY <1>1, <1>3, NoneNested
<1>4. CASE ~UNCHANGED stmts
  <2>1. PICK e : /\ e.node = 0 /\ e.site = ctx.site /\ e.branch = curBranch
                 /\ stmts' = Append(stmts, e)
    BY <1>4 DEF StartWalk
  <2>2. Nested(e)
    <3>1. ~walking /\ agenda = <<>>
      BY DEF StartWalk, WalkInv, IdleOK
    <3>2. ctx.site = 0 /\ curBranch = 0
      BY <3>1, NoSiteBetween DEF Linkage
    <3> QED
      BY <2>1, <3>2 DEF Nested
  <2>3. /\ Len(stmts') = Len(stmts) + 1 /\ stmts'[Len(stmts) + 1] = e
        /\ \A i \in 1..Len(stmts) : stmts'[i] = stmts[i]
    BY <1>2, <2>1
  <2>4. \A i \in 1..Len(stmts') : (i \in 1..Len(stmts) /\ stmts'[i] = stmts[i])
                                  \/ stmts'[i] = e
    BY <1>2, <2>3
  <2>5. \A i \in 1..Len(stmts') : (i \in 1..Len(stmts) /\ stmts'[i] = stmts[i])
                                  \/ Nested(stmts'[i])
    BY <2>2, <2>4
  <2> QED
    BY <1>1, <2>5, NestedKept
<1> QED
  BY <1>3, <1>4

LEMMA NestedInit == Init => Linkage /\ AllNested
  BY DEF Init, Linkage, LevelsLinked, BranchesBack, AllNested

LEMMA NestedStep ==
    WalkInv /\ WalkInv' /\ Follows /\ Linkage /\ AllNested /\ [Next]_vars
      => Linkage' /\ AllNested'
<1> SUFFICES ASSUME WalkInv, WalkInv', Follows, Linkage, AllNested, [Next]_vars
             PROVE  Linkage' /\ AllNested'
  OBVIOUS
<1>0. Linkage' /\ Lengthened
  BY LinkageStep
<1>1. CASE StartWalk
  BY <1>0, <1>1, StartNested
<1>2. program' = program /\ stmts' = stmts /\ sites' = sites => AllNested'
  <2>1. HAVE program' = program /\ stmts' = stmts /\ sites' = sites
  <2>2. UNCHANGED <<program, stmts>> /\ Grown
    BY <2>1 DEF Grown, WalkInv, CallsOK
  <2> QED
    BY <1>0, <2>2, NoneNested
<1>3. CASE EndWalk \/ Finished \/ UNCHANGED vars
  <2>1. program' = program /\ stmts' = stmts /\ sites' = sites
    BY <1>3 DEF EndWalk, Finished, NoCalls, vars, walkVars, buildVars, tables
  <2> QED
    BY <1>0, <1>2, <2>1
<1>4. CASE Resume
  <2>1. program' = program /\ stmts' = stmts /\ sites' = sites
    BY <1>4 DEF Resume, PushPoint, EnterArm, PopLevel, Unguard, Unindex, Undelay,
                Unforce, LeaveCall, NoCalls, NoRows, Quiet, tables
  <2> QED
    BY <1>0, <1>2, <2>1
<1>5. ASSUME NEW n \in Node, Recursive(n) \/ OverBudget(n) \/ Expand(n) PROVE AllNested'
  <2>1. Entering(n) /\ Allocate(n) /\ UNCHANGED <<program, stmts>>
    BY <1>5 DEF Recursive, OverBudget, Expand, NoRows, Quiet
  <2>2. Grown
    BY <2>1, Allocated
  <2> QED
    BY <1>0, <2>1, <2>2, NoneNested
<1>6. ASSUME NEW n \in Node,
             \/ HandlePlain(n) \/ HandleForce(n) \/ HandleConditional(n) \/ HandleCase(n)
             \/ HandleLoop(n) \/ HandleFor(n) \/ HandleForeach(n) \/ HandleCall(n)
      PROVE  AllNested'
  <2>1. program' = program /\ stmts' = stmts /\ sites' = sites
    BY <1>6 DEF HandlePlain, HandleForce, HandleConditional, HandleCase, HandleLoop,
                HandleFor, HandleForeach, HandleCall, VisitDefault, NoRows, NoCalls, Quiet
  <2> QED
    BY <1>0, <1>2, <2>1
<1>7. ASSUME NEW n \in Node, Handle(n) PROVE AllNested'
  BY <1>0, <1>5, <1>6, <1>7, WritesNested, WaitsNested DEF Handle
<1> QED
  BY <1>0, <1>1, <1>3, <1>4, <1>7 DEF Next

(***************************************************************************)
(* What the rows of the branch table say, row by row.                      *)
(***************************************************************************)
LEMMA RecordedUnfolds ==
    ASSUME StartOK, BranchesBack
    PROVE  /\ Recorded(0) = <<>>
           /\ \A s \in 1..Len(branches) :
                /\ Recorded(branches[s].parent) \in Seq(Tag)
                /\ Recorded(s) = Append(Recorded(branches[s].parent), <<branches[s].node, branches[s].arm, branches[s].site>>)
<1>1. PICK n \in Nat : n = Len(branches)
  BY DEF StartOK
<1>2. PICK up : up = [s \in 1..n |-> branches[s].parent]
  OBVIOUS
<1>3. \A s \in 1..n : up[s] \in 0..s - 1 /\ up[s] = branches[s].parent /\ branches[s] \in Branch
  BY <1>1, <1>2, ElementIn DEF StartOK, BranchesBack
<1>4. PICK T : T = Seq(Tag)
  OBVIOUS
<1>5. PICK B : B = [p \in (1..n) \X T |-> Append(p[2], <<branches[p[1]].node, branches[p[1]].arm, branches[p[1]].site>>)]
  OBVIOUS
<1>6. \A s \in 1..n, t \in T : B[<<s, t>>] = Append(t, <<branches[s].node, branches[s].arm, branches[s].site>>)
  BY <1>5
<1>7. <<>> \in T
  BY <1>4
<1>8. \A s \in 1..n : \A t \in T : B[<<s, t>>] \in T
  <2>1. ASSUME NEW s \in 1..n, NEW t \in T PROVE (Append(t, <<branches[s].node, branches[s].arm, branches[s].site>>)) \in T
    <3>1. PICK e \in Tag : e = <<branches[s].node, branches[s].arm, branches[s].site>>
      BY <1>3 DEF Branch, Tag
    <3> QED
      BY <1>4, <3>1
  <2> QED
    BY <1>6, <2>1
<1>9. PICK f : f \in [0..n -> T] /\ Grows(f, n, up, <<>>, B)
  BY <1>3, <1>7, <1>8, GrowsSolved
<1> DEFINE Step(g, i) == IF i = 0 THEN <<>> ELSE Append(g[branches[i].parent], <<branches[i].node, branches[i].arm, branches[i].site>>)
<1>10. f[0] = <<>> /\ \A s \in 1..n : f[s] = Append(f[branches[s].parent], <<branches[s].node, branches[s].arm, branches[s].site>>)
  <2>1. f[0] = <<>> /\ \A s \in 1..n : f[s] = B[<<s, f[up[s]]>>]
    BY <1>9 DEF Grows
  <2>2. ASSUME NEW s \in 1..n PROVE f[s] = Append(f[branches[s].parent], <<branches[s].node, branches[s].arm, branches[s].site>>)
    <3>1. PICK t \in T : t = f[up[s]] /\ t = f[branches[s].parent]
      <4>1. up[s] \in 0..n /\ up[s] = branches[s].parent
        BY <1>3
      <4> QED
        BY <1>9, <4>1
    <3>2. f[s] = B[<<s, t>>]
      BY <2>1, <3>1
    <3> QED
      BY <1>6, <3>1, <3>2
  <2> QED
    BY <2>1, <2>2
<1>11. f = [i \in 0..Len(branches) |-> Step(f, i)]
  <2>1. \A i \in 0..n : i = 0 \/ i \in 1..n
    OBVIOUS
  <2>2. \A i \in 0..n : f[i] = Step(f, i)
    <3>1. f[0] = Step(f, 0)
      BY <1>10
    <3>2. \A i \in 1..n : f[i] = Step(f, i)
      BY <1>10
    <3> QED
      BY <2>1, <3>1, <3>2
  <2>3. f = [i \in 0..n |-> f[i]]
    BY <1>9
  <2> HIDE DEF Step
  <2>4. f = [i \in 0..n |-> Step(f, i)]
    BY <2>2, <2>3
  <2> QED
    BY <1>1, <2>4
<1>12. PICK g : g = CHOOSE h : h = [i \in 0..Len(branches) |-> Step(h, i)]
  OBVIOUS
<1>13. g = [i \in 0..Len(branches) |-> Step(g, i)]
  BY <1>11, <1>12
<1>14. \A s : Recorded(s) = g[s]
  BY <1>12, Zenon DEF Recorded
<1>15. g[0] = <<>> /\ \A s \in 1..n : g[s] = Append(g[branches[s].parent], <<branches[s].node, branches[s].arm, branches[s].site>>)
  <2>1. \A i \in 0..n : g[i] = Step(g, i)
    BY <1>1, <1>13
  <2>2. 0 \in 0..n /\ \A s \in 1..n : s \in 0..n /\ s # 0
    OBVIOUS
  <2>3. g[0] = <<>>
    BY <2>1, <2>2
  <2>4. ASSUME NEW s \in 1..n PROVE g[s] = Append(g[branches[s].parent], <<branches[s].node, branches[s].arm, branches[s].site>>)
    <3>1. s \in 0..n /\ s # 0
      OBVIOUS
    <3> QED
      BY <2>1, <3>1
  <2> QED
    BY <2>3, <2>4
<1>16. \A s \in 0..n : g[s] \in T
  <2>1. PICK bad : bad = {s \in 0..n : g[s] \notin T}
    OBVIOUS
  <2>2. CASE bad # {}
    <3>1. bad \in SUBSET Nat
      BY <2>1
    <3>2. PICK s \in bad : \A i \in bad : s <= i
      BY <2>2, <3>1, Least
    <3>3. s \in 1..n /\ g[s] \notin T
      BY <1>7, <1>15, <2>1, <3>2
    <3>4. branches[s].parent \in 0..n /\ branches[s].parent < s
      BY <1>3, <3>3
    <3>5. PICK t \in T : t = g[branches[s].parent]
      BY <2>1, <3>2, <3>3, <3>4
    <3>6. g[s] = Append(t, <<branches[s].node, branches[s].arm, branches[s].site>>)
      BY <1>15, <3>3, <3>5
    <3>7. B[<<s, t>>] \in T
      BY <1>8, <3>3
    <3> QED
      BY <1>6, <3>3, <3>6, <3>7
  <2>3. CASE bad = {}
    BY <2>1, <2>3
  <2> QED
    BY <2>2, <2>3
<1>17. \A s \in 1..n : branches[s].parent \in 0..n
  BY <1>3
<1> QED
  BY <1>1, <1>4, <1>14, <1>15, <1>16, <1>17

LEMMA AncestorsUnfolds ==
    ASSUME StartOK, BranchesBack
    PROVE  /\ Ancestors(0) = {}
           /\ \A s \in 1..Len(branches) :
                /\ Ancestors(branches[s].parent) \in SUBSET Nat
                /\ Ancestors(s) = Ancestors(branches[s].parent) \cup {s}
<1>1. PICK n \in Nat : n = Len(branches)
  BY DEF StartOK
<1>2. PICK up : up = [s \in 1..n |-> branches[s].parent]
  OBVIOUS
<1>3. \A s \in 1..n : up[s] \in 0..s - 1 /\ up[s] = branches[s].parent /\ branches[s] \in Branch
  BY <1>1, <1>2, ElementIn DEF StartOK, BranchesBack
<1>4. PICK T : T = SUBSET Nat
  OBVIOUS
<1>5. PICK B : B = [p \in (1..n) \X T |-> p[2] \cup {p[1]}]
  OBVIOUS
<1>6. \A s \in 1..n, t \in T : B[<<s, t>>] = t \cup {s}
  BY <1>5
<1>7. {} \in T
  BY <1>4
<1>8. \A s \in 1..n : \A t \in T : B[<<s, t>>] \in T
  <2>1. ASSUME NEW s \in 1..n, NEW t \in T PROVE (t \cup {s}) \in T
    BY <1>4
  <2> QED
    BY <1>6, <2>1
<1>9. PICK f : f \in [0..n -> T] /\ Grows(f, n, up, {}, B)
  BY <1>3, <1>7, <1>8, GrowsSolved
<1> DEFINE Step(g, i) == IF i = 0 THEN {} ELSE g[branches[i].parent] \cup {i}
<1>10. f[0] = {} /\ \A s \in 1..n : f[s] = f[branches[s].parent] \cup {s}
  <2>1. f[0] = {} /\ \A s \in 1..n : f[s] = B[<<s, f[up[s]]>>]
    BY <1>9 DEF Grows
  <2>2. ASSUME NEW s \in 1..n PROVE f[s] = f[branches[s].parent] \cup {s}
    <3>1. PICK t \in T : t = f[up[s]] /\ t = f[branches[s].parent]
      <4>1. up[s] \in 0..n /\ up[s] = branches[s].parent
        BY <1>3
      <4> QED
        BY <1>9, <4>1
    <3>2. f[s] = B[<<s, t>>]
      BY <2>1, <3>1
    <3> QED
      BY <1>6, <3>1, <3>2
  <2> QED
    BY <2>1, <2>2
<1>11. f = [i \in 0..Len(branches) |-> Step(f, i)]
  <2>1. \A i \in 0..n : i = 0 \/ i \in 1..n
    OBVIOUS
  <2>2. \A i \in 0..n : f[i] = Step(f, i)
    <3>1. f[0] = Step(f, 0)
      BY <1>10
    <3>2. \A i \in 1..n : f[i] = Step(f, i)
      BY <1>10
    <3> QED
      BY <2>1, <3>1, <3>2
  <2>3. f = [i \in 0..n |-> f[i]]
    BY <1>9
  <2> HIDE DEF Step
  <2>4. f = [i \in 0..n |-> Step(f, i)]
    BY <2>2, <2>3
  <2> QED
    BY <1>1, <2>4
<1>12. PICK g : g = CHOOSE h : h = [i \in 0..Len(branches) |-> Step(h, i)]
  OBVIOUS
<1>13. g = [i \in 0..Len(branches) |-> Step(g, i)]
  BY <1>11, <1>12
<1>14. \A s : Ancestors(s) = g[s]
  BY <1>12, Zenon DEF Ancestors
<1>15. g[0] = {} /\ \A s \in 1..n : g[s] = g[branches[s].parent] \cup {s}
  <2>1. \A i \in 0..n : g[i] = Step(g, i)
    BY <1>1, <1>13
  <2>2. 0 \in 0..n /\ \A s \in 1..n : s \in 0..n /\ s # 0
    OBVIOUS
  <2>3. g[0] = {}
    BY <2>1, <2>2
  <2>4. ASSUME NEW s \in 1..n PROVE g[s] = g[branches[s].parent] \cup {s}
    <3>1. s \in 0..n /\ s # 0
      OBVIOUS
    <3> QED
      BY <2>1, <3>1
  <2> QED
    BY <2>3, <2>4
<1>16. \A s \in 0..n : g[s] \in T
  <2>1. PICK bad : bad = {s \in 0..n : g[s] \notin T}
    OBVIOUS
  <2>2. CASE bad # {}
    <3>1. bad \in SUBSET Nat
      BY <2>1
    <3>2. PICK s \in bad : \A i \in bad : s <= i
      BY <2>2, <3>1, Least
    <3>3. s \in 1..n /\ g[s] \notin T
      BY <1>7, <1>15, <2>1, <3>2
    <3>4. branches[s].parent \in 0..n /\ branches[s].parent < s
      BY <1>3, <3>3
    <3>5. PICK t \in T : t = g[branches[s].parent]
      BY <2>1, <3>2, <3>3, <3>4
    <3>6. g[s] = t \cup {s}
      BY <1>15, <3>3, <3>5
    <3>7. B[<<s, t>>] \in T
      BY <1>8, <3>3
    <3> QED
      BY <1>6, <3>3, <3>6, <3>7
  <2>3. CASE bad = {}
    BY <2>1, <2>3
  <2> QED
    BY <2>2, <2>3
<1>17. \A s \in 1..n : branches[s].parent \in 0..n
  BY <1>3
<1> QED
  BY <1>1, <1>4, <1>14, <1>15, <1>16, <1>17

LEMMA NestingTyped ==
    ASSUME StartOK, CallsOK, NEW n \in Node, NEW s \in 0..Len(sites)
    PROVE  Nesting(n, s) \in Seq(Tag)
<1>1. NestAbove(s) \in Seq(Tag)
  BY NestAboveUnfolds
<1>2. Around(n) \in Seq(Node \X Nat)
  BY AroundUnfolds DEF StartOK
<1>3. s \in Nat
  BY DEF CallsOK
<1>4. Tagged(Around(n), s) \in Seq(Tag)
  BY <1>2, <1>3, TaggedTyped
<1>5. PICK x \in Seq(Tag), y \in Seq(Tag) : x = NestAbove(s) /\ y = Tagged(Around(n), s)
  BY <1>1, <1>4
<1>6. x \o y \in Seq(Tag)
  OBVIOUS
<1> QED
  BY <1>5, <1>6, NestingIs

\* A chain of rows is recorded as its tags, and its rows are those above its
\* last one.
LEMMA ChainRecorded ==
    ASSUME StartOK, BranchesBack, NEW m \in Nat, NEW tags \in Seq(Tag), Len(tags) = m,
           NEW c \in [1..m -> 1..Len(branches)],
           \A j \in 1..m : /\ branches[c[j]].parent = Over(c, j)
                           /\ TagOf(branches[c[j]]) = tags[j]
    PROVE  /\ Recorded(Tip(c, m)) = tags
           /\ Ancestors(Tip(c, m)) = {c[j] : j \in 1..m}
<1>1. PICK n \in Nat : n = Len(branches)
  BY DEF StartOK
<1>2. /\ Recorded(0) = <<>> /\ Ancestors(0) = {}
      /\ \A s \in 1..n :
           /\ Recorded(branches[s].parent) \in Seq(Tag)
           /\ Recorded(s) = Append(Recorded(branches[s].parent), TagOf(branches[s]))
           /\ Ancestors(s) = Ancestors(branches[s].parent) \cup {s}
  BY <1>1, RecordedUnfolds, AncestorsUnfolds DEF TagOf
<1>3. PICK cut : cut = [k \in 0..m |-> [j \in 1..k |-> tags[j]]]
  OBVIOUS
<1>4. \A k \in 0..m : /\ cut[k] \in Seq(Tag) /\ Len(cut[k]) = k
                      /\ \A j \in 1..k : cut[k][j] = tags[j]
  <2>1. SUFFICES ASSUME NEW k \in 0..m
                 PROVE  /\ cut[k] \in Seq(Tag) /\ Len(cut[k]) = k
                        /\ \A j \in 1..k : cut[k][j] = tags[j]
    OBVIOUS
  <2>2. PICK t : t = cut[k]
    OBVIOUS
  <2>3. t = [j \in 1..k |-> tags[j]]
    BY <1>3, <2>2
  <2>4. \A j \in 1..k : t[j] = tags[j] /\ t[j] \in Tag
    <3>1. \A j \in 1..k : j \in 1..Len(tags)
      OBVIOUS
    <3> QED
      BY <2>3, <3>1, ElementIn
  <2>5. t = [j \in 1..k |-> t[j]]
    BY <2>3
  <2>6. t \in Seq(Tag) /\ Len(t) = k
    BY <2>4, <2>5, Listed
  <2> QED
    BY <2>2, <2>4, <2>6
<1>5. \A k \in 0..m :
         Recorded(Tip(c, k)) = cut[k] /\ Ancestors(Tip(c, k)) = {c[j] : j \in 1..k}
  <2>1. PICK bad : bad = {k \in 0..m : ~(/\ Recorded(Tip(c, k)) = cut[k]
                                         /\ Ancestors(Tip(c, k)) = {c[j] : j \in 1..k})}
    OBVIOUS
  <2>2. CASE bad # {}
    <3>1. bad \in SUBSET Nat
      BY <2>1
    <3>2. PICK k \in bad : \A i \in bad : k <= i
      BY <2>2, <3>1, Least
    <3>3. k \in 0..m
      BY <2>1
    <3>4. CASE k = 0
      <4>1. Tip(c, k) = 0
        BY <3>4 DEF Tip
      <4>2. cut[k] = <<>>
        <5>1. PICK t \in Seq(Tag) : t = cut[k] /\ Len(t) = 0
          BY <1>4, <3>3, <3>4
        <5> QED
          BY <5>1
      <4>3. {c[j] : j \in 1..k} = {}
        BY <3>4
      <4> QED
        BY <1>2, <2>1, <4>1, <4>2, <4>3
    <3>5. CASE k # 0
      <4>1. PICK i \in 0..m : i = k - 1
        BY <3>3, <3>5
      <4>2. i \notin bad
        BY <3>2, <3>3, <4>1
      <4>3. Recorded(Tip(c, i)) = cut[i] /\ Ancestors(Tip(c, i)) = {c[j] : j \in 1..i}
        BY <2>1, <4>2
      <4>4. PICK s \in 1..n : s = c[k] /\ k \in 1..m
        BY <1>1, <3>3, <3>5
      <4>5. branches[s].parent = Tip(c, i) /\ TagOf(branches[s]) = tags[k] /\ Tip(c, k) = s
        <5>1. Over(c, k) = Tip(c, i)
          BY <3>3, <3>5, <4>1 DEF Over, Tip
        <5> QED
          BY <3>5, <4>4, <5>1 DEF Tip
      <4>6. Recorded(s) = Append(cut[i], tags[k])
        BY <1>2, <4>3, <4>5
      <4>7. Append(cut[i], tags[k]) = cut[k]
        <5>1. PICK e \in Tag : e = tags[k]
          BY <4>4, ElementIn
        <5>2. PICK x \in Seq(Tag), y \in Seq(Tag) : x = cut[i] /\ y = cut[k]
          BY <1>4, <3>3
        <5>3. /\ Len(x) = i /\ Len(y) = k
              /\ \A j \in 1..i : x[j] = tags[j]
              /\ \A j \in 1..k : y[j] = tags[j]
          BY <1>4, <3>3, <5>2
        <5>4. PICK z \in Seq(Tag) : z = Append(x, e)
          BY WithLast
        <5>5. Len(z) = i + 1 /\ z[i + 1] = e /\ \A j \in 1..i : z[j] = x[j]
          BY <5>2, <5>3, <5>4, WithLast
        <5>6. \A j \in 1..k : z[j] = y[j]
          <6>1. \A j \in 1..k : j \in 1..i \/ j = i + 1
            BY <3>3, <4>1
          <6> QED
            BY <4>1, <5>1, <5>3, <5>5, <6>1
        <5>7. Len(z) = Len(y)
          BY <4>1, <5>3, <5>5
        <5>8. z = y
          BY <5>3, <5>6, <5>7, SameSeq
        <5> QED
          BY <5>1, <5>2, <5>4, <5>8
      <4>8. {c[j] : j \in 1..k} = {c[j] : j \in 1..i} \cup {s}
        <5>1. 1..k = (1..i) \cup {k}
          BY <3>3, <3>5, <4>1
        <5> QED
          BY <4>4, <5>1
      <4>9. Ancestors(s) = {c[j] : j \in 1..i} \cup {s}
        BY <1>2, <4>3, <4>5
      <4> QED
        BY <2>1, <4>5, <4>6, <4>7, <4>8, <4>9
    <3> QED
      BY <3>4, <3>5
  <2>3. CASE bad = {}
    BY <2>1, <2>3
  <2> QED
    BY <2>2, <2>3
<1>6. m \in 0..m
  OBVIOUS
<1>7. cut[m] = tags
  <2>1. PICK x \in Seq(Tag) : x = cut[m]
    BY <1>4, <1>6
  <2>2. Len(x) = Len(tags) /\ \A j \in 1..Len(tags) : x[j] = tags[j]
    BY <1>4, <1>6, <2>1
  <2> QED
    BY <2>1, <2>2, SameSeq
<1> QED
  BY <1>5, <1>6, <1>7

\* When the walk is over the table is all branches.
LEMMA NestedTold ==
    ASSUME WalkInv, Linkage, AllNested PROVE RowsNested
<1> SUFFICES ASSUME Done PROVE \A i \in 1..Len(stmts) :
        LET r == stmts[i]
        IN  IF r.node = 0 THEN r.branch = 0 /\ r.site = 0
            ELSE /\ Recorded(r.branch) = Nesting(r.node, r.site)
                 /\ Of(r.node).kind \in {"assign", "step", "return"}
                      => r.gates = Ancestors(r.branch)
                 /\ \A b \in Ancestors(r.branch) : branches[b].proc = r.proc
  BY DEF RowsNested
<1>1. PICK n \in Nat : n = Len(branches)
  BY RowCounts
<1>2. Size = n /\ \A b \in 1..n : TableRow(b) = branches[b]
  BY <1>1 DEF Size, TableRow, Done
<1>3. StartOK /\ CallsOK /\ BranchesBack
  BY DEF WalkInv, Linkage
<1>4. \A r : Nested(r) =>
        IF r.node = 0 THEN r.branch = 0 /\ r.site = 0
        ELSE r.node \in Node =>
               /\ Recorded(r.branch) = Nesting(r.node, r.site)
               /\ Of(r.node).kind \in {"assign", "step", "return"}
                    => r.gates = Ancestors(r.branch)
               /\ \A b \in Ancestors(r.branch) : branches[b].proc = r.proc
  <2>1. SUFFICES ASSUME NEW r, Nested(r), r.node # 0, r.node \in Node
                 PROVE  /\ Recorded(r.branch) = Nesting(r.node, r.site)
                        /\ Of(r.node).kind \in {"assign", "step", "return"}
                             => r.gates = Ancestors(r.branch)
                        /\ \A b \in Ancestors(r.branch) : branches[b].proc = r.proc
    BY DEF Nested
  <2>2. PICK s \in 0..Len(sites) : s = r.site
    BY <2>1 DEF Nested
  <2>3. PICK tags \in Seq(Tag) : tags = Nesting(r.node, r.site)
    BY <1>3, <2>1, <2>2, NestingTyped
  <2>4. PICK m \in Nat : m = Len(tags)
    OBVIOUS
  <2>5. PICK c : ChainTo(c, tags, r.proc) /\ r.branch = Tip(c, m) /\ Gated(r, c, m)
    BY <2>1, <2>3, <2>4 DEF Nested
  <2>6. c \in [1..m -> 1..n]
    BY <1>2, <2>4, <2>5 DEF ChainTo
  <2>7. \A j \in 1..m : /\ branches[c[j]].parent = Over(c, j)
                        /\ TagOf(branches[c[j]]) = tags[j]
                        /\ branches[c[j]].proc = r.proc
    <3>1. SUFFICES ASSUME NEW j \in 1..m
                   PROVE  /\ branches[c[j]].parent = Over(c, j)
                          /\ TagOf(branches[c[j]]) = tags[j]
                          /\ branches[c[j]].proc = r.proc
      OBVIOUS
    <3>2. PICK b \in 1..n : b = c[j]
      BY <2>6
    <3>3. /\ TableRow(b).parent = Over(c, j) /\ TagOf(TableRow(b)) = tags[j]
          /\ TableRow(b).proc = r.proc
      BY <2>4, <2>5, <3>2 DEF ChainTo
    <3>4. TableRow(b) = branches[b]
      BY <1>2
    <3> QED
      BY <3>2, <3>3, <3>4
  <2>8. /\ Recorded(Tip(c, m)) = tags
        /\ Ancestors(Tip(c, m)) = {c[j] : j \in 1..m}
    <3>1. c \in [1..m -> 1..Len(branches)] /\ Len(tags) = m
      BY <1>1, <2>4, <2>6
    <3>2. \A j \in 1..m : /\ branches[c[j]].parent = Over(c, j)
                          /\ TagOf(branches[c[j]]) = tags[j]
      BY <2>7
    <3> QED
      BY <1>3, <3>1, <3>2, ChainRecorded
  <2>9. \A b \in {c[j] : j \in 1..m} : branches[b].proc = r.proc
    BY <2>7
  <2>10. Of(r.node).kind \in {"assign", "step", "return"} => r.gates = {c[j] : j \in 1..m}
    BY <2>5 DEF Gated
  <2> QED
    BY <2>3, <2>5, <2>8, <2>9, <2>10
<1>5. \A i \in 1..Len(stmts) : stmts[i].node # 0 => stmts[i].node \in Node
  <2>1. \A i \in 1..Len(stmts) : stmts[i] \in Stmt
    BY ElementIn DEF WalkInv, RowsOK
  <2> QED
    BY <2>1 DEF Stmt
<1>6. \A i \in 1..Len(stmts) : Nested(stmts[i])
  BY DEF AllNested
<1> QED
  BY <1>4, <1>5, <1>6

LEMMA NestedToldAll == WalkInv /\ Linkage /\ AllNested => RowsNested
  BY NestedTold

\* When the walk is over, the branch of every row is nested in the branch
\* table as its statement is nested in the source, through the calls that lead
\* to it; the levels a write is gated by are those, and all of its procedure.
THEOREM RowsAreNested == Spec => []RowsNested
<1>1. Init => WalkInv /\ Follows /\ Linkage /\ AllNested
  BY WalkInit, FollowInit, NestedInit
<1>2. WalkInv /\ Follows /\ Linkage /\ AllNested /\ [Next]_vars
        => (WalkInv /\ Follows /\ Linkage /\ AllNested)'
  BY WalkStep, FollowStep, NestedStep
<1>3. WalkInv /\ Linkage /\ AllNested => RowsNested
  BY NestedToldAll
<1> QED
  BY <1>1, <1>2, <1>3, PTL DEF Spec
=============================================================================
