------------------------------- MODULE Walker -------------------------------
(***************************************************************************)
(* The statement walk of one template (src/src/extract/StatementWalker.h)  *)
(* and what buildProcedure of TemplateBuilder.cpp files from it.           *)
(*                                                                         *)
(* The walk is a recursion over the syntax in which destructors and saved  *)
(* locals put back what a construct changed.  Here the C++ stack is an     *)
(* agenda: visiting a node replaces it by the parts it visits and by the   *)
(* items that undo what it set.  A construct sets fields of ctx; an item   *)
(* that undoes carries the ctx its construct found.                        *)
(*                                                                         *)
(* A subroutine is the node of its body, and a call names it.  Rows and    *)
(* branch levels are numbered from 1, and 0 is the code's -1 or null.      *)
(* Operands, positions and words are left out, except the word a force     *)
(* stamps; a node without a handler is of kind "plain".                    *)
(***************************************************************************)
EXTENDS Integers, Sequences, FiniteSets

CONSTANTS
    Node,       \* statements and expressions of the source
    Var,        \* what assignments write and loops step
    Delay,      \* delay controls
    Program,    \* the programs to walk
    Budget      \* kCallExpansionBudget: bodies a template may expand

NoDelay == "none"
Word == {"own", "force", "proc_assign"}
Kind == {"plain", "assign", "step", "row", "return", "timed", "force",
         "if", "case", "for", "foreach", "loop", "call"}

\* kids are what visitDefault visits, head the control expressions, arms the
\* gated parts (of a case: the items, then the default).
Syntax == [kind : Kind, head : Seq(Node), arms : Seq(Node), kids : Seq(Node),
           vars : SUBSET Var, callee : Node \cup {0}, binds : Nat,
           waits : Nat, delay : Delay \cup {NoDelay}, word : Word]
Walk == [top : Node, continuous : BOOLEAN, delay : Delay \cup {NoDelay},
         timing : Node \cup {0}, header : BOOLEAN]
Programs == [syntax : [Node -> Syntax], result : [Node -> SUBSET Var],
             walks : Seq(Walk)]

\* Every node has one place in the source: it is one part of one node, numbered
\* before it, or the body of one procedure, or a subroutine's.
Mentions(p, m) == p.syntax[m].head \o p.syntax[m].arms \o p.syntax[m].kids
Bodies(p) == {p.walks[i].top : i \in DOMAIN p.walks}
             \cup {p.syntax[n].callee : n \in {m \in Node : p.syntax[m].kind = "call"}}
IsForest(p) ==
    /\ \A m1, m2 \in Node :
        \A i \in DOMAIN Mentions(p, m1), j \in DOMAIN Mentions(p, m2) :
            Mentions(p, m1)[i] = Mentions(p, m2)[j] => m1 = m2 /\ i = j
    /\ \A m \in Node : \A i \in DOMAIN Mentions(p, m) :
            Mentions(p, m)[i] > m /\ Mentions(p, m)[i] \notin Bodies(p)
    /\ \A i, j \in DOMAIN p.walks : p.walks[i].top = p.walks[j].top => i = j

ASSUME NodesPositive == Node \subseteq Nat \ {0}
ASSUME DelayNamed == NoDelay \notin Delay
ASSUME BudgetNat == Budget \in Nat
ASSUME ProgramTyped == Program \subseteq Programs
ASSUME ProgramForests == \A p \in Program : IsForest(p)
ASSUME CallsNameBodies ==
    \A p \in Program, n \in Node :
        p.syntax[n].kind = "call" => p.syntax[n].callee # 0

VARIABLES
    program,    \* the elaborated template, slang's output
    at,         \* how many procedures have been started
    walking,    \* whether the last of them is still being walked
    agenda,     \* what the walk still has to do, next first
    ctx,        \* what the constructs around the next item have set
    levels,     \* the branch levels around it, outermost first
    frames,     \* BranchTable: the levels of this walk that have a row
    seq,
    base,       \* branchBase
    proc, procedures,
    curStmt, curBranch,
    budget, truncated,
    stmts, branches, sites, binds

walkVars == <<agenda, ctx, levels, frames, seq>>
buildVars == <<base, proc, procedures, curStmt, curBranch, budget, truncated>>
tables == <<stmts, branches, sites, binds>>
vars == <<program, at, walking, walkVars, buildVars, tables>>

\* What scoping restores: bindable, callSiteSlot, curSub, subDepth,
\* activeSubs, loopVars, pendingDelay, constructOverride.
Context == [bindable : BOOLEAN, site : Nat, sub : Node \cup {0}, depth : Nat,
            active : SUBSET Node, indices : SUBSET Var,
            delay : Delay \cup {NoDelay}, word : Word]
Outer == [bindable |-> TRUE, site |-> 0, sub |-> 0, depth |-> 0,
          active |-> {}, indices |-> {}, delay |-> NoDelay, word |-> "own"]

Item == [op : {"visit", "arm", "point", "pop", "unguard", "unindex",
               "undelay", "unforce", "enter", "leave"},
         node : Node, arm : Nat, ctx : Context]
Level == [node : Node, arm : Nat, id : Nat]
Frame == [node : Node, arm : Nat, parent : Nat, depth : Nat, site : Nat]
Branch == [node : Node, arm : Nat, parent : Nat, depth : Nat, site : Nat,
           proc : Nat]
Stmt == [node : Node \cup {0}, proc : Nat, site : Nat, branch : Nat,
         seq : Int, delay : Delay \cup {NoDelay}, word : Word,
         writes : SUBSET Var, gates : SUBSET Nat]
Site == [node : Node, callee : Node, parent : Nat, depth : Nat, caller : Nat]
Bind == [site : Nat, stmt : Nat]

-----------------------------------------------------------------------------
(* The agenda.                                                             *)

Of(n) == program.syntax[n]
Do(op, n) == [op |-> op, node |-> n, arm |-> 0, ctx |-> Outer]
Undo(op, n) == [op |-> op, node |-> n, arm |-> 0, ctx |-> ctx]
Visits(ns) == [i \in 1..Len(ns) |-> Do("visit", ns[i])]
Arms(n) == [i \in 1..Len(Of(n).arms) |-> [Do("arm", n) EXCEPT !.arm = i]]

Pending(op) == agenda # <<>> /\ Head(agenda).op = op
Visiting(n, kind) ==
    Pending("visit") /\ Head(agenda).node = n /\ Of(n).kind = kind
Replace(items) == agenda' = items \o Tail(agenda)

-----------------------------------------------------------------------------
(* Branch levels.  currentBranch gives the levels without a row their rows *)
(* and answers the innermost; they are the last ones, since a level gets   *)
(* its row when it is entered, a case point with its first arm.            *)

Settled(lv) == Cardinality({i \in 1..Len(lv) : lv[i].id # 0})
IdOf(lv, i) == IF lv[i].id # 0 THEN lv[i].id
               ELSE Len(frames) + i - Settled(lv)

\* A bug: the new levels hang on the outermost one.
SettleFlat(lv) ==
    /\ levels' = [i \in 1..Len(lv) |-> [lv[i] EXCEPT !.id = IdOf(lv, i)]]
    /\ frames' = frames \o
         [k \in 1..(Len(lv) - Settled(lv)) |->
            LET i == Settled(lv) + k
            IN  [node |-> lv[i].node, arm |-> lv[i].arm, depth |-> i,
                 parent |-> IF i = 1 THEN 0 ELSE IdOf(lv, 1),
                 site |-> ctx.site]]

Settle(lv) ==
    /\ levels' = [i \in 1..Len(lv) |-> [lv[i] EXCEPT !.id = IdOf(lv, i)]]
    /\ frames' = frames \o
         [k \in 1..(Len(lv) - Settled(lv)) |->
            LET i == Settled(lv) + k
            IN  [node |-> lv[i].node, arm |-> lv[i].arm, depth |-> i,
                 parent |-> IF i = 1 THEN 0 ELSE IdOf(lv, i - 1),
                 site |-> ctx.site]]

CurrentBranch == IF levels = <<>> THEN 0 ELSE IdOf(levels, Len(levels))

\* BranchTable::chain: the levels whose reads gate what stands in branch b.
Chain(b) ==
    LET up[i \in 0..Len(frames)] ==
            IF i = 0 THEN {} ELSE up[frames[i].parent] \cup {i}
    IN  up[b] \cap DOMAIN frames

InTemplate(b) == IF b = 0 THEN 0 ELSE base + b

-----------------------------------------------------------------------------
(* Rows.                                                                   *)

\* newStmt for a node of the walk, k places after the current sequence.
Row(n, k, writes) ==
    [node |-> n, proc |-> proc, site |-> ctx.site,
     branch |-> InTemplate(CurrentBranch),
     seq |-> IF proc = 0 THEN -1 ELSE seq + k,
     delay |-> NoDelay, word |-> "own", writes |-> writes, gates |-> {}]

\* fileAssignment: the row of a write, and the levels its control
\* dependencies name.
Write(n, targets, delay) ==
    [Row(n, 0, targets) EXCEPT
        !.delay = delay, !.word = ctx.word,
        !.gates = {InTemplate(b) : b \in Chain(CurrentBranch)}]

File(rows) ==
    /\ stmts' = stmts \o rows
    /\ seq' = seq + Len(rows)
    /\ IF rows = <<>> THEN UNCHANGED <<curStmt, curBranch>>
       ELSE /\ curStmt' = Len(stmts) + Len(rows)
            /\ curBranch' = InTemplate(CurrentBranch)

Quiet == UNCHANGED <<program, at, walking, base, proc, procedures, branches>>
NoRows == UNCHANGED <<stmts, seq, curStmt, curBranch>>
NoCalls == UNCHANGED <<budget, truncated, sites, binds>>
NoLevels == UNCHANGED <<levels, frames>>

-----------------------------------------------------------------------------
(* Statements and expressions.                                             *)

VisitDefault(n) ==
    /\ Replace(Visits(Of(n).kids))
    /\ NoLevels /\ NoCalls /\ Quiet

HandlePlain(n) ==
    /\ Visiting(n, "plain")
    /\ VisitDefault(n)
    /\ NoRows /\ UNCHANGED ctx

\* A loop's indices are no targets, and an assignment left with none has no
\* row; it has used its place in the sequence all the same.
HandleAssignment(n) ==
    /\ Visiting(n, "assign")
    /\ LET targets == Of(n).vars \ ctx.indices
           delay == IF Of(n).delay # NoDelay THEN Of(n).delay ELSE ctx.delay
       IN  IF targets # {} THEN File(<<Write(n, targets, delay)>>)
           ELSE seq' = seq + 1 /\ UNCHANGED <<stmts, curStmt, curBranch>>
    /\ VisitDefault(n)
    /\ UNCHANGED ctx

\* x++ writes its operand.  The code files a statement for each target; the
\* model one row for all of them, as there is one but for an operand that is
\* itself a concatenation.
HandleStep(n) ==
    /\ Visiting(n, "step")
    /\ LET targets == Of(n).vars \ ctx.indices
       IN  IF targets # {} THEN File(<<Write(n, targets, ctx.delay)>>)
           ELSE NoRows
    /\ VisitDefault(n)
    /\ UNCHANGED ctx

\* return e writes the result of the subroutine being walked.
HandleReturn(n) ==
    /\ Visiting(n, "return")
    /\ LET result == IF ctx.sub = 0 THEN {} ELSE program.result[ctx.sub]
       IN  IF result # {} THEN File(<<Write(n, result, ctx.delay)>>)
           ELSE NoRows
    /\ VisitDefault(n)
    /\ UNCHANGED ctx

\* Assertions, wait, a call as a statement, system tasks, ->, disable,
\* release; in a head, the system task collectGating files.
HandleRow(n) ==
    /\ Visiting(n, "row")
    /\ File(<<Row(n, 0, {})>>)
    /\ VisitDefault(n)
    /\ UNCHANGED ctx

\* A bug: the delay outlives the statement it prefixes.
HandleTimedKept(n) ==
    /\ Visiting(n, "timed")
    /\ IF n = program.walks[at].timing THEN NoRows
       ELSE File([k \in 1..Of(n).waits |-> Row(n, k - 1, {})])
    /\ ctx' = [ctx EXCEPT !.delay =
                 IF Of(n).delay = NoDelay THEN @ ELSE Of(n).delay]
    /\ Replace(Visits(Of(n).kids))
    /\ NoLevels /\ NoCalls /\ Quiet

\* An event control that is not the sensitivity waits (only procedures have
\* them, no function reached from an assign may); a delay is in force
\* below the statement it prefixes.
HandleTimed(n) ==
    /\ Visiting(n, "timed")
    /\ IF n = program.walks[at].timing THEN NoRows
       ELSE File([k \in 1..Of(n).waits |-> Row(n, k - 1, {})])
    /\ IF Of(n).delay = NoDelay
       THEN Replace(Visits(Of(n).kids)) /\ UNCHANGED ctx
       ELSE /\ ctx' = [ctx EXCEPT !.delay = Of(n).delay]
            /\ Replace(Visits(Of(n).kids) \o <<Undo("undelay", n)>>)
    /\ NoLevels /\ NoCalls /\ Quiet

Undelay ==
    /\ Pending("undelay")
    /\ ctx' = [ctx EXCEPT !.delay = Head(agenda).ctx.delay]
    /\ Replace(<<>>)
    /\ NoRows /\ NoLevels /\ NoCalls /\ Quiet

HandleForce(n) ==
    /\ Visiting(n, "force")
    /\ ctx' = [ctx EXCEPT !.word = Of(n).word]
    /\ Replace(Visits(Of(n).kids) \o <<Undo("unforce", n)>>)
    /\ NoRows /\ NoLevels /\ NoCalls /\ Quiet

\* A bug: the word stays for what comes after.
UnforceNever ==
    /\ Pending("unforce")
    /\ Replace(<<>>)
    /\ NoRows /\ NoLevels /\ NoCalls /\ Quiet /\ UNCHANGED ctx

Unforce ==
    /\ Pending("unforce")
    /\ ctx' = [ctx EXCEPT !.word = Head(agenda).ctx.word]
    /\ Replace(<<>>)
    /\ NoRows /\ NoLevels /\ NoCalls /\ Quiet

-----------------------------------------------------------------------------
(* Branches and loops.  The control expressions come first, under the      *)
(* enclosing levels and with nothing to bind to (visitGuarded).            *)

GuardedHead(n) == Visits(Of(n).head) \o <<Undo("unguard", n)>>

HandleConditional(n) ==
    /\ Visiting(n, "if")
    /\ ctx' = [ctx EXCEPT !.bindable = FALSE]
    /\ Replace(GuardedHead(n) \o Arms(n))
    /\ NoRows /\ NoLevels /\ NoCalls /\ Quiet

HandleCase(n) ==
    /\ Visiting(n, "case")
    /\ ctx' = [ctx EXCEPT !.bindable = FALSE]
    /\ Replace(GuardedHead(n) \o <<Do("point", n)>> \o Arms(n)
               \o <<Do("pop", n)>>)
    /\ NoRows /\ NoLevels /\ NoCalls /\ Quiet

\* while, do, repeat; forever has no head.
HandleLoop(n) ==
    /\ Visiting(n, "loop")
    /\ ctx' = [ctx EXCEPT !.bindable = FALSE]
    /\ Replace(GuardedHead(n) \o Arms(n))
    /\ NoRows /\ NoLevels /\ NoCalls /\ Quiet

\* The variables the header steps are indices while it and the body are
\* walked.
HandleFor(n) ==
    /\ Visiting(n, "for")
    /\ ctx' = [ctx EXCEPT !.bindable = FALSE, !.indices = @ \cup Of(n).vars]
    /\ Replace(GuardedHead(n) \o Arms(n) \o <<Undo("unindex", n)>>)
    /\ NoRows /\ NoLevels /\ NoCalls /\ Quiet

HandleForeach(n) ==
    /\ Visiting(n, "foreach")
    /\ ctx' = [ctx EXCEPT !.indices = @ \cup Of(n).vars]
    /\ Replace(Arms(n) \o <<Undo("unindex", n)>>)
    /\ NoRows /\ NoLevels /\ NoCalls /\ Quiet

Unguard ==
    /\ Pending("unguard")
    /\ ctx' = [ctx EXCEPT !.bindable = Head(agenda).ctx.bindable]
    /\ Replace(<<>>)
    /\ NoRows /\ NoLevels /\ NoCalls /\ Quiet

\* A bug: it drops every index of its header.
UnindexAll ==
    /\ Pending("unindex")
    /\ ctx' = [ctx EXCEPT !.indices = @ \ Of(Head(agenda).node).vars]
    /\ Replace(<<>>)
    /\ NoRows /\ NoLevels /\ NoCalls /\ Quiet

\* Only the indices this loop registered: one stepped by an enclosing loop
\* too is still an index there.
Unindex ==
    /\ Pending("unindex")
    /\ LET mine == Of(Head(agenda).node).vars \ Head(agenda).ctx.indices
       IN  ctx' = [ctx EXCEPT !.indices = @ \ mine]
    /\ Replace(<<>>)
    /\ NoRows /\ NoLevels /\ NoCalls /\ Quiet

PushPoint ==
    /\ Pending("point")
    /\ levels' = Append(levels, [node |-> Head(agenda).node, arm |-> 0, id |-> 0])
    /\ Replace(<<>>)
    /\ NoRows /\ NoCalls /\ Quiet /\ UNCHANGED <<ctx, frames>>

\* An arm has its row before its body is walked, whether or not the body
\* comes to need one.
EnterArm ==
    /\ Pending("arm")
    /\ LET n == Head(agenda).node
           k == Head(agenda).arm
       IN  /\ Settle(Append(levels, [node |-> n, arm |-> k, id |-> 0]))
           /\ Replace(<<Do("visit", Of(n).arms[k]), Do("pop", n)>>)
    /\ NoRows /\ NoCalls /\ Quiet /\ UNCHANGED ctx

PopLevel ==
    /\ Pending("pop")
    /\ levels' = SubSeq(levels, 1, Len(levels) - 1)
    /\ Replace(<<>>)
    /\ NoRows /\ NoCalls /\ Quiet /\ UNCHANGED <<ctx, frames>>

-----------------------------------------------------------------------------
(* Calls.  The arguments are visited before the call is entered.           *)

HandleCall(n) ==
    /\ Visiting(n, "call")
    /\ Replace(Visits(Of(n).kids) \o <<Do("enter", n)>>)
    /\ NoRows /\ NoLevels /\ NoCalls /\ Quiet /\ UNCHANGED ctx

Entering(n) == Pending("enter") /\ Head(agenda).node = n

Opened(n, caller) ==
    [node |-> n, callee |-> Of(n).callee, parent |-> ctx.site,
     depth |-> ctx.depth + 1, caller |-> caller]

\* bindArguments: what ties the actuals to the formals belongs to the site.
Bindings(n, caller) ==
    [i \in 1..Of(n).binds |-> [site |-> Len(sites) + 1, stmt |-> caller]]

\* A bug: the caller is the current statement even of a control expression.
AllocateStale(n) ==
    /\ sites' = Append(sites, Opened(n, curStmt))
    /\ binds' = binds \o Bindings(n, curStmt)

\* allocCallSite; with nothing to bind to there is no calling statement.
Allocate(n) ==
    LET caller == IF ctx.bindable THEN curStmt ELSE 0
    IN  /\ sites' = Append(sites, Opened(n, caller))
        /\ binds' = binds \o Bindings(n, caller)

Recursive(n) ==
    /\ Entering(n)
    /\ Of(n).callee \in ctx.active
    /\ Allocate(n)
    /\ Replace(<<>>)
    /\ NoRows /\ NoLevels /\ Quiet /\ UNCHANGED <<ctx, budget, truncated>>

\* A bug: the call is given up after it was entered.
OverBudgetInside(n) ==
    /\ Entering(n)
    /\ Of(n).callee \notin ctx.active
    /\ budget = 0
    /\ Allocate(n)
    /\ truncated' = truncated + 1
    /\ ctx' = [ctx EXCEPT !.active = @ \cup {Of(n).callee}]
    /\ Replace(<<>>)
    /\ NoRows /\ NoLevels /\ Quiet /\ UNCHANGED budget

OverBudget(n) ==
    /\ Entering(n)
    /\ Of(n).callee \notin ctx.active
    /\ budget = 0
    /\ Allocate(n)
    /\ truncated' = truncated + 1
    /\ Replace(<<>>)
    /\ NoRows /\ NoLevels /\ Quiet /\ UNCHANGED <<ctx, budget>>

\* A bug: bodies are walked on credit.
ExpandUnchecked(n) ==
    /\ Entering(n)
    /\ Of(n).callee \notin ctx.active
    /\ Allocate(n)
    /\ budget' = budget - 1
    /\ ctx' = [ctx EXCEPT !.site = Len(sites) + 1, !.depth = @ + 1,
                          !.active = @ \cup {Of(n).callee},
                          !.sub = Of(n).callee]
    /\ Replace(<<Do("visit", Of(n).callee), Undo("leave", n)>>)
    /\ NoRows /\ NoLevels /\ Quiet /\ UNCHANGED truncated

Expand(n) ==
    /\ Entering(n)
    /\ Of(n).callee \notin ctx.active
    /\ budget > 0
    /\ Allocate(n)
    /\ budget' = budget - 1
    /\ ctx' = [ctx EXCEPT !.site = Len(sites) + 1, !.depth = @ + 1,
                          !.active = @ \cup {Of(n).callee},
                          !.sub = Of(n).callee]
    /\ Replace(<<Do("visit", Of(n).callee), Undo("leave", n)>>)
    /\ NoRows /\ NoLevels /\ Quiet /\ UNCHANGED truncated

\* A bug: the depth is not given back.
LeaveCallDeeper ==
    /\ Pending("leave")
    /\ LET saved == Head(agenda).ctx
       IN  ctx' = [ctx EXCEPT !.site = saved.site, !.sub = saved.sub,
                              !.active = @ \ {Of(Head(agenda).node).callee}]
    /\ Replace(<<>>)
    /\ NoRows /\ NoLevels /\ NoCalls /\ Quiet

LeaveCall ==
    /\ Pending("leave")
    /\ LET saved == Head(agenda).ctx
       IN  ctx' = [ctx EXCEPT !.site = saved.site, !.sub = saved.sub,
                              !.depth = @ - 1,
                              !.active = @ \ {Of(Head(agenda).node).callee}]
    /\ Replace(<<>>)
    /\ NoRows /\ NoLevels /\ NoCalls /\ Quiet

-----------------------------------------------------------------------------
(* buildProcedure around one walk.                                         *)

Init ==
    /\ program \in Program
    /\ at = 0 /\ walking = FALSE
    /\ agenda = <<>> /\ ctx = Outer /\ levels = <<>> /\ frames = <<>>
    /\ seq = 0 /\ base = 0 /\ proc = 0 /\ procedures = 0
    /\ curStmt = 0 /\ curBranch = 0
    /\ budget = Budget /\ truncated = 0
    /\ stmts = <<>> /\ branches = <<>> /\ sites = <<>> /\ binds = <<>>

\* A new walker; the call site in force is the template's.  A sensitivity
\* that is no plain net is read by a statement of its own.
StartWalk ==
    /\ ~walking /\ at < Len(program.walks)
    /\ LET w == program.walks[at + 1]
           p == IF w.continuous THEN 0 ELSE procedures + 1
           sensitivity == [node |-> 0, proc |-> p, site |-> ctx.site,
                           branch |-> curBranch, seq |-> -1,
                           delay |-> NoDelay, word |-> "own",
                           writes |-> {}, gates |-> {}]
       IN  /\ proc' = p
           /\ procedures' = IF w.continuous THEN procedures ELSE p
           /\ stmts' = IF w.header THEN Append(stmts, sensitivity) ELSE stmts
           /\ curStmt' = IF w.header THEN Len(stmts) + 1 ELSE 0
           /\ ctx' = [Outer EXCEPT !.site = ctx.site, !.delay = w.delay]
           /\ agenda' = <<Do("visit", w.top)>>
    /\ at' = at + 1 /\ walking' = TRUE
    /\ base' = Len(branches)
    /\ levels' = <<>> /\ frames' = <<>> /\ seq' = 0
    /\ NoCalls /\ UNCHANGED <<program, curBranch, branches>>

EndWalk ==
    /\ walking /\ agenda = <<>>
    /\ branches' = branches \o
         [i \in 1..Len(frames) |->
            [node |-> frames[i].node, arm |-> frames[i].arm,
             parent |-> InTemplate(frames[i].parent),
             depth |-> frames[i].depth, site |-> frames[i].site,
             proc |-> proc]]
    /\ walking' = FALSE
    /\ proc' = 0 /\ curStmt' = 0 /\ curBranch' = 0
    /\ NoCalls /\ NoLevels
    /\ UNCHANGED <<program, at, agenda, ctx, seq, base, procedures, stmts>>

Done == ~walking /\ at = Len(program.walks)
Finished == Done /\ UNCHANGED vars

Handle(n) ==
    \/ HandlePlain(n) \/ HandleAssignment(n) \/ HandleStep(n)
    \/ HandleReturn(n) \/ HandleRow(n) \/ HandleTimed(n) \/ HandleForce(n)
    \/ HandleConditional(n) \/ HandleCase(n) \/ HandleLoop(n)
    \/ HandleFor(n) \/ HandleForeach(n)
    \/ HandleCall(n) \/ Recursive(n) \/ OverBudget(n) \/ Expand(n)

Resume ==
    \/ PushPoint \/ EnterArm \/ PopLevel
    \/ Unguard \/ Unindex \/ Undelay \/ Unforce \/ LeaveCall

Next == StartWalk \/ (\E n \in Node : Handle(n)) \/ Resume \/ EndWalk \/ Finished

Spec == Init /\ [][Next]_vars
=============================================================================
